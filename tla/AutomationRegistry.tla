------------------------- MODULE AutomationRegistry -------------------------
(***************************************************************************)
(* One automation: its versions, its activation, the index of triggers     *)
(* kept for it, and the events, webhooks and cron calls that fire it.      *)
(*                                                                         *)
(* Nothing is transactional: an activation writes the automation, deletes  *)
(* the bindings and creates new ones in three calls; a stop writes the     *)
(* automation and then its bindings; a firing reads the bindings, reads    *)
(* the automation again for each, and creates a run. All of these overlap, *)
(* and a request may die between two of its writes.                        *)
(*                                                                         *)
(* Abstracted: the graph of a version, of which only the trigger keys      *)
(* matter; the match of a schedule with the minute, which is a firing that *)
(* may happen or not; the run once it is created (AutomationRun).          *)
(***************************************************************************)
EXTENDS Naturals

CONSTANTS
  TriggerKeys,  \* trigger keys
  TriggerNodes, \* trigger nodes
  MaxVersions,  \* bound: versions of the automation
  ListensTo,    \* version -> its graph's trigger nodes, each with its key
  Admins,       \* the requests that manage the automation
  Firers,       \* the events, webhooks, cron calls and runs by hand under way
  MaxOps,       \* bound: management requests
  MaxDead       \* bound: management requests that die

ASSUME RegistryAssumption ==
  /\ MaxVersions \in Nat \ {0}
  /\ ListensTo \in [1..MaxVersions -> SUBSET [node : TriggerNodes, key : TriggerKeys]]
  /\ MaxOps \in Nat /\ MaxDead \in Nat

Versions == 1..MaxVersions

VARIABLES
  automation,  \* its status and its activeVersionId (0: none)
  latest,      \* the number of its latest version
  bindings,    \* its trigger bindings: who indexed them, version, node, key, isActive
  admin,       \* request -> where it is and the version it is about
  firer,       \* call -> where it is, bindings left, the version to run
  ops, dead,   \* management requests made, and those that died
  activated,   \* ghost: the versions that have been active
  ran,         \* ghost: the versions runs were created for
  late         \* ghost: call -> runs it created since the automation was stopped

registryVars == <<automation, latest, bindings, admin, firer, ops, dead, activated, ran, late>>

AtRest == [at |-> "idle", v |-> 0]

Still == [at |-> "idle", batch |-> {}, v |-> 0]

\* createAutomationDefinition: a DRAFT with its first version.
RegistryInit ==
  /\ automation = [status |-> "DRAFT", active |-> 0]
  /\ latest = 1
  /\ bindings = {}
  /\ admin = [a \in Admins |-> AtRest]
  /\ firer = [f \in Firers |-> Still]
  /\ ops = 0 /\ dead = 0
  /\ activated = {} /\ ran = {}
  /\ late = [f \in Firers |-> 0]

-----------------------------------------------------------------------------
(* Managing the automation.                                                *)

\* The first read of a request: it decides what the request goes on to do.
Begins(a, at, v) ==
  /\ admin[a].at = "idle"
  /\ ops < MaxOps
  /\ ops' = ops + 1
  /\ admin' = [admin EXCEPT ![a] = [at |-> at, v |-> v]]
  /\ UNCHANGED <<automation, latest, bindings, firer, dead, activated, ran, late>>

NewVersionReads(a) == automation.status # "ARCHIVED" /\ Begins(a, "number", 0)

NewVersionNumbers(a) ==
  /\ admin[a].at = "number"
  /\ admin' = [admin EXCEPT ![a] = [at |-> "version", v |-> latest]]
  /\ UNCHANGED <<automation, latest, bindings, firer, ops, dead, activated, ran, late>>

\* The unique index refuses a number somebody else has taken.
NewVersionCreates(a) ==
  /\ admin[a].at = "version"
  /\ latest' = IF latest = admin[a].v /\ latest < MaxVersions THEN latest + 1 ELSE latest
  /\ admin' = [admin EXCEPT ![a] = AtRest]
  /\ UNCHANGED <<automation, bindings, firer, ops, dead, activated, ran, late>>

ActivateReads(a) == \E v \in 1..latest : Begins(a, "activate", v)

ActivateWrites(a) ==
  /\ admin[a].at = "activate"
  /\ automation' = [status |-> "ACTIVE", active |-> admin[a].v]
  /\ activated' = activated \cup {admin[a].v}
  /\ admin' = [admin EXCEPT ![a].at = "delete"]
  /\ UNCHANGED <<latest, bindings, firer, ops, dead, ran, late>>

\* reindexAutomationTriggerBindings: every binding goes, whoever made it ...
Unindex(a) ==
  /\ admin[a].at = "delete"
  /\ bindings' = {}
  /\ admin' = [admin EXCEPT ![a].at = "index"]
  /\ UNCHANGED <<automation, latest, firer, ops, dead, activated, ran, late>>

\* A slip: the latest version is indexed, and not the one that was activated.
Mut_IndexesLatest(a) == latest

indexed(a) == admin[a].v

\* ... and one is created per trigger node of the version.
Index(a) ==
  /\ admin[a].at = "index"
  /\ bindings' = bindings \cup
       {[by |-> a, v |-> indexed(a), node |-> t.node, key |-> t.key, on |-> TRUE] :
          t \in ListensTo[indexed(a)]}
  /\ admin' = [admin EXCEPT ![a] = AtRest]
  /\ UNCHANGED <<automation, latest, firer, ops, dead, activated, ran, late>>

StopReads(a) == Begins(a, "stop", 0)

\* deactivateAutomation and archiveAutomation, whatever the status was.
StopWrites(a) ==
  /\ admin[a].at = "stop"
  /\ \E s \in {"INACTIVE", "ARCHIVED"} : automation' = [automation EXCEPT !.status = s]
  /\ admin' = [admin EXCEPT ![a].at = "off"]
  /\ late' = [f \in Firers |-> 0]
  /\ UNCHANGED <<latest, bindings, firer, ops, dead, activated, ran>>

SwitchOff(a) ==
  /\ admin[a].at = "off"
  /\ bindings' = {[b EXCEPT !.on = FALSE] : b \in bindings}
  /\ admin' = [admin EXCEPT ![a] = AtRest]
  /\ UNCHANGED <<automation, latest, firer, ops, dead, activated, ran, late>>

AdminDies(a) ==
  /\ admin[a].at # "idle"
  /\ dead < MaxDead
  /\ dead' = dead + 1
  /\ admin' = [admin EXCEPT ![a] = AtRest]
  /\ UNCHANGED <<automation, latest, bindings, firer, ops, activated, ran, late>>

-----------------------------------------------------------------------------
(* Firing it.                                                              *)

\* fireAutomationsForEvent and processDueAutomationSchedules: the bindings of
\* the key that are on, if the automation is active.
FireReads(f, k) ==
  /\ firer[f].at = "idle"
  /\ automation.status = "ACTIVE"
  /\ LET found == {b \in bindings : b.key = k /\ b.on}
     IN  /\ found # {}
         /\ firer' = [firer EXCEPT ![f] = [at |-> "fire", batch |-> found, v |-> 0]]
  /\ UNCHANGED <<automation, latest, bindings, admin, ops, dead, activated, ran, late>>

\* A slip: the automation is not read again for each binding.
Mut_TrustsTheList == TRUE

StillActive == automation.status = "ACTIVE"

\* fireBinding reads the automation again.
FireBinding(f, b) ==
  /\ firer[f].at = "fire" /\ b \in firer[f].batch
  /\ firer' = [firer EXCEPT ![f] =
       IF StillActive
       THEN [at |-> "create", batch |-> @.batch \ {b}, v |-> b.v]
       ELSE [at |-> "fire", batch |-> @.batch \ {b}, v |-> 0]]
  /\ UNCHANGED <<automation, latest, bindings, admin, ops, dead, activated, ran, late>>

\* createAutomationRun: the quota may refuse it, and the next binding follows.
FireCreates(f) ==
  /\ firer[f].at = "create"
  /\ firer' = [firer EXCEPT ![f].at = "fire", ![f].v = 0]
  /\ \/ UNCHANGED <<ran, late>>
     \/ /\ ran' = ran \cup {firer[f].v}
        /\ late' = [late EXCEPT ![f] = IF automation.status = "ACTIVE" THEN @ ELSE @ + 1]
  /\ UNCHANGED <<automation, latest, bindings, admin, ops, dead, activated>>

FireEnds(f) ==
  /\ firer[f].at = "fire" /\ firer[f].batch = {}
  /\ firer' = [firer EXCEPT ![f] = Still]
  /\ UNCHANGED <<automation, latest, bindings, admin, ops, dead, activated, ran, late>>

\* fireAutomationWebhook: the active version, without a look at the bindings.
HookReads(f) ==
  /\ firer[f].at = "idle"
  /\ automation.status = "ACTIVE" /\ automation.active # 0
  /\ firer' = [firer EXCEPT ![f] = [at |-> "create", batch |-> {}, v |-> automation.active]]
  /\ UNCHANGED <<automation, latest, bindings, admin, ops, dead, activated, ran, late>>

\* triggerManualAutomationRun: the active version, whatever the status ...
ByHandReads(f) ==
  /\ firer[f].at = "idle" /\ automation.active # 0
  /\ firer' = [firer EXCEPT ![f] = [at |-> "manual", batch |-> {}, v |-> automation.active]]
  /\ UNCHANGED <<automation, latest, bindings, admin, ops, dead, activated, ran, late>>

\* ... and retryAutomationRun: the version of a run that is over.
RetryReads(f) ==
  /\ firer[f].at = "idle"
  /\ \E v \in ran : firer' = [firer EXCEPT ![f] = [at |-> "manual", batch |-> {}, v |-> v]]
  /\ UNCHANGED <<automation, latest, bindings, admin, ops, dead, activated, ran, late>>

\* The quota may refuse these runs too.
ByHandCreates(f) ==
  /\ firer[f].at = "manual"
  /\ ran' \in {ran, ran \cup {firer[f].v}}
  /\ firer' = [firer EXCEPT ![f] = Still]
  /\ UNCHANGED <<automation, latest, bindings, admin, ops, dead, activated, late>>

-----------------------------------------------------------------------------
AdminStep(a) ==
  \/ NewVersionReads(a) \/ NewVersionNumbers(a) \/ NewVersionCreates(a)
  \/ ActivateReads(a) \/ ActivateWrites(a) \/ Unindex(a) \/ Index(a)
  \/ StopReads(a) \/ StopWrites(a) \/ SwitchOff(a)
  \/ AdminDies(a)

FirerStep(f) ==
  \/ \E k \in TriggerKeys : FireReads(f, k)
  \/ \E b \in firer[f].batch : FireBinding(f, b)
  \/ FireCreates(f) \/ FireEnds(f) \/ HookReads(f)
  \/ ByHandReads(f) \/ RetryReads(f) \/ ByHandCreates(f)

RegistryNext == (\E a \in Admins : AdminStep(a)) \/ (\E f \in Firers : FirerStep(f))

RegistrySpec == RegistryInit /\ [][RegistryNext]_registryVars

-----------------------------------------------------------------------------
(* Properties.                                                             *)

Binding ==
  [by : Admins, v : Versions, node : TriggerNodes, key : TriggerKeys, on : BOOLEAN]

\* Types.
RegistryTypeOK ==
  /\ automation \in [status : {"DRAFT", "ACTIVE", "INACTIVE", "ARCHIVED"},
                     active : 0..MaxVersions]
  /\ latest \in Versions
  /\ bindings \subseteq Binding
  /\ admin \in [Admins -> [at : {"idle", "number", "version", "activate", "delete",
                                 "index", "stop", "off"}, v : 0..MaxVersions]]
  /\ firer \in [Firers -> [at : {"idle", "fire", "create", "manual"}, batch : SUBSET Binding,
                           v : 0..MaxVersions]]
  /\ ops \in 0..MaxOps /\ dead \in 0..MaxDead
  /\ activated \subseteq Versions /\ ran \subseteq 0..MaxVersions
  /\ late \in [Firers -> Nat]

\* No run is ever created for a version nobody activated, by hand, by a retry or
\* for an event, whichever activation's bindings it is served from and however
\* long ago they were read.
OnlyActivatedRuns == ran \subseteq activated

\* Once the automation is stopped, a call that is firing it creates one run
\* more at most, the one it was about to create, however long its list. (Runs by
\* hand do not look at the status, and are not counted.)
OneRunAfterStop == \A f \in Firers : late[f] <= 1

(* What one would expect, and the code does not keep (README) *)

\* At rest, the triggers that are on are those of the active version.
IndexIsActive ==
  (\A a \in Admins : admin[a].at = "idle") =>
    \A b \in bindings : b.on => b.v = automation.active
=============================================================================
