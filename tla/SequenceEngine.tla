--------------------------- MODULE SequenceEngine ---------------------------
(***************************************************************************)
(* The sequence engine: one prospect, the times it is enrolled in one      *)
(* sequence of messages, the cron calls that run the due enrolments, the   *)
(* people who validate messages, and the prospect's opt-out.               *)
(*                                                                         *)
(* Every read or write of a row of an enrolment, a message or the          *)
(* exclusion list is one step, so calls of processDueSequences may overlap, *)
(* a validator may act between two writes of a call, and an opt-out may    *)
(* land anywhere. A call that dies leaves what it wrote.                   *)
(*                                                                         *)
(* Abstracted: the text of a message and the channel it takes (a message   *)
(* marked as sent by hand counts as one that left), the dates, of which    *)
(* only "reached or not" is kept, the prospect's stage and the audit log.  *)
(* The sequence has steps and is not edited; the prospect has an address,  *)
(* except for the calls that find none.                                    *)
(***************************************************************************)
EXTENDS Naturals, Sequences, FiniteSets

CONSTANTS
  Enrollments,   \* the rows an enrolment of the prospect may create
  NumSteps,      \* the length of the sequence
  Validated,     \* the steps whose message a person validates first
  Crons,         \* the calls of processDueSequences that may overlap
  Validators,    \* the people who validate messages
  MaxMessages,   \* bound: messages created
  MaxCrashes     \* bound: calls that die

ASSUME SequenceAssumption ==
  /\ NumSteps \in Nat \ {0}
  /\ Validated \subseteq 1..NumSteps
  /\ Crons \cap Validators = {}
  /\ IsFiniteSet(Crons) /\ IsFiniteSet(Validators)
  /\ MaxMessages \in Nat /\ MaxCrashes \in Nat

Callers == Crons \cup Validators

VARIABLES
  enrollment,   \* row -> status, steps done (currentStepOrder), nextRunAt
  messages,     \* the messages created, in order: enrolment, step, status
  optOut,       \* how far the prospect's opt-out has gone
  enrolling,    \* the rows whose enrolment has passed its checks
  call,         \* caller -> what it is doing
  crashes,      \* calls that died
  mailed,       \* ghost: row -> mails that left for it
  after         \* ghost: caller -> mails it sent once the opt-out was recorded

vars == <<enrollment, messages, optOut, enrolling, call, crashes, mailed, after>>

Idle == [at |-> "idle", due |-> {}, of |-> "none", step |-> 0, msg |-> 0]

Unborn == [status |-> "NONE", done |-> 0, next |-> "null"]

Init ==
  /\ enrollment = [e \in Enrollments |-> Unborn]
  /\ messages = <<>>
  /\ optOut = "no"
  /\ enrolling = {}
  /\ call = [c \in Callers |-> Idle]
  /\ crashes = 0
  /\ mailed = [e \in Enrollments |-> 0]
  /\ after = [c \in Callers |-> 0]

-----------------------------------------------------------------------------
(* What the calls read and write.                                          *)

\* The prospect is marked, or its address is on the exclusion list.
isSuppressed == optOut # "no"

\* Every active enrolment of the prospect is stopped.
stopEnrollmentsForLead ==
  enrollment' = [e \in Enrollments |->
                   IF enrollment[e].status = "ACTIVE"
                   THEN [enrollment[e] EXCEPT !.status = "STOPPED"]
                   ELSE enrollment[e]]

\* Where a call goes when it is done with an enrolment: a cron call takes the
\* next one of its list, a validator's request ends.
Over(c) ==
  IF c \in Crons
  THEN [call EXCEPT ![c].at = "loop", ![c].due = @ \ {call[c].of}]
  ELSE [call EXCEPT ![c] = Idle]

Marked(m, s) == [messages EXCEPT ![m].status = s]

-----------------------------------------------------------------------------
(* Enrolling and stopping.                                                 *)

EnrollCheck(e) ==
  /\ enrollment[e].status = "NONE" /\ e \notin enrolling
  /\ ~isSuppressed
  /\ \A f \in Enrollments : enrollment[f].status # "ACTIVE"
  /\ enrolling' = enrolling \cup {e}
  /\ UNCHANGED <<enrollment, messages, optOut, call, crashes, mailed, after>>

EnrollCreate(e) ==
  /\ e \in enrolling
  /\ enrolling' = enrolling \ {e}
  /\ enrollment' = [enrollment EXCEPT
                      ![e] = [status |-> "ACTIVE", done |-> 0, next |-> "later"]]
  /\ UNCHANGED <<messages, optOut, call, crashes, mailed, after>>

\* A reply, a booked appointment or a person stops the sequence.
Stop ==
  /\ \E e \in Enrollments : enrollment[e].status = "ACTIVE"
  /\ stopEnrollmentsForLead
  /\ UNCHANGED <<messages, optOut, enrolling, call, crashes, mailed, after>>

\* The three writes of an opt-out: exclusion list, prospect, enrolments.
OptOutListed ==
  /\ optOut = "no"
  /\ optOut' = "listed"
  /\ UNCHANGED <<enrollment, messages, enrolling, call, crashes, mailed, after>>

OptOutMarked ==
  /\ optOut = "listed"
  /\ optOut' = "marked"
  /\ UNCHANGED <<enrollment, messages, enrolling, call, crashes, mailed, after>>

OptOutStops ==
  /\ optOut = "marked"
  /\ optOut' = "done"
  /\ stopEnrollmentsForLead
  /\ UNCHANGED <<messages, enrolling, call, crashes, mailed, after>>

\* The date of the next step is reached.
DateReached(e) ==
  /\ enrollment[e].next = "later"
  /\ enrollment' = [enrollment EXCEPT ![e].next = "due"]
  /\ UNCHANGED <<messages, optOut, enrolling, call, crashes, mailed, after>>

-----------------------------------------------------------------------------
(* A call of processDueSequences.                                          *)

CronReads(c) ==
  /\ call[c].at = "idle"
  /\ LET due == {e \in Enrollments : enrollment[e].status = "ACTIVE"
                                     /\ enrollment[e].next = "due"}
     IN  /\ due # {}
         /\ call' = [call EXCEPT ![c] = [Idle EXCEPT !.at = "loop", !.due = due]]
  /\ UNCHANGED <<enrollment, messages, optOut, enrolling, crashes, mailed, after>>

CronEnds(c) ==
  /\ call[c].at = "loop" /\ call[c].due = {}
  /\ call' = [call EXCEPT ![c] = Idle]
  /\ UNCHANGED <<enrollment, messages, optOut, enrolling, crashes, mailed, after>>

\* runDueEnrollment reads the row.
RunDue(c, e) ==
  /\ call[c].at = "loop" /\ e \in call[c].due
  /\ call' = IF enrollment[e].status = "ACTIVE"
             THEN [call EXCEPT ![c].at = "check", ![c].of = e,
                               ![c].step = enrollment[e].done + 1]
             ELSE [call EXCEPT ![c].due = @ \ {e}]
  /\ UNCHANGED <<enrollment, messages, optOut, enrolling, crashes, mailed, after>>

\* A slip: the opt-out is seen, and the enrolment left as it is.
Mut_LeavesSuppressed(c) == Over(c)

\* runDueEnrollment finds the prospect suppressed.
SuppressedFound(c) == [call EXCEPT ![c].at = "stop"]

\* It asks the exclusion list, which is written before the mark it has read
\* with the row, and looks at the hours of the step.
CheckDue(c) ==
  /\ call[c].at = "check"
  /\ \/ isSuppressed /\ call' = SuppressedFound(c)
     \/ ~isSuppressed /\ \E next \in {"generate", "postpone"} : call' = [call EXCEPT ![c].at = next]
  /\ UNCHANGED <<enrollment, messages, optOut, enrolling, crashes, mailed, after>>

\* Outside the allowed hours: an hour later.
Postpone(c) ==
  /\ call[c].at = "postpone"
  /\ enrollment' = [enrollment EXCEPT ![call[c].of].next = "later"]
  /\ call' = Over(c)
  /\ UNCHANGED <<messages, optOut, enrolling, crashes, mailed, after>>

\* The enrolments of the prospect are stopped, here or in sendMessageNow.
StopLead(c) ==
  /\ call[c].at = "stop"
  /\ stopEnrollmentsForLead
  /\ call' = Over(c)
  /\ UNCHANGED <<messages, optOut, enrolling, crashes, mailed, after>>

\* The message is generated and stored; the loop catches what throws.
Generate(c) ==
  /\ call[c].at = "generate"
  /\ \/ /\ Len(messages) < MaxMessages
        /\ LET human == call[c].step \in Validated
           IN  /\ messages' = Append(messages,
                    [of |-> call[c].of, step |-> call[c].step,
                     status |-> IF human THEN "PENDING_VALIDATION" ELSE "APPROVED"])
               /\ call' = [call EXCEPT ![c].at = IF human THEN "hold" ELSE "send",
                                       ![c].msg = Len(messages) + 1]
     \/ call' = Over(c) /\ UNCHANGED messages
  /\ UNCHANGED <<enrollment, optOut, enrolling, crashes, mailed, after>>

\* A message that waits for a person takes the enrolment off the list.
Hold(c) ==
  /\ call[c].at = "hold"
  /\ enrollment' = [enrollment EXCEPT ![call[c].of].next = "null"]
  /\ call' = Over(c)
  /\ UNCHANGED <<messages, optOut, enrolling, crashes, mailed, after>>

-----------------------------------------------------------------------------
(* A validator's request.                                                  *)

Picks(v, m) ==
  /\ call[v].at = "idle"
  /\ messages[m].status = "PENDING_VALIDATION"
  /\ call' = [call EXCEPT ![v] = [Idle EXCEPT !.at = "decide", !.of = messages[m].of,
                                              !.step = messages[m].step, !.msg = m]]
  /\ UNCHANGED <<enrollment, messages, optOut, enrolling, crashes, mailed, after>>

Decides(v) ==
  /\ call[v].at = "decide"
  /\ \/ /\ messages' = Marked(call[v].msg, "APPROVED")
        /\ call' = [call EXCEPT ![v].at = "send"]
     \/ /\ messages' = Marked(call[v].msg, "REJECTED")
        /\ call' = Over(v)
  /\ UNCHANGED <<enrollment, optOut, enrolling, crashes, mailed, after>>

-----------------------------------------------------------------------------
(* sendMessageNow and advanceEnrollment, for either kind of caller.        *)

\* A slip: sending trusts the check made before the message was written.
Mut_TrustsEarlierCheck == FALSE

\* sendMessageNow asks again whether the prospect may be written to.
StopsSending == isSuppressed

\* A slip: the missing return after a message that could not be sent.
Mut_GoesOn(c) == [call EXCEPT ![c].at = "advance"]

\* A message that cannot be sent leaves the enrolment where it is.
NotSent(c) == Over(c)

\* Without an address, or with the day's quota used up, the message fails.
SendLoads(c) ==
  /\ call[c].at = "send"
  /\ \E next \in IF StopsSending THEN {"refuse"} ELSE {"fail", "sending"} :
       call' = [call EXCEPT ![c].at = next]
  /\ UNCHANGED <<enrollment, messages, optOut, enrolling, crashes, mailed, after>>

WriteFailed(c) ==
  /\ call[c].at \in {"refuse", "fail"}
  /\ messages' = Marked(call[c].msg, "FAILED")
  /\ call' = IF call[c].at = "refuse" THEN [call EXCEPT ![c].at = "stop"] ELSE NotSent(c)
  /\ UNCHANGED <<enrollment, optOut, enrolling, crashes, mailed, after>>

\* The provider takes the mail or refuses it.
Send(c) ==
  /\ call[c].at = "sending"
  /\ \/ /\ mailed' = [mailed EXCEPT ![call[c].of] = @ + 1]
        /\ after' = [after EXCEPT ![c] = IF optOut = "no" THEN @ ELSE @ + 1]
        /\ call' = [call EXCEPT ![c].at = "sent"]
     \/ /\ call' = [call EXCEPT ![c].at = "bounced"]
        /\ UNCHANGED <<mailed, after>>
  /\ UNCHANGED <<enrollment, messages, optOut, enrolling, crashes>>

WriteBounced(c) ==
  /\ call[c].at = "bounced"
  /\ messages' = Marked(call[c].msg, "FAILED")
  /\ call' = [call EXCEPT ![c].at = "stop"]
  /\ UNCHANGED <<enrollment, optOut, enrolling, crashes, mailed, after>>

WriteSent(c) ==
  /\ call[c].at = "sent"
  /\ messages' = Marked(call[c].msg, "SENT")
  /\ call' = [call EXCEPT ![c].at = "advance"]
  /\ UNCHANGED <<enrollment, optOut, enrolling, crashes, mailed, after>>

\* advanceEnrollment reads the row ...
AdvanceReads(c) ==
  /\ call[c].at = "advance"
  /\ call' = IF enrollment[call[c].of].status = "ACTIVE"
             THEN [call EXCEPT ![c].at = "write",
                               ![c].step = enrollment[call[c].of].done + 1]
             ELSE Over(c)
  /\ UNCHANGED <<enrollment, messages, optOut, enrolling, crashes, mailed, after>>

\* ... and what it writes, whatever the row has become.
Advanced(c) ==
  [enrollment[call[c].of] EXCEPT
     !.done = call[c].step,
     !.status = IF call[c].step = NumSteps THEN "COMPLETED" ELSE @,
     !.next = IF call[c].step = NumSteps THEN "null" ELSE "later"]

AdvanceWrites(c) ==
  /\ call[c].at = "write"
  /\ enrollment' = [enrollment EXCEPT ![call[c].of] = Advanced(c)]
  /\ call' = Over(c)
  /\ UNCHANGED <<messages, optOut, enrolling, crashes, mailed, after>>

\* The process of a call dies.
Crash(c) ==
  /\ call[c].at # "idle"
  /\ crashes < MaxCrashes
  /\ crashes' = crashes + 1
  /\ call' = [call EXCEPT ![c] = Idle]
  /\ UNCHANGED <<enrollment, messages, optOut, enrolling, mailed, after>>

-----------------------------------------------------------------------------
CronStep(c) ==
  \/ CronReads(c) \/ CronEnds(c) \/ CheckDue(c) \/ Postpone(c) \/ Generate(c) \/ Hold(c)
  \/ \E e \in Enrollments : RunDue(c, e)

SendStep(c) ==
  \/ SendLoads(c) \/ WriteFailed(c) \/ Send(c) \/ WriteBounced(c) \/ StopLead(c)
  \/ WriteSent(c) \/ AdvanceReads(c) \/ AdvanceWrites(c)

Next ==
  \/ \E e \in Enrollments : EnrollCheck(e) \/ EnrollCreate(e) \/ DateReached(e)
  \/ Stop \/ OptOutListed \/ OptOutMarked \/ OptOutStops
  \/ \E c \in Crons : CronStep(c)
  \/ \E v \in Validators : Decides(v) \/ \E m \in DOMAIN messages : Picks(v, m)
  \/ \E c \in Callers : SendStep(c) \/ Crash(c)

Spec == Init /\ [][Next]_vars

\* The cron route is called for ever and its calls go on unless they die;
\* dates are reached.
FairSpec ==
  /\ Spec
  /\ \A c \in Crons : WF_vars(CronStep(c) \/ SendStep(c))
  /\ \A e \in Enrollments : WF_vars(DateReached(e))

-----------------------------------------------------------------------------
(* Properties.                                                             *)

Message == [of : Enrollments, step : 1..NumSteps,
            status : {"PENDING_VALIDATION", "APPROVED", "REJECTED", "SENT", "FAILED"}]

CallAt == {"idle", "loop", "check", "postpone", "generate", "hold", "decide", "send",
           "refuse", "fail", "sending", "sent", "bounced", "stop", "advance", "write"}

\* Types.
TypeOK ==
  /\ enrollment \in [Enrollments -> [status : {"NONE", "ACTIVE", "STOPPED", "COMPLETED"},
                                     done : 0..NumSteps, next : {"null", "later", "due"}]]
  /\ messages \in Seq(Message)
  /\ optOut \in {"no", "listed", "marked", "done"}
  /\ enrolling \subseteq Enrollments
  /\ call \in [Callers -> [at : CallAt, due : SUBSET Enrollments,
                           of : Enrollments \cup {"none"}, step : 0..NumSteps, msg : Nat]]
  /\ crashes \in 0..MaxCrashes
  /\ mailed \in [Enrollments -> Nat]
  /\ after \in [Callers -> Nat]

\* An enrolment never gets ahead of its mails: it has moved on by at most as
\* many steps as mails left for it, although advanceEnrollment reads and writes
\* the row in two calls that overlap with those of other senders of the same
\* step, of a validator and of calls that died half-way.
AdvanceIsBacked ==
  \A e \in Enrollments : enrollment[e].done <= mailed[e]

\* Once the opt-out is recorded, a caller sends at most the one mail it was
\* already handing to the provider, however many messages are generated,
\* approved or on its list: runDueEnrollment and sendMessageNow ask again.
OneMailAfterOptOut ==
  \A c \in Callers : after[c] <= 1

\* After an opt-out no enrolment stays active, not even one created by a
\* request that had passed its checks before: the next cron call stops it.
OptOutSettles ==
  \A e \in Enrollments : (optOut = "done") ~> (enrollment[e].status # "ACTIVE")
=============================================================================
