------------------------ MODULE SequenceEngineProofs ------------------------
(***************************************************************************)
(* AdvanceIsBacked and OneMailAfterOptOut for every sequence and every set *)
(* of enrolments, cron calls and validators.                               *)
(*                                                                         *)
(* AdvanceIsBacked is not inductive: an enrolment moves on long after its  *)
(* mail left, and other callers are on their way to do the same. Backed    *)
(* counts those callers: the steps done and the callers in flight do not   *)
(* outnumber the mails. A caller about to write brings a step it read      *)
(* earlier, so the same bound is kept for what it is going to write.       *)
(***************************************************************************)
EXTENDS SequenceEngine, FiniteSetTheorems, SequenceTheorems, TLAPS

RowType == [status : {"NONE", "ACTIVE", "STOPPED", "COMPLETED"},
            done : 0..NumSteps, next : {"null", "later", "due"}]

CallType == [at : CallAt, due : SUBSET Enrollments,
             of : Enrollments \cup {"none"}, step : 0..NumSteps, msg : Nat]

Busy == CallAt \ {"idle", "loop"}

Mailing == {"hold", "decide", "send", "refuse", "fail", "sending", "sent", "bounced", "advance", "write"}

\* Types, and what a caller at work has in hand.
RowsOK ==
  /\ enrollment \in [Enrollments -> RowType]
  /\ \A e \in Enrollments : enrollment[e].status = "ACTIVE" => enrollment[e].done < NumSteps

MessagesOK ==
  /\ messages \in Seq(Message)
  /\ \A c \in Callers : call[c].at \in Mailing => call[c].msg \in 1..Len(messages)

CallsOK ==
  /\ call \in [Callers -> CallType]
  /\ \A c \in Callers : call[c].at \in Busy => call[c].of \in Enrollments /\ call[c].step >= 1

RestOK ==
  /\ optOut \in {"no", "listed", "marked", "done"}
  /\ enrolling \subseteq Enrollments
  /\ crashes \in 0..MaxCrashes
  /\ mailed \in [Enrollments -> Nat]
  /\ after \in [Callers -> Nat]

Types == RowsOK /\ CallsOK /\ RestOK /\ MessagesOK

\* The callers whose mail has left and whose step is not written yet.
Flying(c, e) == call[c].of = e /\ call[c].at \in {"sent", "advance", "write"}

InFlight(e) == {c \in Callers : Flying(c, e)}

Backed ==
  \A e \in Enrollments :
    /\ enrollment[e].done + Cardinality(InFlight(e)) <= mailed[e]
    /\ \A c \in InFlight(e) : call[c].at = "write" =>
         call[c].step + Cardinality(InFlight(e)) <= mailed[e] + 1

\* A caller that is handing a mail over asked before the opt-out.
Asked ==
  \A c \in Callers : /\ after[c] <= 1
                     /\ after[c] > 0 => optOut # "no"
                     /\ call[c].at = "sending" => after[c] = 0

Inv == Types /\ Backed /\ Asked

-----------------------------------------------------------------------------
(* The parts of a step.                                                    *)

LEMMA CallersAreFinite == IsFiniteSet(Callers)
  BY SequenceAssumption, FS_Union DEF Callers

LEMMA InFlightIsFinite ==
  ASSUME NEW e
  PROVE  IsFiniteSet(InFlight(e)) /\ Cardinality(InFlight(e)) \in Nat
  BY CallersAreFinite, FS_Subset, FS_CardinalityType DEF InFlight

\* Stopping enrolments changes no count.
LEMMA Stops ==
  ASSUME RowsOK, stopEnrollmentsForLead
  PROVE  RowsOK' /\ \A e \in Enrollments : enrollment'[e].done = enrollment[e].done
<1>1. ASSUME NEW r \in RowType
      PROVE  /\ [r EXCEPT !.status = "STOPPED"] \in RowType
             /\ [r EXCEPT !.status = "STOPPED"].done = r.done
             /\ [r EXCEPT !.status = "STOPPED"].status = "STOPPED"
  BY DEF RowType
<1>2. \A e \in Enrollments : \/ enrollment'[e] = enrollment[e]
                             \/ enrollment'[e] = [enrollment[e] EXCEPT !.status = "STOPPED"]
  BY DEF stopEnrollmentsForLead
<1>3. enrollment' = [e \in Enrollments |-> enrollment'[e]]
  BY DEF stopEnrollmentsForLead
<1>4. enrollment' \in [Enrollments -> RowType]
  BY <1>1, <1>2, <1>3 DEF RowsOK
<1> QED
  BY <1>1, <1>2, <1>4 DEF RowsOK

\* A caller that goes on to what q says, with a message that exists.
LEMMA Goes ==
  ASSUME CallsOK, MessagesOK, NEW c \in Callers, NEW q \in CallType,
         q.at \in Busy => q.of \in Enrollments /\ q.step >= 1,
         messages' \in Seq(Message), Len(messages') >= Len(messages),
         q.at \in Mailing => q.msg \in 1..Len(messages'),
         call' = [call EXCEPT ![c] = q]
  PROVE  CallsOK' /\ MessagesOK'
<1>1. call' \in [Callers -> CallType] /\ \A d \in Callers : call'[d] = IF d = c THEN q ELSE call[d]
  BY DEF CallsOK
<1>2. CallsOK'
  BY <1>1 DEF CallsOK
<1>3. Len(messages) \in Nat /\ Len(messages') \in Nat
  BY DEF MessagesOK
<1> QED
  BY <1>1, <1>2, <1>3 DEF MessagesOK, CallsOK, CallType

\* A message that is marked.
LEMMA Marks ==
  ASSUME MessagesOK, NEW c \in Callers, call[c].at \in Mailing,
         NEW st \in {"PENDING_VALIDATION", "APPROVED", "REJECTED", "SENT", "FAILED"},
         messages' = Marked(call[c].msg, st)
  PROVE  messages' \in Seq(Message) /\ Len(messages') = Len(messages)
<1> DEFINE m == call[c].msg
<1>1. m \in 1..Len(messages) /\ messages \in Seq(Message)
  BY DEF MessagesOK
<1>2. messages[m] \in Message
  BY <1>1
<1>3. [messages[m] EXCEPT !.status = st] \in Message
  BY <1>2 DEF Message
<1>4. messages' = [messages EXCEPT ![m] = [messages[m] EXCEPT !.status = st]]
  BY DEF Marked
<1> HIDE DEF m
<1> QED
  BY <1>1, <1>3, <1>4, ExceptSeq

LEMMA IdleType ==
  /\ Idle \in CallType /\ Idle.at = "idle" /\ {"idle", "loop"} \cap Busy = {}
  /\ Mailing \subseteq Busy /\ Busy \subseteq CallAt
  BY SequenceAssumption DEF Idle, CallType, CallAt, Busy, Mailing

\* Where Over sends a caller.
LEMMA Overs ==
  ASSUME CallsOK, NEW c \in Callers
  PROVE  \E q \in CallType : q.at \in {"idle", "loop"} /\ Over(c) = [call EXCEPT ![c] = q]
<1>1. call[c] \in CallType
  BY DEF CallsOK
<1>3. CASE c \in Crons
  <2> DEFINE q == [call[c] EXCEPT !.at = "loop", !.due = @ \ {call[c].of}]
  <2>1. q \in CallType /\ q.at = "loop"
    BY <1>1 DEF CallType, CallAt
  <2>2. Over(c) = [call EXCEPT ![c] = q]
    BY <1>3 DEF Over, CallsOK
  <2> HIDE DEF q
  <2> QED
    BY <2>1, <2>2
<1>4. CASE c \notin Crons
  <2>1. Over(c) = [call EXCEPT ![c] = Idle]
    BY <1>4 DEF Over
  <2> QED
    BY <2>1, IdleType
<1> QED
  BY <1>3, <1>4

\* No count changes when no mail leaves, no row moves on and no caller takes
\* off.
LEMMA CountsStay ==
  ASSUME Types, Types', Backed, UNCHANGED mailed,
         \A e \in Enrollments : enrollment'[e].done = enrollment[e].done
                                \/ enrollment'[e].done = 0,
         \A c \in Callers :
           \/ call'[c].at \notin {"sent", "advance", "write"}
           \/ /\ call[c].at \in {"sent", "advance", "write"}
              /\ call'[c].of = call[c].of
              /\ call'[c].at = "write" => call[c].at = "write" /\ call'[c].step = call[c].step
  PROVE  Backed'
<1> SUFFICES ASSUME NEW e \in Enrollments
             PROVE  /\ enrollment'[e].done + Cardinality(InFlight(e)') <= mailed'[e]
                    /\ \A c \in InFlight(e)' : call'[c].at = "write" =>
                         call'[c].step + Cardinality(InFlight(e)') <= mailed'[e] + 1
  BY DEF Backed
<1> DEFINE old == Cardinality(InFlight(e))
           new == Cardinality(InFlight(e)')
<1>1. InFlight(e)' \subseteq InFlight(e)
  BY DEF InFlight, Flying
<1>2. old \in Nat /\ new \in Nat /\ new <= old
  BY <1>1, InFlightIsFinite, FS_Subset, FS_CardinalityType
<1>3. /\ enrollment[e].done \in Nat /\ enrollment'[e].done \in Nat /\ mailed[e] \in Nat
      /\ \A c \in Callers : call[c].step \in Nat
  BY SequenceAssumption DEF Types, RowsOK, RestOK, CallsOK, RowType, CallType
<1>4. /\ enrollment[e].done + old <= mailed[e]
      /\ \A c \in InFlight(e) : call[c].at = "write" => call[c].step + old <= mailed[e] + 1
  BY DEF Backed
<1>5. \A c \in InFlight(e)' : c \in Callers /\ (call'[c].at = "write" =>
         call[c].at = "write" /\ call'[c].step = call[c].step)
  BY DEF InFlight, Flying
<1> HIDE DEF old, new
<1>6. enrollment'[e].done + new <= mailed'[e]
  BY <1>2, <1>3, <1>4
<1>7. ASSUME NEW c \in InFlight(e)', call'[c].at = "write"
      PROVE  call'[c].step + new <= mailed'[e] + 1
  BY <1>1, <1>2, <1>3, <1>4, <1>5, <1>7
<1> QED
  BY <1>6, <1>7 DEF new

\* Nobody sends and nobody starts to.
LEMMA AskedStays ==
  ASSUME Asked, UNCHANGED after, optOut = "no" \/ optOut' # "no",
         \A c \in Callers : call'[c].at = "sending" => call[c].at = "sending"
  PROVE  Asked'
  BY DEF Asked

\* A step of a caller that has no mail in the air and gets none there.
LEMMA Quiet ==
  ASSUME Inv, NEW c \in Callers, NEW q \in CallType,
         call' = [call EXCEPT ![c] = q],
         q.at \notin {"sending", "sent", "advance", "write"},
         q.at \in Busy => q.of \in Enrollments /\ q.step >= 1,
         messages' \in Seq(Message), Len(messages') >= Len(messages),
         q.at \in Mailing => q.msg \in 1..Len(messages'),
         RowsOK', \A e \in Enrollments : enrollment'[e].done = enrollment[e].done,
         crashes' \in 0..MaxCrashes,
         UNCHANGED <<optOut, enrolling, mailed, after>>
  PROVE  Inv'
<1>1. CallsOK' /\ MessagesOK'
  BY Goes DEF Inv, Types
<1>2. RestOK'
  BY DEF Inv, Types, RestOK
<1>3. \A d \in Callers : call'[d] = IF d = c THEN q ELSE call[d]
  BY DEF Inv, Types, CallsOK
<1>4. Types'
  BY <1>1, <1>2 DEF Types
<1>5. Backed'
  <2>1. \A d \in Callers : \/ call'[d].at \notin {"sent", "advance", "write"}
                           \/ call'[d] = call[d]
    BY <1>3
  <2> QED
    BY <1>4, <2>1, CountsStay DEF Inv
<1>6. Asked'
  BY <1>3, AskedStays DEF Inv
<1> QED
  BY <1>4, <1>5, <1>6 DEF Inv

\* A caller that goes on with what it has in hand.
LEMMA Takes ==
  ASSUME CallsOK, MessagesOK, NEW c \in Callers, NEW at \in CallAt,
         call[c].at \in Mailing,
         call' = [call EXCEPT ![c].at = at],
         messages' \in Seq(Message), Len(messages') = Len(messages)
  PROVE  CallsOK' /\ MessagesOK'
<1> DEFINE q == [call[c] EXCEPT !.at = at]
<1>1. call[c] \in CallType /\ call[c].of \in Enrollments /\ call[c].step >= 1
      /\ call[c].msg \in 1..Len(messages) /\ Len(messages) \in Nat
  BY IdleType DEF CallsOK, MessagesOK
<1>2. q \in CallType /\ q.of = call[c].of /\ q.step = call[c].step /\ q.msg = call[c].msg
  BY <1>1 DEF CallType
<1>3. call' = [call EXCEPT ![c] = q]
  BY DEF CallsOK
<1> HIDE DEF q
<1>4. q.of \in Enrollments /\ q.step >= 1 /\ q.msg \in 1..Len(messages')
      /\ Len(messages') >= Len(messages)
  BY <1>1, <1>2
<1> QED
  BY <1>2, <1>3, <1>4, Goes

\* Such a step that writes nothing else.
Moves(c, at) ==
  /\ call[c].at \in Mailing
  /\ call' = [call EXCEPT ![c].at = at]
  /\ UNCHANGED <<enrollment, messages, optOut, enrolling, crashes, mailed, after>>

LEMMA MovesTypes ==
  ASSUME Inv, NEW c \in Callers, NEW at \in CallAt, Moves(c, at)
  PROVE  Types'
<1>1. messages' \in Seq(Message) /\ Len(messages') = Len(messages)
  BY DEF Moves, Inv, Types, MessagesOK
<1>2. CallsOK' /\ MessagesOK'
  BY <1>1, Takes DEF Moves, Inv, Types
<1> QED
  BY <1>2 DEF Moves, Inv, Types, RowsOK, RestOK

LEMMA SameRows ==
  ASSUME RowsOK, UNCHANGED enrollment
  PROVE  RowsOK' /\ \A e \in Enrollments : enrollment'[e].done = enrollment[e].done
  BY DEF RowsOK

LEMMA SameMessages ==
  ASSUME MessagesOK, UNCHANGED messages
  PROVE  messages' \in Seq(Message) /\ Len(messages') >= Len(messages)
  BY DEF MessagesOK

\* A row that gets another date, or none.
LEMMA Dated ==
  ASSUME RowsOK, NEW e \in Enrollments, NEW n \in {"null", "later", "due"},
         enrollment' = [enrollment EXCEPT ![e].next = n]
  PROVE  RowsOK' /\ \A f \in Enrollments : enrollment'[f].done = enrollment[f].done
<1> DEFINE r == [enrollment[e] EXCEPT !.next = n]
<1>1. r \in RowType /\ r.done = enrollment[e].done /\ r.status = enrollment[e].status
  BY DEF RowsOK, RowType
<1>2. enrollment' = [enrollment EXCEPT ![e] = r]
  BY DEF RowsOK
<1> HIDE DEF r
<1>3. /\ enrollment' \in [Enrollments -> RowType]
      /\ \A f \in Enrollments : enrollment'[f] = IF f = e THEN r ELSE enrollment[f]
  BY <1>1, <1>2 DEF RowsOK
<1> QED
  BY <1>1, <1>3 DEF RowsOK

\* A caller that is over.
LEMMA QuietOver ==
  ASSUME Inv, NEW c \in Callers, call' = Over(c),
         messages' \in Seq(Message), Len(messages') >= Len(messages),
         RowsOK', \A e \in Enrollments : enrollment'[e].done = enrollment[e].done,
         UNCHANGED <<crashes, optOut, enrolling, mailed, after>>
  PROVE  Inv'
<1>1. PICK q \in CallType : q.at \in {"idle", "loop"} /\ call' = [call EXCEPT ![c] = q]
  BY Overs DEF Inv, Types
<1>2. q.at \notin Busy /\ q.at \notin Mailing /\ crashes' \in 0..MaxCrashes
      /\ q.at \notin {"sending", "sent", "advance", "write"}
  BY <1>1, IdleType DEF Inv, Types, RestOK
<1> QED
  BY <1>1, <1>2, Quiet

\* A caller that goes on to another place before or after the mail.
LEMMA QuietMove ==
  ASSUME Inv, NEW c \in Callers, call[c].at \in Busy,
         NEW at \in {"postpone", "generate", "refuse", "fail", "stop"},
         call' = [call EXCEPT ![c].at = at],
         at \in Mailing => call[c].at \in Mailing,
         messages' \in Seq(Message), Len(messages') >= Len(messages),
         UNCHANGED <<enrollment, optOut, enrolling, crashes, mailed, after>>
  PROVE  Inv'
<1> DEFINE q == [call[c] EXCEPT !.at = at]
<1>1. RowsOK /\ CallsOK /\ MessagesOK /\ call[c] \in CallType /\ crashes \in 0..MaxCrashes
  BY DEF Inv, Types, CallsOK, RestOK
<1>2. at \in CallAt /\ at \notin {"sending", "sent", "advance", "write"}
  BY DEF CallAt
<1>3. /\ q \in CallType /\ q.at = at /\ q.of = call[c].of /\ q.step = call[c].step
      /\ q.msg = call[c].msg
  BY <1>1, <1>2 DEF CallType
<1>4. call' = [call EXCEPT ![c] = q]
  BY <1>1 DEF CallsOK
<1>5. call[c].of \in Enrollments /\ call[c].step >= 1
  BY <1>1 DEF CallsOK
<1>6. at \in Mailing => call[c].msg \in 1..Len(messages')
  BY <1>1 DEF MessagesOK
<1> HIDE DEF q
<1>7. /\ q.of \in Enrollments /\ q.step >= 1 /\ q.at \notin {"sending", "sent", "advance", "write"}
      /\ q.at \in Mailing => q.msg \in 1..Len(messages')
  BY <1>2, <1>3, <1>5, <1>6
<1>8. RowsOK' /\ \A e \in Enrollments : enrollment'[e].done = enrollment[e].done
  BY <1>1, SameRows
<1> QED
  BY <1>1, <1>3, <1>4, <1>7, <1>8, Quiet

-----------------------------------------------------------------------------
(* The steps.                                                              *)

\* Enrolling, stopping, opting out and the dates.
LEMMA EnrollmentSteps ==
  ASSUME Inv,
         \/ \E e \in Enrollments : EnrollCheck(e) \/ EnrollCreate(e) \/ DateReached(e)
         \/ Stop \/ OptOutListed \/ OptOutMarked \/ OptOutStops
  PROVE  Inv'
<1>1. UNCHANGED <<messages, call, crashes, mailed, after>>
  BY DEF EnrollCheck, EnrollCreate, DateReached, Stop, OptOutListed, OptOutMarked, OptOutStops
<1>2. /\ optOut' \in {"no", "listed", "marked", "done"}
      /\ optOut = "no" \/ optOut' # "no"
      /\ enrolling' \subseteq Enrollments
  BY DEF Inv, Types, RestOK, EnrollCheck, EnrollCreate, DateReached, Stop, OptOutListed,
         OptOutMarked, OptOutStops
<1>3. RowsOK' /\ \A e \in Enrollments : enrollment'[e].done = enrollment[e].done
                                         \/ enrollment'[e].done = 0
  <2>1. CASE UNCHANGED enrollment
    BY <2>1, SameRows DEF Inv, Types
  <2>2. CASE stopEnrollmentsForLead
    BY <2>2, Stops DEF Inv, Types
  <2>3. ASSUME NEW e \in Enrollments, EnrollCreate(e)
        PROVE  RowsOK' /\ \A f \in Enrollments : enrollment'[f].done = enrollment[f].done
                                                 \/ enrollment'[f].done = 0
    <3> DEFINE r == [status |-> "ACTIVE", done |-> 0, next |-> "later"]
    <3>1. r \in RowType /\ r.done = 0 /\ 0 < NumSteps
      BY SequenceAssumption DEF RowType
    <3>2. enrollment' = [enrollment EXCEPT ![e] = r]
      BY <2>3 DEF EnrollCreate
    <3> HIDE DEF r
    <3> QED
      BY <3>1, <3>2 DEF Inv, Types, RowsOK
  <2>4. ASSUME NEW e \in Enrollments, DateReached(e)
        PROVE  RowsOK' /\ \A f \in Enrollments : enrollment'[f].done = enrollment[f].done
    BY <2>4, Dated DEF Inv, Types, DateReached
  <2> QED
    BY <2>1, <2>2, <2>3, <2>4 DEF EnrollCheck, Stop, OptOutListed, OptOutMarked, OptOutStops
<1>4. Types'
  BY <1>1, <1>2, <1>3 DEF Inv, Types, CallsOK, MessagesOK, RestOK
<1>5. Backed'
  BY <1>1, <1>3, <1>4, CountsStay DEF Inv
<1>6. Asked'
  BY <1>1, <1>2, AskedStays DEF Inv
<1> QED
  BY <1>4, <1>5, <1>6 DEF Inv

\* processDueSequences and runDueEnrollment, up to the message.
LEMMA CronSteps ==
  ASSUME Inv, NEW c \in Crons, CronStep(c)
  PROVE  Inv'
<1>1. c \in Callers /\ call[c] \in CallType /\ crashes \in 0..MaxCrashes
  BY DEF Callers, Inv, Types, CallsOK, RestOK
<1>2. RowsOK /\ MessagesOK /\ CallsOK
  BY DEF Inv, Types
<1>3. Idle \in CallType /\ Idle.at = "idle"
  BY IdleType
<1>4. /\ {"idle", "loop"} \cap Busy = {} /\ {"hold", "generate", "check", "postpone"} \subseteq Busy
      /\ {"idle", "loop", "check"} \cap Mailing = {}
  BY DEF Busy, CallAt, Mailing
<1>5. CASE CronReads(c)
  <2> DEFINE due == {e \in Enrollments : enrollment[e].status = "ACTIVE"
                                          /\ enrollment[e].next = "due"}
             q == [Idle EXCEPT !.at = "loop", !.due = due]
  <2>1. due \in SUBSET Enrollments
    OBVIOUS
  <2> HIDE DEF due
  <2>2. q \in CallType /\ q.at = "loop"
    BY <1>3, <2>1 DEF CallType, CallAt
  <2>3. /\ call' = [call EXCEPT ![c] = q]
        /\ UNCHANGED <<enrollment, messages, optOut, enrolling, crashes, mailed, after>>
    BY <1>5 DEF CronReads, due
  <2> HIDE DEF q
  <2> QED
    BY <1>1, <1>2, <1>4, <2>2, <2>3, SameRows, SameMessages, Quiet
<1>6. CASE CronEnds(c)
  <2>1. /\ call' = [call EXCEPT ![c] = Idle]
        /\ UNCHANGED <<enrollment, messages, optOut, enrolling, crashes, mailed, after>>
    BY <1>6 DEF CronEnds
  <2> QED
    BY <1>1, <1>2, <1>3, <1>4, <2>1, SameRows, SameMessages, Quiet
<1>7. CASE Generate(c)
  <2>1. UNCHANGED <<enrollment, optOut, enrolling, crashes, mailed, after>>
        /\ call[c].of \in Enrollments /\ call[c].step \in 1..NumSteps
    BY <1>1, <1>2, <1>4, <1>7, SequenceAssumption DEF Generate, CallsOK, CallType
  <2>2. CASE call' = Over(c) /\ UNCHANGED messages
    BY <1>1, <1>2, <2>1, <2>2, SameRows, SameMessages, QuietOver
  <2>3. CASE ~(call' = Over(c) /\ UNCHANGED messages)
    <3> DEFINE human == call[c].step \in Validated
               st == IF human THEN "PENDING_VALIDATION" ELSE "APPROVED"
               msg == [of |-> call[c].of, step |-> call[c].step, status |-> st]
               n == Len(messages) + 1
               at == IF human THEN "hold" ELSE "send"
               q == [call[c] EXCEPT !.at = at, !.msg = n]
    <3>1. msg \in Message
      BY <2>1 DEF Message
    <3>2. n \in Nat /\ at \in CallAt /\ at \in {"hold", "send"}
      BY <1>2 DEF CallAt, MessagesOK
    <3>3. messages' = Append(messages, msg) /\ call' = [call EXCEPT ![c] = q]
      BY <1>2, <1>7, <2>3 DEF Generate, CallsOK
    <3> HIDE DEF msg, n, at
    <3>4. q \in CallType /\ q.at = at /\ q.msg = n /\ q.of = call[c].of /\ q.step = call[c].step
      BY <1>1, <3>2 DEF CallType
    <3>5. messages' \in Seq(Message) /\ Len(messages') = n
      BY <1>2, <3>1, <3>3, AppendProperties DEF MessagesOK, n
    <3>6. n >= Len(messages) /\ n \in 1..n /\ n \in Nat
      BY <1>2, <3>5 DEF n, MessagesOK
    <3>7. call[c].step >= 1
      BY <2>1
    <3> HIDE DEF q
    <3> QED
      BY <1>1, <1>2, <2>1, <3>2, <3>3, <3>4, <3>5, <3>6, <3>7, SameRows, Quiet
  <2> QED
    BY <2>2, <2>3
<1>8. CASE Hold(c)
  <2>1. /\ enrollment' = [enrollment EXCEPT ![call[c].of].next = "null"]
        /\ call' = Over(c) /\ call[c].at = "hold"
        /\ UNCHANGED <<messages, optOut, enrolling, crashes, mailed, after>>
    BY <1>8 DEF Hold
  <2>2. call[c].of \in Enrollments
    BY <1>1, <1>2, <1>4, <2>1 DEF CallsOK
  <2>3. RowsOK' /\ \A f \in Enrollments : enrollment'[f].done = enrollment[f].done
    BY <1>2, <2>1, <2>2, Dated
  <2> QED
    BY <1>1, <1>2, <2>1, <2>3, SameMessages, QuietOver
<1>9. ASSUME NEW e \in Enrollments, RunDue(c, e)
      PROVE  Inv'
  <2>1. UNCHANGED <<enrollment, messages, optOut, enrolling, crashes, mailed, after>>
        /\ call[c].at = "loop"
    BY <1>9 DEF RunDue
  <2>2. RowsOK' /\ \A f \in Enrollments : enrollment'[f].done = enrollment[f].done
    BY <1>2, <2>1, SameRows
  <2>3. CASE call' = [call EXCEPT ![c].due = @ \ {e}]
    <3> DEFINE q == [call[c] EXCEPT !.due = @ \ {e}]
    <3>1. q \in CallType /\ q.at = "loop"
      BY <1>1, <2>1 DEF CallType
    <3>2. call' = [call EXCEPT ![c] = q]
      BY <1>2, <2>3 DEF CallsOK
    <3> HIDE DEF q
    <3> QED
      BY <1>1, <1>2, <1>4, <2>1, <2>2, <3>1, <3>2, SameMessages, Quiet
  <2>4. CASE /\ enrollment[e].status = "ACTIVE"
             /\ call' = [call EXCEPT ![c].at = "check", ![c].of = e,
                                     ![c].step = enrollment[e].done + 1]
    <3> DEFINE n == enrollment[e].done + 1
               q == [call[c] EXCEPT !.at = "check", !.of = e, !.step = n]
    <3>1. n \in 0..NumSteps /\ n >= 1
      BY <1>2, <2>4, SequenceAssumption DEF RowsOK, RowType
    <3>2. call' = [call EXCEPT ![c] = q]
      BY <1>2, <2>4 DEF CallsOK
    <3> HIDE DEF n
    <3>3. q \in CallType /\ q.at = "check" /\ q.of = e /\ q.step = n
      BY <1>1, <3>1 DEF CallType, CallAt
    <3> HIDE DEF q
    <3> QED
      BY <1>1, <1>2, <1>4, <2>1, <2>2, <3>1, <3>2, <3>3, SameMessages, Quiet
  <2> QED
    BY <1>9, <2>3, <2>4 DEF RunDue
<1>10. CASE CheckDue(c)
  <2>1. /\ call[c].at \in Busy
        /\ UNCHANGED <<enrollment, messages, optOut, enrolling, crashes, mailed, after>>
    BY <1>4, <1>10 DEF CheckDue
  <2>2. PICK at \in {"stop", "generate", "postpone"} : call' = [call EXCEPT ![c].at = at]
    BY <1>10 DEF CheckDue, SuppressedFound
  <2>3. at \notin Mailing /\ at \in {"postpone", "generate", "refuse", "fail", "stop"}
    BY DEF Mailing
  <2> QED
    BY <1>1, <1>2, <2>1, <2>2, <2>3, SameMessages, QuietMove
<1>11. CASE Postpone(c)
  <2>1. /\ enrollment' = [enrollment EXCEPT ![call[c].of].next = "later"]
        /\ call' = Over(c) /\ call[c].at = "postpone"
        /\ UNCHANGED <<messages, optOut, enrolling, crashes, mailed, after>>
    BY <1>11 DEF Postpone
  <2>2. call[c].of \in Enrollments
    BY <1>1, <1>2, <1>4, <2>1 DEF CallsOK
  <2>3. RowsOK' /\ \A f \in Enrollments : enrollment'[f].done = enrollment[f].done
    BY <1>2, <2>1, <2>2, Dated
  <2> QED
    BY <1>1, <1>2, <2>1, <2>3, SameMessages, QuietOver
<1> QED
  BY <1>5, <1>6, <1>7, <1>8, <1>9, <1>10, <1>11 DEF CronStep

\* The validator's request, and a call that dies.
LEMMA ValidatorSteps ==
  ASSUME Inv, NEW v \in Validators, Decides(v) \/ \E m \in DOMAIN messages : Picks(v, m)
  PROVE  Inv'
<1>1. v \in Callers /\ call[v] \in CallType /\ crashes \in 0..MaxCrashes
  BY DEF Callers, Inv, Types, CallsOK, RestOK
<1>2. RowsOK /\ MessagesOK /\ CallsOK
  BY DEF Inv, Types
<1>3. CASE Decides(v)
  <2>1. /\ UNCHANGED <<enrollment, optOut, enrolling, crashes, mailed, after>>
        /\ call[v].at = "decide" /\ call[v].at \in Mailing
    BY <1>3 DEF Decides, Mailing
  <2>2. \/ messages' = Marked(call[v].msg, "APPROVED")
        \/ messages' = Marked(call[v].msg, "REJECTED")
    BY <1>3 DEF Decides
  <2>3. messages' \in Seq(Message) /\ Len(messages') = Len(messages) /\ Len(messages) \in Nat
    BY <1>1, <1>2, <2>1, <2>2, Marks DEF MessagesOK
  <2>4. CASE call' = Over(v)
    BY <1>1, <1>2, <2>1, <2>3, <2>4, SameRows, QuietOver
  <2>5. CASE call' = [call EXCEPT ![v].at = "send"]
    <3> DEFINE q == [call[v] EXCEPT !.at = "send"]
    <3>1. /\ q \in CallType /\ q.at = "send" /\ q.of = call[v].of /\ q.step = call[v].step
          /\ q.msg = call[v].msg
      BY <1>1 DEF CallType, CallAt
    <3>2. call' = [call EXCEPT ![v] = q]
      BY <1>2, <2>5 DEF CallsOK
    <3>3. /\ call[v].of \in Enrollments /\ call[v].step >= 1
          /\ call[v].msg \in 1..Len(messages') /\ Len(messages') >= Len(messages)
      BY <1>1, <1>2, <2>1, <2>3, IdleType DEF CallsOK, MessagesOK
    <3> HIDE DEF q
    <3>4. /\ q.at \notin {"sending", "sent", "advance", "write"}
          /\ q.of \in Enrollments /\ q.step >= 1 /\ q.msg \in 1..Len(messages')
      BY <3>1, <3>3
    <3>5. RowsOK' /\ \A e \in Enrollments : enrollment'[e].done = enrollment[e].done
      BY <1>2, <2>1, SameRows
    <3> QED
      BY <1>1, <2>1, <2>3, <3>1, <3>2, <3>3, <3>4, <3>5, Quiet
  <2> QED
    BY <1>3, <2>4, <2>5 DEF Decides
<1>4. ASSUME NEW m \in DOMAIN messages, Picks(v, m)
      PROVE  Inv'
  <2> DEFINE q == [Idle EXCEPT !.at = "decide", !.of = messages[m].of,
                               !.step = messages[m].step, !.msg = m]
  <2>1. m \in 1..Len(messages) /\ messages[m] \in Message /\ Len(messages) \in Nat
    BY <1>2 DEF MessagesOK
  <2>2. messages[m].of \in Enrollments /\ messages[m].step \in 1..NumSteps
    BY <2>1 DEF Message
  <2>3. /\ q \in CallType /\ q.at = "decide" /\ q.msg = m
        /\ q.of = messages[m].of /\ q.step = messages[m].step
    <3>1. messages[m].of \in Enrollments \cup {"none"} /\ messages[m].step \in 0..NumSteps
          /\ m \in Nat
      BY <2>1, <2>2, SequenceAssumption
    <3> QED
      BY <3>1 DEF Idle, CallType, CallAt
  <2>4. /\ call' = [call EXCEPT ![v] = q]
        /\ UNCHANGED <<enrollment, messages, optOut, enrolling, crashes, mailed, after>>
    BY <1>4 DEF Picks
  <2>5. messages[m].step >= 1
    BY <2>2
  <2> HIDE DEF q
  <2> QED
    BY <1>1, <1>2, <2>1, <2>2, <2>3, <2>4, <2>5, SameRows, SameMessages, Quiet
<1> QED
  BY <1>3, <1>4

LEMMA CrashStep ==
  ASSUME Inv, NEW c \in Callers, Crash(c)
  PROVE  Inv'
<1>1. Idle \in CallType /\ Idle.at = "idle" /\ "idle" \notin Busy /\ "idle" \notin Mailing
  BY IdleType
<1>2. /\ call' = [call EXCEPT ![c] = Idle] /\ crashes' \in 0..MaxCrashes
      /\ UNCHANGED <<enrollment, messages, optOut, enrolling, mailed, after>>
  BY SequenceAssumption DEF Crash, Inv, Types, RestOK
<1> QED
  BY <1>1, <1>2, SameRows, SameMessages, Quiet DEF Inv, Types

\* sendMessageNow and advanceEnrollment.
LEMMA SendSteps ==
  ASSUME Inv, NEW c \in Callers, SendStep(c)
  PROVE  Inv'
<1>1. /\ call \in [Callers -> CallType] /\ call[c] \in CallType
      /\ RowsOK /\ MessagesOK /\ CallsOK /\ RestOK
  BY DEF Inv, Types, CallsOK
<1>2. ASSUME call[c].at \in Mailing
      PROVE  call[c].of \in Enrollments /\ call[c].step >= 1 /\ call[c].msg \in 1..Len(messages)
  BY <1>1, <1>2, IdleType DEF CallsOK, MessagesOK
<1>3. {"send", "refuse", "fail", "sending", "sent", "bounced", "advance", "write"} \subseteq Mailing
      /\ Mailing \subseteq Busy
  BY IdleType DEF Mailing
<1>4. CASE SendLoads(c)
  <2>1. UNCHANGED <<enrollment, messages, optOut, enrolling, crashes, mailed, after>>
        /\ call[c].at = "send"
    BY <1>4 DEF SendLoads
  <2>2. ASSUME NEW at \in {"refuse", "fail"}, call' = [call EXCEPT ![c].at = at]
        PROVE  Inv'
    <3>1. call[c].at \in Mailing /\ call[c].at \in Busy
      BY <1>3, <2>1
    <3>2. at \in {"postpone", "generate", "refuse", "fail", "stop"}
      OBVIOUS
    <3> QED
      BY <1>1, <2>1, <2>2, <3>1, <3>2, SameMessages, QuietMove
  <2>3. CASE /\ optOut = "no"
             /\ call' = [call EXCEPT ![c].at = "sending"]
             /\ UNCHANGED <<messages, enrollment>>
    <3>1. Moves(c, "sending") /\ "sending" \in CallAt
      BY <1>3, <2>1, <2>3 DEF Moves, CallAt
    <3>2. Types'
      BY <3>1, MovesTypes
    <3>3. Backed'
      BY <1>1, <2>1, <2>3, <3>2, CountsStay DEF Inv
    <3>4. Asked'
      BY <1>1, <2>1, <2>3 DEF Inv, Asked, RestOK
    <3> QED
      BY <3>2, <3>3, <3>4 DEF Inv
  <2> QED
    BY <1>4, <2>1, <2>2, <2>3 DEF SendLoads, StopsSending, isSuppressed
<1>5. CASE Send(c)
  <2>1. UNCHANGED <<enrollment, messages, optOut, enrolling, crashes>> /\ call[c].at = "sending"
    BY <1>5 DEF Send
  <2>2. CASE /\ call' = [call EXCEPT ![c].at = "bounced"]
             /\ UNCHANGED <<mailed, after>>
    <3>1. Moves(c, "bounced") /\ "bounced" \in CallAt
      BY <1>3, <2>1, <2>2 DEF Moves, CallAt
    <3>2. Types'
      BY <3>1, MovesTypes
    <3>3. Backed'
      BY <1>1, <2>1, <2>2, <3>2, CountsStay DEF Inv
    <3>4. Asked'
      BY <1>1, <2>1, <2>2, AskedStays DEF Inv
    <3> QED
      BY <3>2, <3>3, <3>4 DEF Inv
  <2>3. CASE /\ mailed' = [mailed EXCEPT ![call[c].of] = @ + 1]
             /\ after' = [after EXCEPT ![c] = IF optOut = "no" THEN @ ELSE @ + 1]
             /\ call' = [call EXCEPT ![c].at = "sent"]
    <3> DEFINE o == call[c].of
    <3>1. o \in Enrollments
      BY <1>2, <1>3, <2>1
    <3>2. /\ CallsOK' /\ MessagesOK'
      <4>1. "sent" \in CallAt /\ call[c].at \in Mailing
        BY <1>3, <2>1 DEF CallAt
      <4>2. messages' \in Seq(Message) /\ Len(messages') = Len(messages)
        BY <1>1, <2>1 DEF MessagesOK
      <4> QED
        BY <1>1, <2>3, <4>1, <4>2, Takes
    <3>3. mailed' \in [Enrollments -> Nat] /\ after' \in [Callers -> Nat]
      BY <1>1, <2>3, <3>1 DEF RestOK
    <3>4. Types'
      BY <1>1, <2>1, <3>2, <3>3 DEF Types, RowsOK, RestOK
    <3>5. Backed'
      <4> SUFFICES ASSUME NEW e \in Enrollments
                   PROVE  /\ enrollment'[e].done + Cardinality(InFlight(e)') <= mailed'[e]
                          /\ \A d \in InFlight(e)' : call'[d].at = "write" =>
                               call'[d].step + Cardinality(InFlight(e)') <= mailed'[e] + 1
        BY DEF Backed
      <4>1. \A d \in Callers : d # c => call'[d] = call[d]
        BY <1>1, <2>3
      <4>2. call'[c].at = "sent" /\ call'[c].of = o
        BY <1>1, <2>3 DEF CallType
      <4>3. /\ enrollment'[e].done + Cardinality(InFlight(e)) <= mailed[e]
            /\ \A d \in InFlight(e) : call[d].at = "write" =>
                 call[d].step + Cardinality(InFlight(e)) <= mailed[e] + 1
        BY <2>1 DEF Inv, Backed
      <4>4. /\ Cardinality(InFlight(e)) \in Nat /\ mailed[e] \in Nat /\ enrollment'[e].done \in Nat
            /\ \A d \in Callers : call[d].step \in Nat
        BY <1>1, <2>1, InFlightIsFinite, SequenceAssumption DEF RestOK, RowsOK, RowType, CallType
      <4>5. CASE e # o
        <5>1. InFlight(e)' = InFlight(e)
          BY <2>1, <4>1, <4>2, <4>5 DEF InFlight, Flying
        <5>2. mailed'[e] = mailed[e]
          BY <1>1, <2>3, <3>1, <4>5 DEF RestOK
        <5>3. \A d \in InFlight(e) : d \in Callers /\ d # c
          BY <4>5 DEF InFlight, Flying
        <5> QED
          BY <4>1, <4>3, <5>1, <5>2, <5>3
      <4>6. CASE e = o
        <5>1. InFlight(e)' = InFlight(e) \cup {c} /\ c \notin InFlight(e)
          BY <2>1, <4>1, <4>2, <4>6 DEF InFlight, Flying
        <5>2. Cardinality(InFlight(e)') = Cardinality(InFlight(e)) + 1
          BY <5>1, InFlightIsFinite, FS_AddElement
        <5>3. mailed'[e] = mailed[e] + 1
          BY <1>1, <2>3, <3>1, <4>6 DEF RestOK
        <5>4. \A d \in InFlight(e)' : call'[d].at = "write" => d \in InFlight(e) /\ call'[d] = call[d]
          BY <4>1, <4>2, <5>1 DEF InFlight
        <5>5. enrollment'[e].done + Cardinality(InFlight(e)') <= mailed'[e]
          BY <4>3, <4>4, <5>2, <5>3
        <5>6. ASSUME NEW d \in InFlight(e)', call'[d].at = "write"
              PROVE  call'[d].step + Cardinality(InFlight(e)') <= mailed'[e] + 1
          <6>1. d \in InFlight(e) /\ call'[d] = call[d] /\ call[d].step \in Nat
            BY <4>4, <5>4, <5>6 DEF InFlight
          <6> QED
            BY <4>3, <4>4, <5>2, <5>3, <5>6, <6>1
        <5> QED
          BY <5>5, <5>6
      <4> QED
        BY <4>5, <4>6
    <3>6. Asked'
      <4>1. \A d \in Callers : d # c => call'[d] = call[d] /\ after'[d] = after[d]
        BY <1>1, <2>3 DEF RestOK
      <4>2. call'[c].at = "sent" /\ after[c] = 0
        BY <1>1, <2>1, <2>3 DEF Inv, Asked, CallType
      <4>3. after'[c] = IF optOut = "no" THEN 0 ELSE 1
        BY <1>1, <2>3, <4>2 DEF RestOK
      <4> QED
        BY <2>1, <4>1, <4>2, <4>3 DEF Inv, Asked
    <3> QED
      BY <3>4, <3>5, <3>6 DEF Inv
  <2> QED
    BY <1>5, <2>2, <2>3 DEF Send
<1>6. CASE WriteBounced(c)
  <2>1. /\ UNCHANGED <<optOut, enrolling, crashes, mailed, after>> /\ call[c].at = "bounced"
        /\ messages' = Marked(call[c].msg, "FAILED")
        /\ call' = [call EXCEPT ![c].at = "stop"] /\ UNCHANGED enrollment
    BY <1>6 DEF WriteBounced
  <2>2. messages' \in Seq(Message) /\ Len(messages') >= Len(messages)
    BY <1>1, <1>3, <2>1, Marks DEF MessagesOK
  <2>3. call[c].at \in Busy /\ "stop" \notin Mailing
    BY <1>3, <2>1 DEF Mailing
  <2> QED
    BY <2>1, <2>2, <2>3, QuietMove
<1>10. CASE WriteFailed(c)
  <2>1. /\ UNCHANGED <<enrollment, optOut, enrolling, crashes, mailed, after>>
        /\ messages' = Marked(call[c].msg, "FAILED") /\ call[c].at \in Mailing /\ call[c].at \in Busy
    BY <1>3, <1>10 DEF WriteFailed
  <2>2. messages' \in Seq(Message) /\ Len(messages') >= Len(messages)
    BY <1>1, <2>1, Marks DEF MessagesOK
  <2>3. CASE call' = [call EXCEPT ![c].at = "stop"]
    BY <2>1, <2>2, <2>3, QuietMove
  <2>4. CASE call' = Over(c)
    BY <1>1, <2>1, <2>2, <2>4, SameRows, QuietOver
  <2> QED
    BY <1>10, <2>3, <2>4 DEF WriteFailed, NotSent
<1>11. CASE StopLead(c)
  <2>1. /\ UNCHANGED <<messages, optOut, enrolling, crashes, mailed, after>>
        /\ stopEnrollmentsForLead /\ call' = Over(c)
    BY <1>11 DEF StopLead
  <2>2. RowsOK' /\ \A e \in Enrollments : enrollment'[e].done = enrollment[e].done
    BY <1>1, <2>1, Stops
  <2> QED
    BY <1>1, <2>1, <2>2, SameMessages, QuietOver
<1>7. CASE WriteSent(c)
  <2>1. /\ UNCHANGED <<enrollment, optOut, enrolling, crashes, mailed, after>>
        /\ call[c].at = "sent" /\ messages' = Marked(call[c].msg, "SENT")
        /\ call' = [call EXCEPT ![c].at = "advance"]
    BY <1>7 DEF WriteSent
  <2>2. messages' \in Seq(Message) /\ Len(messages') = Len(messages)
    BY <1>1, <1>3, <2>1, Marks
  <2>3. CallsOK' /\ MessagesOK'
    BY <1>1, <1>2, <1>3, <2>1, <2>2, Takes DEF Busy, CallAt
  <2>4. Types'
    BY <1>1, <2>1, <2>3 DEF Types, RowsOK, RestOK
  <2>5. Backed'
    <3>1. \A d \in Callers : call'[d] = IF d = c THEN [call[c] EXCEPT !.at = "advance"] ELSE call[d]
      BY <1>1, <2>1
    <3>2. \A d \in Callers : call'[d].of = call[d].of /\ (d # c => call'[d] = call[d])
                             /\ call'[c].at = "advance"
      BY <1>1, <3>1 DEF CallType
    <3> QED
      BY <1>1, <2>1, <2>4, <3>2, CountsStay DEF Inv
  <2>6. Asked'
    BY <1>1, <2>1, AskedStays DEF Inv
  <2> QED
    BY <2>4, <2>5, <2>6 DEF Inv
<1>8. CASE AdvanceReads(c)
  <2>1. /\ UNCHANGED <<enrollment, messages, optOut, enrolling, crashes, mailed, after>>
        /\ call[c].at = "advance"
    BY <1>8 DEF AdvanceReads
  <2>2. CASE call' = Over(c)
    BY <1>1, <2>1, <2>2, SameRows, SameMessages, QuietOver
  <2>3. CASE /\ enrollment[call[c].of].status = "ACTIVE"
             /\ call' = [call EXCEPT ![c].at = "write",
                                     ![c].step = enrollment[call[c].of].done + 1]
    <3> DEFINE o == call[c].of
               n == enrollment[o].done + 1
               q == [call[c] EXCEPT !.at = "write", !.step = n]
    <3>1. o \in Enrollments /\ call[c].msg \in 1..Len(messages)
      BY <1>2, <1>3, <2>1
    <3>2. n \in 1..NumSteps /\ n \in 0..NumSteps /\ n >= 1
      BY <1>1, <2>3, <3>1, SequenceAssumption DEF RowsOK, RowType
    <3>3. call' = [call EXCEPT ![c] = q]
      BY <1>1, <2>3
    <3> HIDE DEF n
    <3>4. /\ q \in CallType /\ q.at = "write" /\ q.of = call[c].of /\ q.step = n
          /\ q.msg = call[c].msg
      BY <1>1, <3>2 DEF CallType, CallAt
    <3> HIDE DEF q
    <3>5. CallsOK' /\ MessagesOK'
      BY <1>1, <2>1, <3>1, <3>2, <3>3, <3>4, SameMessages, Goes
    <3>6. Types'
      BY <1>1, <2>1, <3>5 DEF Types, RowsOK, RestOK
    <3>7. \A d \in Callers : call'[d] = IF d = c THEN q ELSE call[d]
      BY <1>1, <3>3
    <3>8. Backed'
      <4> SUFFICES ASSUME NEW e \in Enrollments
                   PROVE  /\ enrollment'[e].done + Cardinality(InFlight(e)') <= mailed'[e]
                          /\ \A d \in InFlight(e)' : call'[d].at = "write" =>
                               call'[d].step + Cardinality(InFlight(e)') <= mailed'[e] + 1
        BY DEF Backed
      <4>1. InFlight(e)' = InFlight(e)
        BY <2>1, <3>4, <3>7 DEF InFlight, Flying
      <4>2. /\ enrollment'[e].done + Cardinality(InFlight(e)) <= mailed[e]
            /\ \A d \in InFlight(e) : call[d].at = "write" =>
                 call[d].step + Cardinality(InFlight(e)) <= mailed[e] + 1
        BY <2>1 DEF Inv, Backed
      <4>3. Cardinality(InFlight(e)) \in Nat /\ mailed[e] \in Nat /\ enrollment[e].done \in Nat
        BY <1>1, <2>1, InFlightIsFinite, SequenceAssumption DEF RestOK, RowsOK, RowType
      <4>4. ASSUME NEW d \in InFlight(e)', call'[d].at = "write"
            PROVE  call'[d].step + Cardinality(InFlight(e)') <= mailed'[e] + 1
        <5>1. CASE d # c
          BY <2>1, <3>7, <4>1, <4>2, <4>4, <5>1 DEF InFlight
        <5>2. CASE d = c
          <6>1. o = e
            BY <3>4, <3>7, <4>4, <5>2 DEF InFlight, Flying
          <6>2. call'[d].step = enrollment[e].done + 1
            BY <3>4, <3>7, <4>4, <5>2, <6>1 DEF InFlight, n
          <6> QED
            BY <2>1, <4>1, <4>2, <4>3, <6>2
        <5> QED
          BY <5>1, <5>2
      <4> QED
        BY <2>1, <4>1, <4>2, <4>4
    <3>9. Asked'
      BY <2>1, <3>4, <3>7, AskedStays DEF Inv
    <3> QED
      BY <3>6, <3>8, <3>9 DEF Inv
  <2> QED
    BY <1>8, <2>2, <2>3 DEF AdvanceReads
<1>9. CASE AdvanceWrites(c)
  <2> DEFINE o == call[c].of
             n == call[c].step
             r == Advanced(c)
  <2>1. /\ enrollment' = [enrollment EXCEPT ![o] = r] /\ call' = Over(c)
        /\ UNCHANGED <<messages, optOut, enrolling, crashes, mailed, after>>
        /\ call[c].at = "write"
    BY <1>9 DEF AdvanceWrites
  <2>2. o \in Enrollments /\ n >= 1 /\ n \in 0..NumSteps
    BY <1>1, <1>2, <1>3, <2>1 DEF CallType
  <2>3. r \in RowType /\ r.done = n /\ (r.status = "ACTIVE" => n < NumSteps)
    <3>1. enrollment[o] \in RowType
      BY <1>1, <2>2 DEF RowsOK
    <3>2. CASE n = NumSteps
      BY <2>2, <3>1, <3>2 DEF Advanced, RowType
    <3>3. CASE n # NumSteps
      <4>1. r = [enrollment[o] EXCEPT !.done = n, !.next = "later"]
        BY <3>1, <3>3 DEF Advanced, RowType
      <4>2. n < NumSteps
        BY <2>2, <3>3, SequenceAssumption
      <4> HIDE DEF r, n, o
      <4> QED
        BY <2>2, <3>1, <4>1, <4>2 DEF RowType
    <3> QED
      BY <3>2, <3>3
  <2> HIDE DEF r
  <2>4. \A e \in Enrollments : enrollment'[e] = IF e = o THEN r ELSE enrollment[e]
    BY <1>1, <2>1 DEF RowsOK
  <2>5. RowsOK'
    BY <1>1, <2>1, <2>2, <2>3, <2>4 DEF RowsOK
  <2>6. PICK q \in CallType : q.at \in {"idle", "loop"} /\ call' = [call EXCEPT ![c] = q]
    BY <1>1, <2>1, Overs
  <2>7. CallsOK' /\ MessagesOK'
    BY <1>1, <2>1, <2>6, SameMessages, IdleType, Goes
  <2>8. Types'
    BY <1>1, <2>1, <2>5, <2>7 DEF Types, RestOK
  <2>9. \A d \in Callers : call'[d] = IF d = c THEN q ELSE call[d]
    BY <1>1, <2>6
  <2>10. Backed'
    <3> SUFFICES ASSUME NEW e \in Enrollments
                 PROVE  /\ enrollment'[e].done + Cardinality(InFlight(e)') <= mailed'[e]
                        /\ \A d \in InFlight(e)' : call'[d].at = "write" =>
                             call'[d].step + Cardinality(InFlight(e)') <= mailed'[e] + 1
      BY DEF Backed
    <3>1. InFlight(e)' = InFlight(e) \ {c}
      BY <2>6, <2>9 DEF InFlight, Flying
    <3>2. /\ enrollment[e].done + Cardinality(InFlight(e)) <= mailed[e]
          /\ \A d \in InFlight(e) : call[d].at = "write" =>
               call[d].step + Cardinality(InFlight(e)) <= mailed[e] + 1
      BY DEF Inv, Backed
    <3>3. /\ Cardinality(InFlight(e)) \in Nat /\ Cardinality(InFlight(e)') \in Nat
          /\ Cardinality(InFlight(e)') = IF c \in InFlight(e) THEN Cardinality(InFlight(e)) - 1
                                         ELSE Cardinality(InFlight(e))
      BY <3>1, InFlightIsFinite, FS_RemoveElement, FS_CardinalityType
    <3>4. /\ mailed[e] \in Nat /\ enrollment[e].done \in Nat /\ n \in Nat
          /\ \A d \in Callers : call[d].step \in Nat
      BY <1>1, SequenceAssumption DEF RestOK, RowsOK, RowType, CallType
    <3>5. c \in InFlight(o)
      BY <2>1 DEF InFlight, Flying
    <3>6. enrollment'[e].done + Cardinality(InFlight(e)') <= mailed'[e]
      <4>1. CASE e = o
        <5>1. n + Cardinality(InFlight(e)) <= mailed[e] + 1
          BY <2>1, <3>2, <3>5, <4>1
        <5> QED
          BY <2>1, <2>3, <2>4, <3>3, <3>4, <3>5, <4>1, <5>1
      <4>2. CASE e # o
        BY <2>1, <2>4, <3>2, <3>3, <3>4, <4>2
      <4> QED
        BY <4>1, <4>2
    <3>7. ASSUME NEW d \in InFlight(e)', call'[d].at = "write"
          PROVE  call'[d].step + Cardinality(InFlight(e)') <= mailed'[e] + 1
      <4>1. d \in InFlight(e) /\ d # c /\ call'[d] = call[d] /\ call[d].step \in Nat
        BY <2>9, <3>1, <3>4 DEF InFlight
      <4> QED
        BY <2>1, <3>2, <3>3, <3>4, <3>7, <4>1
    <3> QED
      BY <3>6, <3>7
  <2>11. Asked'
    BY <2>1, <2>6, <2>9, AskedStays DEF Inv
  <2> QED
    BY <2>8, <2>10, <2>11 DEF Inv
<1> QED
  BY <1>4, <1>5, <1>6, <1>7, <1>8, <1>9, <1>10, <1>11 DEF SendStep

LEMMA InvStep == Inv /\ [Next]_vars => Inv'
<1> SUFFICES ASSUME Inv, [Next]_vars
             PROVE  Inv'
  OBVIOUS
<1>1. CASE UNCHANGED vars
  BY <1>1 DEF vars, Inv, Types, RowsOK, CallsOK, RestOK, MessagesOK, Backed, InFlight, Flying, Asked
<1> QED
  BY <1>1, EnrollmentSteps, CronSteps, ValidatorSteps, SendSteps, CrashStep DEF Next

LEMMA InvInit == Init => Inv
<1> SUFFICES ASSUME Init
             PROVE  Inv
  OBVIOUS
<1>1. \A c \in Callers : call[c] = Idle
  BY DEF Init
<1>2. RowsOK
  BY SequenceAssumption DEF Init, RowsOK, RowType, Unborn
<1>3. CallsOK /\ MessagesOK
  BY <1>1, IdleType, EmptySeq DEF Init, CallsOK, MessagesOK
<1>4. RestOK
  BY SequenceAssumption DEF Init, RestOK
<1>5. \A e : InFlight(e) = {}
  BY <1>1, IdleType DEF InFlight, Flying
<1>6. Backed
  <2>1. \A e \in Enrollments : enrollment[e].done = 0 /\ mailed[e] = 0
    BY DEF Init, Unborn
  <2>2. \A e : Cardinality(InFlight(e)) = 0
    BY <1>5, FS_EmptySet
  <2> QED
    BY <1>5, <2>1, <2>2 DEF Backed
<1>7. Asked
  BY <1>1, IdleType DEF Init, Asked
<1> QED
  BY <1>2, <1>3, <1>4, <1>6, <1>7 DEF Inv, Types

-----------------------------------------------------------------------------
(* The theorems.                                                           *)

\* The engine's variables keep their types.
THEOREM TypeCorrect == Spec => []TypeOK
<1>1. Inv => TypeOK
  BY DEF Inv, Types, RowsOK, CallsOK, RestOK, MessagesOK, RowType, CallType, TypeOK
<1> QED
  BY <1>1, InvInit, InvStep, PTL DEF Spec

\* advanceEnrollment: however senders overlap and die, an enrolment has moved
\* on by at most as many steps as mails left for it.
THEOREM NeverAheadOfItsMails == Spec => []AdvanceIsBacked
<1>1. Inv => AdvanceIsBacked
  <2> SUFFICES ASSUME Inv, NEW e \in Enrollments
               PROVE  enrollment[e].done <= mailed[e]
    BY DEF AdvanceIsBacked
  <2>1. enrollment[e].done + Cardinality(InFlight(e)) <= mailed[e]
    BY DEF Inv, Backed
  <2>2. enrollment[e].done \in Nat /\ mailed[e] \in Nat
    BY SequenceAssumption DEF Inv, Types, RowsOK, RestOK, RowType
  <2> QED
    BY <2>1, <2>2, InFlightIsFinite
<1> QED
  BY <1>1, InvInit, InvStep, PTL DEF Spec

\* runDueEnrollment and sendMessageNow ask about the opt-out each on its own:
\* once it is recorded, a caller sends the mail it has in hand and no other.
THEOREM OptOutIsKept == Spec => []OneMailAfterOptOut
<1>1. Inv => OneMailAfterOptOut
  BY DEF Inv, Asked, OneMailAfterOptOut
<1> QED
  BY <1>1, InvInit, InvStep, PTL DEF Spec
=============================================================================
