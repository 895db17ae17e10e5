-------------------------- MODULE HumanReviewProofs --------------------------
(***************************************************************************)
(* Proofs about HumanReview for any sets of claims, reviewers and keys.    *)
(***************************************************************************)
EXTENDS HumanReview, SequenceTheorems, TLAPS

---------------------------------------------------------------------------
(* Lemmas about the operators the actions are built from. *)

\* Appending notes and one event to a trace gives a trace.
LEMMA TraceExtends ==
  ASSUME NEW es \in Seq(EventSet), NEW notes \in Seq(EventSet),
         NEW e \in EventSet
  PROVE  es \o notes \o <<e>> \in Seq(EventSet)
<1>1. <<e>> \in Seq(EventSet)
  OBVIOUS
<1>2. es \o notes \in Seq(EventSet)
  BY ConcatProperties
<1> QED
  BY <1>1, <1>2, ConcatProperties

\* The events the actions write are events.
LEMMA EventTypes1 ==
  /\ \A t \in EventTypes : Note(t) \in EventSet /\ Background(t) \in EventSet
  /\ \A from, to \in Statuses : StateChanged(from, to) \in EventSet
BY DEF Note, Background, StateChanged, EventSet, Statuses, Stopped, EventTypes

\* A report built from the claims of a run is a report.
LEMMA ReportType ==
  ASSUME degraded \in SUBSET Producers, NEW cs,
         NEW kind \in {"VERIFIED_DRAFT", "APPROVED_DRAFT"}
  PROVE  Report(kind, cs) \in ReportSet
BY DEF Report, ReportSet, Publishable

\* Moving a typed run to a status keeps it typed.
LEMMA MoveType ==
  ASSUME version \in Nat, events \in Seq(EventSet), status \in Statuses,
         NEW to \in Statuses, NEW notes \in Seq(EventSet), Move(notes, to)
  PROVE  status' \in Statuses /\ version' \in Nat /\ events' \in Seq(EventSet)
<1>1. StateChanged(status, to) \in EventSet
  BY EventTypes1
<1> QED
  BY <1>1, TraceExtends DEF Move

\* Storing an artifact keeps artifacts and claims typed.
LEMMA StoreType ==
  ASSUME artifacts \in [Producers -> Outcomes],
         claims \in [Claims -> ReviewStatuses \union {"absent"}],
         NEW p \in Producers, NEW o \in Outcomes, NEW found, Store(p, o, found)
  PROVE  /\ artifacts' \in [Producers -> Outcomes]
         /\ claims' \in [Claims -> ReviewStatuses \union {"absent"}]
BY DEF Store, ReviewStatuses

\* Ruling on claims keeps them typed.
LEMMA RuledOnType ==
  ASSUME claims \in [Claims -> ReviewStatuses \union {"absent"}], NEW q
  PROVE  RuledOn(q) \in [Claims -> ReviewStatuses \union {"absent"}]
BY DEF RuledOn, ReviewStatuses

\* The moves of a decision are trace events; the last one leads to COMPLETED
\* when the decision closes the review and to REWORK otherwise.
LEMMA MovesType ==
  ASSUME NEW q, NEW from \in Reviewable
  PROVE  /\ Moves(q, from) \in Seq(EventSet)
         /\ Len(Moves(q, from)) \in Nat
         /\ Moves(q, from) # <<>> =>
              Moves(q, from)[Len(Moves(q, from))].to
                = (IF Closes(q) THEN "COMPLETED" ELSE "REWORK")
         /\ Closes(q) => Moves(q, from) # <<>>
<1> DEFINE e1 == StateChanged("REWORK", "HUMAN_REVIEW")
           e2 == StateChanged("HUMAN_REVIEW", "REPORTING")
           e3 == StateChanged("REPORTING", "COMPLETED")
           e4 == StateChanged(from, "REPORTING")
           e5 == StateChanged(from, "REWORK")
<1>1. /\ e1 \in EventSet /\ e2 \in EventSet /\ e3 \in EventSet
      /\ e4 \in EventSet /\ e5 \in EventSet
  BY DEF StateChanged, EventSet, EventTypes, Statuses, Stopped, Reviewable
<1>2. e3.to = "COMPLETED" /\ e5.to = "REWORK"
  BY DEF StateChanged
<1> HIDE DEF e1, e2, e3, e4, e5
<1>3. \/ Closes(q) /\ Moves(q, from) = <<e1, e2, e3>>
      \/ Closes(q) /\ Moves(q, from) = <<e4, e3>>
      \/ ~ Closes(q) /\ Moves(q, from) = <<e5>>
      \/ ~ Closes(q) /\ Moves(q, from) = <<>>
  BY DEF Moves, e1, e2, e3, e4, e5
<1> DEFINE m == Moves(q, from)
<1> HIDE DEF m
<1>4. CASE Closes(q) /\ m = <<e1, e2, e3>>
  <2>1. m \in Seq(EventSet) /\ Len(m) = 3 /\ m # <<>> /\ m[3] = e3
    BY <1>1, <1>4
  <2> QED
    BY <1>2, <1>4, <2>1 DEF m
<1>5. CASE Closes(q) /\ m = <<e4, e3>>
  <2>1. m \in Seq(EventSet) /\ Len(m) = 2 /\ m # <<>> /\ m[2] = e3
    BY <1>1, <1>5
  <2> QED
    BY <1>2, <1>5, <2>1 DEF m
<1>6. CASE ~ Closes(q) /\ m = <<e5>>
  <2>1. m \in Seq(EventSet) /\ Len(m) = 1 /\ m # <<>> /\ m[1] = e5
    BY <1>1, <1>6
  <2> QED
    BY <1>2, <1>6, <2>1 DEF m
<1>7. CASE ~ Closes(q) /\ m = <<>>
  <2>1. m \in Seq(EventSet) /\ Len(m) = 0
    BY <1>7
  <2> QED
    BY <1>7, <2>1 DEF m
<1> QED
  BY <1>3, <1>4, <1>5, <1>6, <1>7 DEF m

---------------------------------------------------------------------------
(* Type correctness. *)

\* The initial state is well typed.
LEMMA TypeInit == Init => TypeOK
<1> SUFFICES ASSUME Init PROVE TypeOK
  OBVIOUS
<1>1. /\ status \in Statuses /\ version \in Nat /\ completedAt \in BOOLEAN
      /\ degraded \in SUBSET Producers /\ task \in TaskStates
  BY DEF Init, RunInit, Statuses, TaskStates, Active
<1>2. /\ artifacts \in [Producers -> Outcomes]
      /\ claims \in [Claims -> ReviewStatuses \union {"absent"}]
  BY DEF Init, RunInit, Outcomes
<1>3. events \in Seq(EventSet) /\ reports \in Seq(ReportSet)
  BY DEF Init, RunInit
<1>4. /\ decisions \in [Keys -> RequestSet \union {NoRequest}]
      /\ request \in [Reviewers -> RequestSet \union {NoRequest}]
      /\ copy \in [Reviewers -> RowSet \union {NoRow}]
      /\ reply \in [Reviewers -> Replies]
  BY DEF Init, ReviewInit, Replies
<1> QED
  BY <1>1, <1>2, <1>3, <1>4 DEF TypeOK

\* Every step of the Supervisor keeps the types.
LEMMA TypeSupervise ==
  ASSUME TypeOK, Supervise, UNCHANGED reviewVars
  PROVE  TypeOK'
<1> USE DEF TypeOK, reviewVars
<1>0. <<>> \in Seq(EventSet) /\ \A t \in EventTypes : <<Note(t)>> \in Seq(EventSet)
  BY EventTypes1
<1>1. ASSUME NEW from \in Statuses, NEW to \in Statuses, Advance(from, to)
      PROVE  TypeOK'
  BY <1>0, <1>1, MoveType DEF Advance, Step
<1>2. CASE Authorize \/ StartValidation \/ CaseMissing \/ CaseUnbound \/ Plan
           \/ StartExecution \/ Synthesize \/ StartChallenge
  BY <1>1, <1>2 DEF Authorize, StartValidation, CaseMissing, CaseUnbound, Plan,
       StartExecution, Synthesize, StartChallenge, Statuses, Stopped
<1>3. ASSUME NEW a \in Specialists, NEW found \in SUBSET Unwritten,
             AgentSucceeds(a, found)
      PROVE  TypeOK'
  <2>1. Note("TASK_COMPLETED") \in EventSet
    BY EventTypes1 DEF EventTypes
  <2>2. a \in Producers /\ "OK" \in Outcomes
    BY DEF Producers, Outcomes
  <2> QED
    BY <1>3, <2>1, <2>2, StoreType DEF AgentSucceeds
<1>4. ASSUME NEW a \in Specialists, NEW found \in SUBSET Unwritten,
             AgentDegrades(a, found)
      PROVE  TypeOK'
  <2>1. <<Note("TASK_COMPLETED"), Note("TASK_DEGRADED")>> \in Seq(EventSet)
    BY EventTypes1 DEF EventTypes
  <2>2. a \in Producers /\ "DEGRADED" \in Outcomes
    BY DEF Producers, Outcomes
  <2>3. events' \in Seq(EventSet)
    BY <1>4, <2>1, ConcatProperties DEF AgentDegrades
  <2> QED
    BY <1>4, <2>2, <2>3, StoreType DEF AgentDegrades
<1>5. ASSUME NEW a \in Specialists, CriticalAgentFails(a)
      PROVE  TypeOK'
  <2>1. a \in Producers /\ "FAILED" \in Outcomes /\ "FAILED" \in Statuses
        /\ <<Note("TASK_FAILED")>> \in Seq(EventSet)
    BY <1>0 DEF Producers, Outcomes, Statuses, Stopped, EventTypes
  <2> QED
    BY <1>5, <2>1, StoreType, MoveType DEF CriticalAgentFails
<1>6. CASE RiskAgentFails
  <2>1. Note("TASK_FAILED") \in EventSet
    BY EventTypes1 DEF EventTypes
  <2>2. "risk" \in Producers /\ "FAILED" \in Outcomes
    BY DEF Producers, Specialists, Outcomes
  <2> QED
    BY <1>6, <2>1, <2>2, StoreType DEF RiskAgentFails
<1>7. ASSUME NEW found \in SUBSET Unwritten, Challenge(found)
      PROVE  TypeOK'
  <2>1. "challenger" \in Producers /\ "OK" \in Outcomes /\ "AUDITING" \in Statuses
    BY DEF Producers, Outcomes, Statuses
  <2> QED
    BY <1>0, <1>7, <2>1, StoreType, MoveType DEF Challenge, Step
<1>8. CASE ChallengerFails
  <2>1. "challenger" \in Producers /\ "FAILED" \in Outcomes /\ "AUDITING" \in Statuses
        /\ <<Note("TASK_FAILED")>> \in Seq(EventSet)
    BY <1>0 DEF Producers, Outcomes, Statuses, EventTypes
  <2> QED
    BY <1>8, <2>1, StoreType, MoveType DEF ChallengerFails, Step
<1>9. ASSUME NEW verdict \in [Claims -> {"AUDITED", "NEEDS_REWORK", "PENDING"}],
             Audit(verdict)
      PROVE  TypeOK'
  <2>1. claims' \in [Claims -> ReviewStatuses \union {"absent"}]
    BY <1>9 DEF Audit, ReviewStatuses
  <2>2. PICK to \in Statuses : Move(<<Note("AUDIT_COMPLETED")>>, to)
    BY <1>9 DEF Audit, Step, Statuses, Stopped
  <2>3. status' \in Statuses /\ version' \in Nat /\ events' \in Seq(EventSet)
    BY <1>0, <2>2, MoveType DEF EventTypes
  <2> QED
    BY <1>9, <2>1, <2>3 DEF Audit
<1>10. CASE AuditorFails
  <2>1. "auditor" \in Producers /\ "FAILED" \in Outcomes /\ "FAILED" \in Statuses
        /\ <<Note("AUDIT_FAILED")>> \in Seq(EventSet)
    BY <1>0 DEF Producers, Outcomes, Statuses, Stopped, EventTypes
  <2> QED
    BY <1>10, <2>1, StoreType, MoveType DEF AuditorFails
<1>11. CASE PublishReport
  <2>1. "COMPLETED" \in Statuses /\ "completing" \in TaskStates
    BY DEF Statuses, Stopped, TaskStates, Active
  <2>2. Report("VERIFIED_DRAFT", claims) \in ReportSet
    BY ReportType
  <2>3. reports' \in Seq(ReportSet)
    BY <1>11, <2>2 DEF PublishReport
  <2>4. status' \in Statuses /\ version' \in Nat /\ events' \in Seq(EventSet)
    BY <1>0, <1>11, <2>1, MoveType DEF PublishReport, Step
  <2> QED
    BY <1>11, <2>1, <2>3, <2>4 DEF PublishReport
<1>12. CASE ReportFails
  <2>1. "FAILED" \in Statuses /\ <<Note("REPORT_FAILED")>> \in Seq(EventSet)
    BY <1>0 DEF Statuses, Stopped, EventTypes
  <2> QED
    BY <1>12, <2>1, MoveType DEF ReportFails
<1>13. CASE TaskReturns
  BY <1>13 DEF TaskReturns, TaskStates
<1> QED
  BY <1>2, <1>3, <1>4, <1>5, <1>6, <1>7, <1>8, <1>9, <1>10, <1>11, <1>12,
     <1>13 DEF Supervise

\* So do the marking of failures and the faults.
LEMMA TypeFaults ==
  ASSUME TypeOK, UNCHANGED reviewVars,
         Mark \/ TaskRaises \/ TaskCancelled \/ MarkLost \/ ProcessDies
  PROVE  TypeOK'
<1> USE DEF TypeOK, reviewVars
<1>1. ASSUME NEW type \in EventTypes, MarkFailed(type)
      PROVE  /\ status' \in Statuses /\ version' \in Nat
             /\ completedAt' \in BOOLEAN /\ events' \in Seq(EventSet)
  <2>1. Background(type) \in EventSet /\ "FAILED" \in Statuses
    BY EventTypes1 DEF Statuses, Stopped
  <2>2. CASE status \in Stopped
    BY <1>1, <2>2 DEF MarkFailed
  <2>3. CASE status \notin Stopped
    <3>1. /\ status' = "FAILED" /\ version' = version + 1 /\ completedAt' = TRUE
          /\ events' = Append(events, Background(type))
      BY <1>1, <2>3 DEF MarkFailed
    <3>2. events' \in Seq(EventSet)
      BY <2>1, <3>1
    <3> QED
      BY <2>1, <3>1, <3>2
  <2> QED
    BY <2>2, <2>3
<1>2. "BACKGROUND_FAILED" \in EventTypes /\ "BACKGROUND_CANCELLED" \in EventTypes
  BY DEF EventTypes
<1>3. CASE MarkAfterException
  BY <1>1, <1>2, <1>3 DEF MarkAfterException, TaskStates
<1>4. CASE MarkAfterCancellation
  BY <1>1, <1>2, <1>4 DEF MarkAfterCancellation, TaskStates
<1>5. CASE TaskRaises \/ TaskCancelled \/ MarkLost \/ ProcessDies
  BY <1>5 DEF TaskRaises, TaskCancelled, MarkLost, ProcessDies, TaskStates
<1> QED
  BY <1>3, <1>4, <1>5 DEF Mark

\* What a decision finds: a typed request, the reviewable row it decides from.
LEMMA DecideFinds ==
  ASSUME TypeOK, NEW r \in Reviewers, Locked(r)
  PROVE  request[r] \in RequestSet /\ Held(r) \in RowSet
BY DEF Locked, Waiting, Held, Row, RowSet, TypeOK

\* So does an accepted decision.
LEMMA TypeDecide ==
  ASSUME TypeOK, NEW r \in Reviewers, Decide(r)
  PROVE  TypeOK'
<1> USE DEF TypeOK
<1> DEFINE q == request[r]
           from == Held(r)
           moves == Moves(q, from.status)
<1>1. q \in RequestSet /\ from \in RowSet
  BY DecideFinds DEF Decide
<1>2. from.status \in Reviewable /\ from.version \in Nat
  BY <1>1 DEF Decide, Admissible, RowSet
<1>3. moves \in Seq(EventSet) /\ Len(moves) \in Nat
  BY <1>2, MovesType
<1>4. status' \in Statuses
  <2>1. moves # <<>> => moves[Len(moves)].to \in {"COMPLETED", "REWORK"}
    BY <1>2, MovesType
  <2>2. status' = IF moves = <<>> THEN status ELSE moves[Len(moves)].to
    BY DEF Decide
  <2> QED
    BY <2>1, <2>2 DEF Statuses, Stopped
<1>5. version' \in Nat
  <2>1. version' = from.version + 1 + Len(moves)
    BY DEF Decide
  <2> QED
    BY <2>1, <1>2, <1>3
<1>6. events' \in Seq(EventSet)
  <2>1. /\ <<Note("HUMAN_DECISION")>> \in Seq(EventSet)
        /\ <<Note("HUMAN_REVIEW_PENDING")>> \in Seq(EventSet)
    BY EventTypes1 DEF EventTypes
  <2>2. events \o <<Note("HUMAN_DECISION")>> \in Seq(EventSet)
    BY <2>1, ConcatProperties
  <2>3. PICK tail \in Seq(EventSet) :
          events' = events \o <<Note("HUMAN_DECISION")>> \o tail
    BY <1>3, <2>1 DEF Decide
  <2> QED
    BY <2>2, <2>3, ConcatProperties
<1>7. claims' \in [Claims -> ReviewStatuses \union {"absent"}]
  BY RuledOnType DEF Decide
<1>8. reports' \in Seq(ReportSet)
  <2>1. Report("APPROVED_DRAFT", claims') \in ReportSet
    BY ReportType
  <2> QED
    BY <2>1 DEF Decide
<1>9. /\ decisions' \in [Keys -> RequestSet \union {NoRequest}]
      /\ reply' \in [Reviewers -> Replies]
      /\ copy' \in [Reviewers -> RowSet \union {NoRow}]
      /\ UNCHANGED <<request, degraded, artifacts, task>>
  <2>1. decisions' = [decisions EXCEPT ![q.key] = q] /\ q.key \in Keys
    BY <1>1 DEF Decide, RequestSet
  <2> QED
    BY <1>1, <2>1 DEF Decide, Answer, Replies
<1>10. completedAt' \in BOOLEAN
  BY DEF Decide, Closes
<1> QED
  BY <1>4, <1>5, <1>6, <1>7, <1>8, <1>9, <1>10

\* So does every step of a reviewer.
LEMMA TypeReview ==
  ASSUME TypeOK, NEW r \in Reviewers,
         \/ Compose(r) \/ Resend(r) \/ Load(r) \/ Forbid(r)
         \/ Duplicate(r) \/ Refuse(r) \/ RollBack(r)
  PROVE  TypeOK'
<1> USE DEF TypeOK, runVars
<1>1. "none" \in Replies /\ "refused" \in Replies /\ "replayed" \in Replies
  BY DEF Replies
<1>2. CASE Compose(r)
  <2>1. PICK k \in Keys, a \in Actions, ts \in SUBSET Claims :
          request' = [request EXCEPT ![r] =
            [by |-> r, key |-> k, action |-> a, targets |-> ts,
             expected |-> version]]
    BY <1>2 DEF Compose
  <2>2. [by |-> r, key |-> k, action |-> a, targets |-> ts,
         expected |-> version] \in RequestSet
    BY DEF RequestSet
  <2> QED
    BY <1>1, <1>2, <2>1, <2>2 DEF Compose
<1>3. CASE Resend(r) \/ Forbid(r)
  BY <1>1, <1>3 DEF Resend, Forbid
<1>4. CASE Load(r)
  <2>1. Row \in RowSet
    BY DEF Row, RowSet
  <2> QED
    BY <1>4, <2>1 DEF Load
<1>5. CASE Duplicate(r)
  BY <1>1, <1>5 DEF Duplicate, Answer
<1>6. CASE Refuse(r) \/ RollBack(r)
  BY <1>1, <1>6 DEF Refuse, RollBack, Answer
<1> QED
  BY <1>2, <1>3, <1>4, <1>5, <1>6

\* Types are inductive.
LEMMA TypeNext ==
  ASSUME TypeOK, [Next]_vars
  PROVE  TypeOK'
<1>1. CASE RunNext /\ UNCHANGED reviewVars
  BY <1>1, TypeSupervise, TypeFaults DEF RunNext
<1>2. CASE Review
  BY <1>2, TypeReview, TypeDecide DEF Review
<1>3. CASE UNCHANGED vars
  BY <1>3 DEF TypeOK, vars, runVars, reviewVars
<1> QED
  BY <1>1, <1>2, <1>3 DEF Next

\* Every variable keeps its type in every behaviour of the composed system.
THEOREM TypeCorrect == Spec => []TypeOK
BY TypeInit, TypeNext, PTL DEF Spec

---------------------------------------------------------------------------
(* The release gate: what every report and every COMPLETED run rests on.   *)
(* It holds whether or not clients go through the API endpoint: the checks *)
(* on claims are made on rows read under the lock, never on the copy.      *)

Audited(es) == \E i \in 1..Len(es) : es[i].type = "AUDIT_COMPLETED"

Impaired == {p \in Producers : artifacts[p] \in {"DEGRADED", "FAILED"}}

BeforeSynthesis == {"RECEIVED", "AUTHORIZED", "VALIDATING_CASE", "PLANNING",
                    "EXECUTING"}
AfterAudit == {"REPORTING", "HUMAN_REVIEW", "REWORK", "COMPLETED"}
AfterExecution == {"SYNTHESIZING", "CHALLENGING", "AUDITING"} \union AfterAudit

\* A critical failure ends the run, so past execution both agents succeeded.
CriticalInv ==
  /\ status \in BeforeSynthesis => \A a \in Critical : artifacts[a] # "FAILED"
  /\ status \in AfterExecution =>
       \A a \in Critical : artifacts[a] \in {"OK", "DEGRADED"}

AuditInv ==
  /\ status \in AfterAudit => Audited(events)
  /\ status \in {"REPORTING", "COMPLETED"} => Blocking(claims) = {}

\* A report is only ever followed by the statuses a decision can set, and no
\* claim blocks any more, so no claim can be ruled on again.
PublishedInv ==
  /\ status = "COMPLETED" => reports # <<>>
  /\ reports # <<>> => /\ status \in {"COMPLETED", "REWORK"}
                       /\ Blocking(claims) = {}

\* A stale copy of a reviewable run belongs to a run past its audit.
CopyInv ==
  \A r \in Reviewers :
    copy[r] # NoRow /\ copy[r].status \in Reviewable =>
      status \in Reviewable \union {"COMPLETED"}

\* The manifest names the impaired agents of every run that has not failed.
DegradedInv ==
  /\ status # "FAILED" => degraded = Impaired
  /\ status \in BeforeSynthesis \union {"SYNTHESIZING", "CHALLENGING"} =>
       artifacts["challenger"] = "none"

ReleaseInv ==
  /\ TypeOK /\ CriticalInv /\ AuditInv /\ PublishedInv /\ CopyInv /\ DegradedInv
  /\ ReportsStayTrue /\ DegradationDisclosed

\* The strengthened invariant holds initially.
LEMMA ReleaseInit == Init => ReleaseInv
<1> SUFFICES ASSUME Init PROVE ReleaseInv
  OBVIOUS
<1>1. TypeOK
  BY TypeInit
<1>2. CriticalInv /\ AuditInv /\ DegradedInv
  BY DEF Init, RunInit, CriticalInv, AuditInv, DegradedInv, Impaired,
     BeforeSynthesis, AfterAudit, AfterExecution, Critical, Producers, Specialists
<1>3. PublishedInv /\ CopyInv
  BY DEF Init, RunInit, ReviewInit, PublishedInv, CopyInv
<1>4. ReportsStayTrue /\ DegradationDisclosed
  BY DEF Init, RunInit, ReportsStayTrue, DegradationDisclosed
<1> QED
  BY <1>1, <1>2, <1>3, <1>4 DEF ReleaseInv

\* An audit that is in the trace stays in it.
LEMMA AuditedStays ==
  ASSUME NEW es \in Seq(EventSet), NEW more \in Seq(EventSet), Audited(es)
  PROVE  Audited(es \o more)
<1>1. PICK i \in 1..Len(es) : es[i].type = "AUDIT_COMPLETED"
  BY DEF Audited
<1>2. i \in 1..Len(es \o more) /\ (es \o more)[i] = es[i]
  BY ConcatProperties, LenProperties
<1> QED
  BY <1>1, <1>2 DEF Audited

\* A step of a typed run that makes an audited trace longer keeps it audited.
LEMMA AuditedMove ==
  ASSUME TypeOK, NEW notes \in Seq(EventSet), NEW to \in Statuses,
         Move(notes, to), Audited(events)
  PROVE  Audited(events')
<1>1. StateChanged(status, to) \in EventSet
  BY EventTypes1 DEF TypeOK
<1>2. <<StateChanged(status, to)>> \in Seq(EventSet)
  BY <1>1
<1>3. events \o notes \in Seq(EventSet) /\ Audited(events \o notes)
  BY AuditedStays, ConcatProperties DEF TypeOK
<1> QED
  BY <1>2, <1>3, AuditedStays DEF Move

\* Until the run waits for humans or completes, there is nothing published and
\* no copy a decision could be made from.
Unpublished ==
  /\ reports = <<>>
  /\ \A r \in Reviewers : copy[r] # NoRow => copy[r].status \notin Reviewable

\* A run in the DAG before COMPLETED has published nothing.
LEMMA EarlyIsUnpublished ==
  ASSUME ReleaseInv, status \notin Reviewable \union {"COMPLETED"}
  PROVE  Unpublished
BY DEF ReleaseInv, PublishedInv, CopyInv, Unpublished, Reviewable

\* Without reports the clauses about reports hold whatever else changes.
LEMMA UnpublishedStays ==
  ASSUME Unpublished, UNCHANGED <<reports, copy>>, status' # "COMPLETED"
  PROVE  PublishedInv' /\ CopyInv' /\ ReportsStayTrue' /\ DegradationDisclosed'
BY DEF Unpublished, PublishedInv, CopyInv, ReportsStayTrue, DegradationDisclosed

\* A run that fails owes nothing any more.
LEMMA FailedIsSafe ==
  ASSUME Unpublished, TypeOK', UNCHANGED <<reports, copy>>, status' = "FAILED"
  PROVE  ReleaseInv'
<1>1. CriticalInv' /\ AuditInv' /\ DegradedInv'
  BY DEF CriticalInv, AuditInv, DegradedInv, BeforeSynthesis, AfterAudit,
     AfterExecution
<1> QED
  BY <1>1, UnpublishedStays DEF ReleaseInv

\* Moving along the DAG keeps the invariant.
LEMMA ReleaseAdvance ==
  ASSUME ReleaseInv, TypeOK', UNCHANGED reviewVars,
         \/ Authorize \/ StartValidation \/ CaseMissing \/ CaseUnbound \/ Plan
         \/ StartExecution \/ Synthesize \/ StartChallenge
  PROVE  ReleaseInv'
<1>1. /\ UNCHANGED <<degraded, artifacts, claims, reports, copy>>
      /\ \/ /\ status \in BeforeSynthesis
            /\ status' \in BeforeSynthesis \union {"DATA_QUALITY_BLOCKED", "NEED_MORE_INFO"}
         \/ /\ status = "EXECUTING" /\ status' = "SYNTHESIZING"
            /\ \A a \in Specialists : artifacts[a] # "none"
         \/ status = "SYNTHESIZING" /\ status' = "CHALLENGING"
  BY DEF Authorize, StartValidation, CaseMissing, CaseUnbound, Plan,
     StartExecution, Synthesize, StartChallenge, Advance, Step, Move,
     BeforeSynthesis, reviewVars
<1>2. /\ PublishedInv' /\ CopyInv' /\ ReportsStayTrue' /\ DegradationDisclosed'
  <2>1. status \notin Reviewable \union {"COMPLETED"} /\ status' # "COMPLETED"
    BY <1>1 DEF BeforeSynthesis, Reviewable
  <2> QED
    BY <1>1, <2>1, EarlyIsUnpublished, UnpublishedStays
<1>3. CriticalInv'
  <2>1. \A a \in Critical : artifacts[a] \in Outcomes /\ a \in Specialists
    BY DEF ReleaseInv, TypeOK, Critical, Specialists, Producers
  <2> QED
    BY <1>1, <2>1 DEF ReleaseInv, CriticalInv, BeforeSynthesis, AfterExecution,
       AfterAudit, Outcomes
<1>4. AuditInv'
  BY <1>1 DEF AuditInv, AfterAudit, BeforeSynthesis
<1>5. DegradedInv'
  BY <1>1 DEF ReleaseInv, DegradedInv, BeforeSynthesis, Impaired
<1> QED
  BY <1>2, <1>3, <1>4, <1>5 DEF ReleaseInv

\* So does every end of a specialist.
LEMMA ReleaseAgent ==
  ASSUME ReleaseInv, TypeOK', UNCHANGED reviewVars, NEW a \in Specialists,
         \/ \E found \in SUBSET Unwritten : AgentSucceeds(a, found)
         \/ \E found \in SUBSET Unwritten : AgentDegrades(a, found)
         \/ CriticalAgentFails(a)
         \/ RiskAgentFails
  PROVE  ReleaseInv'
<1>1. /\ status = "EXECUTING" /\ status' # "COMPLETED"
      /\ UNCHANGED <<reports, copy>>
  BY DEF AgentSucceeds, AgentDegrades, CriticalAgentFails, RiskAgentFails,
     IsNext, Move, reviewVars
<1>2. Unpublished
  BY <1>1, EarlyIsUnpublished DEF Reviewable
<1>3. PublishedInv' /\ CopyInv' /\ ReportsStayTrue' /\ DegradationDisclosed'
  BY <1>1, <1>2, UnpublishedStays
<1>4. CASE CriticalAgentFails(a)
  BY <1>1, <1>2, <1>4, FailedIsSafe DEF CriticalAgentFails, Move
\* The agent's outcome and what the manifest then says of it.
<1>5. ASSUME NEW p \in Specialists, NEW o \in {"OK", "DEGRADED", "FAILED"},
             o = "FAILED" => p \notin Critical, artifacts[p] = "none",
             artifacts' = [artifacts EXCEPT ![p] = o], status' = status,
             degraded' = IF o = "OK" THEN degraded ELSE degraded \union {p}
      PROVE  CriticalInv' /\ AuditInv' /\ DegradedInv'
  <2>1. artifacts \in [Producers -> Outcomes] /\ p \in Producers /\ p # "challenger"
    BY DEF ReleaseInv, TypeOK, Producers, Specialists
  <2>2. CriticalInv' /\ AuditInv'
    BY <1>1, <1>5, <2>1 DEF ReleaseInv, CriticalInv, AuditInv, AfterAudit,
       AfterExecution, Critical, Producers, Specialists
  <2>3. Impaired' = IF o = "OK" THEN Impaired ELSE Impaired \union {p}
    BY <1>5, <2>1 DEF Impaired
  <2> QED
    BY <1>1, <1>5, <2>1, <2>2, <2>3 DEF ReleaseInv, DegradedInv, Producers
<1>6. CASE \E found \in SUBSET Unwritten : AgentSucceeds(a, found)
  BY <1>3, <1>5, <1>6 DEF AgentSucceeds, IsNext, Store, ReleaseInv
<1>7. CASE \E found \in SUBSET Unwritten : AgentDegrades(a, found)
  BY <1>3, <1>5, <1>7 DEF AgentDegrades, IsNext, Store, ReleaseInv
<1>8. CASE RiskAgentFails
  BY <1>3, <1>5, <1>8 DEF RiskAgentFails, IsNext, Store, ReleaseInv,
     Critical, Specialists
<1> QED
  BY <1>4, <1>6, <1>7, <1>8

\* So does the challenger, failed or not.
LEMMA ReleaseChallenge ==
  ASSUME ReleaseInv, TypeOK', UNCHANGED reviewVars,
         (\E found \in SUBSET Unwritten : Challenge(found)) \/ ChallengerFails
  PROVE  ReleaseInv'
<1>1. PICK o \in {"OK", "FAILED"} :
        /\ status = "CHALLENGING" /\ status' = "AUDITING"
        /\ UNCHANGED <<reports, copy>>
        /\ artifacts' = [artifacts EXCEPT !["challenger"] = o]
        /\ degraded' = IF o = "OK" THEN degraded ELSE degraded \union {"challenger"}
  BY DEF Challenge, ChallengerFails, Store, Step, Move, reviewVars
<1>2. PublishedInv' /\ CopyInv' /\ ReportsStayTrue' /\ DegradationDisclosed'
  BY <1>1, EarlyIsUnpublished, UnpublishedStays DEF Reviewable
<1>3. artifacts \in [Producers -> Outcomes] /\ "challenger" \in Producers
      /\ artifacts["challenger"] = "none" /\ degraded = Impaired
  BY <1>1 DEF ReleaseInv, TypeOK, DegradedInv, Producers
<1>4. CriticalInv' /\ AuditInv'
  BY <1>1, <1>3 DEF ReleaseInv, CriticalInv, AuditInv, AfterAudit,
     AfterExecution, BeforeSynthesis, Critical, Producers
<1>5. Impaired' = degraded'
  BY <1>1, <1>3 DEF Impaired
<1> QED
  BY <1>1, <1>2, <1>4, <1>5 DEF ReleaseInv, DegradedInv, BeforeSynthesis

\* So does the audit, which decides between report and review.
LEMMA ReleaseAudit ==
  ASSUME ReleaseInv, TypeOK', UNCHANGED reviewVars,
         NEW verdict \in [Claims -> {"AUDITED", "NEEDS_REWORK", "PENDING"}],
         Audit(verdict)
  PROVE  ReleaseInv'
<1>1. PICK to \in {"REPORTING", "HUMAN_REVIEW"} :
        /\ status = "AUDITING" /\ status' = to
        /\ Move(<<Note("AUDIT_COMPLETED")>>, to)
        /\ to = "REPORTING" => Blocking(claims)' = {}
        /\ UNCHANGED <<degraded, artifacts, reports, copy>>
  BY DEF Audit, Step, Move, reviewVars, Blocking
<1>2. PublishedInv' /\ CopyInv' /\ ReportsStayTrue' /\ DegradationDisclosed'
  <2>1. status \notin Reviewable \union {"COMPLETED"} /\ status' # "COMPLETED"
    BY <1>1 DEF Reviewable
  <2> QED
    BY <1>1, <2>1, EarlyIsUnpublished, UnpublishedStays
<1>3. Audited(events')
  <2> DEFINE n == Note("AUDIT_COMPLETED")
             e == StateChanged(status, status')
  <2>1. events \in Seq(EventSet) /\ n \in EventSet /\ e \in EventSet
    BY EventTypes1 DEF ReleaseInv, TypeOK, EventTypes
  <2>2. n.type = "AUDIT_COMPLETED"
    BY DEF Note
  <2>3. events' = events \o <<n>> \o <<e>>
    BY <1>1 DEF Move
  <2> HIDE DEF n, e
  <2>4. events \o <<n>> \in Seq(EventSet) /\ <<e>> \in Seq(EventSet)
    BY <2>1, ConcatProperties
  <2>5. Len(events) + 1 \in 1..Len(events \o <<n>>)
        /\ (events \o <<n>>)[Len(events) + 1] = n
    BY <2>1
  <2>6. Audited(events \o <<n>>)
    BY <2>2, <2>5 DEF Audited
  <2> QED
    BY <2>3, <2>4, <2>6, AuditedStays
<1>4. CriticalInv' /\ AuditInv' /\ DegradedInv'
  BY <1>1, <1>3 DEF ReleaseInv, CriticalInv, AuditInv, DegradedInv, AfterAudit,
     AfterExecution, BeforeSynthesis, Impaired
<1> QED
  BY <1>2, <1>4 DEF ReleaseInv

\* So does the automatic report.
LEMMA ReleasePublish ==
  ASSUME ReleaseInv, TypeOK', UNCHANGED reviewVars, PublishReport
  PROVE  ReleaseInv'
<1>1. /\ status = "REPORTING" /\ status' = "COMPLETED"
      /\ Move(<<>>, "COMPLETED")
      /\ reports' = Append(reports, Report("VERIFIED_DRAFT", claims))
      /\ UNCHANGED <<degraded, artifacts, claims, copy>>
  BY DEF PublishReport, Step, Move, reviewVars
<1>2. reports = <<>> /\ Blocking(claims) = {} /\ degraded = Impaired
  BY <1>1 DEF ReleaseInv, PublishedInv, AuditInv, DegradedInv
<1>3. Len(reports') = 1 /\ reports'[1] = Report("VERIFIED_DRAFT", claims)
      /\ reports' # <<>>
  BY <1>1, <1>2
<1>4. Audited(events')
  <2>1. <<>> \in Seq(EventSet) /\ "COMPLETED" \in Statuses /\ Audited(events)
    BY <1>1 DEF ReleaseInv, AuditInv, AfterAudit, Statuses, Stopped
  <2> QED
    BY <1>1, <2>1, AuditedMove DEF ReleaseInv
<1>5. CriticalInv' /\ AuditInv' /\ DegradedInv'
  BY <1>1, <1>2, <1>4 DEF ReleaseInv, CriticalInv, AuditInv, DegradedInv,
     AfterAudit, AfterExecution, BeforeSynthesis, Impaired, Blocking
<1>6. PublishedInv' /\ CopyInv'
  BY <1>1, <1>2, <1>3 DEF PublishedInv, CopyInv, Blocking
<1>7. ReportsStayTrue' /\ DegradationDisclosed'
  BY <1>1, <1>2, <1>3 DEF ReportsStayTrue, DegradationDisclosed, Report,
     Publishable, Impaired
<1> QED
  BY <1>5, <1>6, <1>7 DEF ReleaseInv

\* So does every step of the Supervisor.
LEMMA ReleaseSupervise ==
  ASSUME ReleaseInv, TypeOK', UNCHANGED reviewVars, Supervise
  PROVE  ReleaseInv'
<1>1. CASE TaskReturns
  <2>1. UNCHANGED <<status, degraded, artifacts, claims, events, reports, copy>>
    BY <1>1 DEF TaskReturns, reviewVars
  <2> QED
    BY <2>1 DEF ReleaseInv, CriticalInv, AuditInv, PublishedInv, CopyInv,
       DegradedInv, Impaired, Blocking, ReportsStayTrue, DegradationDisclosed,
       Publishable
<1>2. CASE AuditorFails \/ ReportFails
  <2>1. /\ status \notin Reviewable \union {"COMPLETED"} /\ status' = "FAILED"
        /\ UNCHANGED <<reports, copy>>
    BY <1>2 DEF AuditorFails, ReportFails, Move, Reviewable, reviewVars
  <2> QED
    BY <2>1, EarlyIsUnpublished, FailedIsSafe
<1>3. ASSUME RiskAgentFails PROVE ReleaseInv'
  <2>1. "risk" \in Specialists
    BY DEF Specialists
  <2> QED
    BY <1>3, <2>1, ReleaseAgent
<1> QED
  BY <1>1, <1>2, <1>3, ReleaseAdvance, ReleaseAgent, ReleaseChallenge,
     ReleaseAudit, ReleasePublish DEF Supervise

\* So do the marking of failures and the faults.
LEMMA ReleaseFaults ==
  ASSUME ReleaseInv, TypeOK', UNCHANGED reviewVars,
         Mark \/ TaskRaises \/ TaskCancelled \/ MarkLost \/ ProcessDies
  PROVE  ReleaseInv'
<1>1. CASE UNCHANGED <<status, events>>
  <2>1. UNCHANGED <<degraded, artifacts, claims, reports, copy>>
    BY DEF Mark, MarkAfterException, MarkAfterCancellation, TaskRaises,
       TaskCancelled, MarkLost, ProcessDies, reviewVars
  <2> QED
    BY <1>1, <2>1 DEF ReleaseInv, CriticalInv, AuditInv, PublishedInv, CopyInv,
       DegradedInv, Impaired, Blocking, ReportsStayTrue, DegradationDisclosed,
       Publishable
<1>2. CASE ~ UNCHANGED <<status, events>>
  <2>1. /\ status \notin Stopped /\ status' = "FAILED"
        /\ UNCHANGED <<reports, copy>>
    BY <1>2 DEF Mark, MarkAfterException, MarkAfterCancellation, MarkFailed,
       TaskRaises, TaskCancelled, MarkLost, ProcessDies, reviewVars
  <2>2. status \notin Reviewable \union {"COMPLETED"}
    BY <2>1 DEF Stopped, Reviewable
  <2> QED
    BY <2>1, <2>2, EarlyIsUnpublished, FailedIsSafe
<1> QED
  BY <1>1, <1>2

\* Whatever copy it is made from, a decision meets a run past its audit, and
\* once nothing blocks the report it cannot change a claim.
LEMMA DecideMeets ==
  ASSUME ReleaseInv, NEW r \in Reviewers, Decide(r)
  PROVE  /\ status \in Reviewable \union {"COMPLETED"}
         /\ Held(r).status \in Reviewable
         /\ Blocking(claims) = {} => claims' = claims
<1>1. Held(r).status \in Reviewable
  BY DEF Decide, Admissible
<1>2. status \in Reviewable \union {"COMPLETED"}
  BY <1>1 DEF Decide, Locked, Held, Row, ReleaseInv, CopyInv
<1>3. ASSUME Blocking(claims) = {} PROVE claims' = claims
  <2>1. request[r].action \notin Rulings
    BY <1>3 DEF Decide, Admissible
  <2>2. RuledOn(request[r]) = claims
    BY <2>1 DEF RuledOn, Rulings
  <2> QED
    BY <2>2 DEF Decide
<1> QED
  BY <1>1, <1>2, <1>3

\* The two ways a decision leaves the run.
LEMMA DecideLeaves ==
  ASSUME ReleaseInv, NEW r \in Reviewers, Decide(r)
  PROVE  \/ /\ status' = "COMPLETED" /\ Blocking(claims)' = {}
            /\ reports' = Append(reports, Report("APPROVED_DRAFT", claims'))
         \/ /\ status' \in {status, "REWORK"} /\ reports' = reports
<1> DEFINE q == request[r]
           m == Moves(q, Held(r).status)
<1>1. /\ m # <<>> => m[Len(m)].to = (IF Closes(q) THEN "COMPLETED" ELSE "REWORK")
      /\ Closes(q) => m # <<>>
  BY DecideMeets, MovesType
<1>2. /\ status' = IF m = <<>> THEN status ELSE m[Len(m)].to
      /\ reports' = IF Closes(q)
                    THEN Append(reports, Report("APPROVED_DRAFT", claims'))
                    ELSE reports
      /\ claims' = RuledOn(q)
  BY DEF Decide
<1>3. Closes(q) => Blocking(claims)' = {}
  BY <1>2 DEF Closes, Blocking
<1> QED
  BY <1>1, <1>2, <1>3

\* A decision is only ever taken on an audited run.
LEMMA DecideAudited ==
  ASSUME TypeOK, NEW r \in Reviewers, Decide(r), Audited(events)
  PROVE  Audited(events')
<1>1. Held(r).status \in Reviewable
  BY DEF Decide, Admissible
<1>2. Moves(request[r], Held(r).status) \in Seq(EventSet)
  BY <1>1, MovesType
<1>3. /\ <<Note("HUMAN_DECISION")>> \in Seq(EventSet)
      /\ <<Note("HUMAN_REVIEW_PENDING")>> \in Seq(EventSet)
  BY EventTypes1 DEF EventTypes
<1>4. PICK more \in Seq(EventSet) :
        events' = events \o <<Note("HUMAN_DECISION")>> \o more
  BY <1>2, <1>3 DEF Decide
<1>5. /\ events \o <<Note("HUMAN_DECISION")>> \in Seq(EventSet)
      /\ Audited(events \o <<Note("HUMAN_DECISION")>>)
  BY <1>3, AuditedStays, ConcatProperties DEF TypeOK
<1> QED
  BY <1>4, <1>5, AuditedStays

\* An accepted decision keeps the invariant, from whatever copy it was taken.
LEMMA ReleaseDecide ==
  ASSUME ReleaseInv, TypeOK', NEW r \in Reviewers, Decide(r)
  PROVE  ReleaseInv'
<1>1. /\ status \in AfterAudit /\ status' \in AfterAudit \ {"REPORTING"}
      /\ status \in Reviewable \union {"COMPLETED"}
      /\ status' \in Reviewable \union {"COMPLETED"}
  BY DecideMeets, DecideLeaves DEF AfterAudit, Reviewable
<1>2. UNCHANGED <<degraded, artifacts>>
  BY DEF Decide
<1>3. degraded = Impaired /\ UNCHANGED Impaired
  BY <1>1, <1>2 DEF ReleaseInv, DegradedInv, Impaired, Reviewable
<1>4. CriticalInv' /\ DegradedInv'
  BY <1>1, <1>2, <1>3 DEF ReleaseInv, CriticalInv, DegradedInv, AfterExecution,
     AfterAudit, BeforeSynthesis
<1>5. status' = "COMPLETED" => Blocking(claims)' = {}
  <2>1. status = "COMPLETED" => claims' = claims /\ Blocking(claims) = {}
    BY DecideMeets DEF ReleaseInv, AuditInv
  <2> QED
    BY <2>1, DecideLeaves DEF Blocking
<1>6. AuditInv'
  <2>1. Audited(events')
    BY <1>1, DecideAudited DEF ReleaseInv, AuditInv
  <2> QED
    BY <1>1, <1>5, <2>1 DEF AuditInv
<1>7. CopyInv'
  BY <1>1 DEF CopyInv
<1>8. reports # <<>> => claims' = claims /\ Blocking(claims) = {}
  BY DecideMeets DEF ReleaseInv, PublishedInv
<1>9. CASE reports' = reports
  <2>1. PublishedInv'
    <3>1. status' \in {status, "REWORK"} \/ reports' # reports
      <4>1. reports \in Seq(ReportSet)
        BY DEF ReleaseInv, TypeOK
      <4>2. Append(reports, Report("APPROVED_DRAFT", claims')) # reports
        BY <4>1
      <4> QED
        BY <4>2, DecideLeaves
    <3> QED
      BY <1>8, <1>9, <3>1 DEF ReleaseInv, PublishedInv, Blocking
  <2>2. ReportsStayTrue'
    BY <1>8, <1>9 DEF ReleaseInv, ReportsStayTrue, TypeOK, Publishable
  <2>3. DegradationDisclosed'
    BY <1>2, <1>9 DEF ReleaseInv, DegradationDisclosed
  <2> QED
    BY <1>4, <1>6, <1>7, <2>1, <2>2, <2>3 DEF ReleaseInv
<1>10. CASE /\ status' = "COMPLETED" /\ Blocking(claims)' = {}
            /\ reports' = Append(reports, Report("APPROVED_DRAFT", claims'))
  <2> DEFINE new == Report("APPROVED_DRAFT", claims')
  <2>1. new.claims = Publishable(claims)' /\ new.degraded = degraded
    BY DEF Report, Publishable
  <2>2. reports \in Seq(ReportSet)
    BY DEF ReleaseInv, TypeOK
  <2> HIDE DEF new
  <2>3. /\ Len(reports') = Len(reports) + 1 /\ Len(reports) \in Nat
        /\ \A i \in 1..Len(reports) : reports'[i] = reports[i]
        /\ reports'[Len(reports) + 1] = new /\ reports' # <<>>
    BY <1>10, <2>2 DEF new
  <2>4. PublishedInv'
    BY <1>10, <2>3 DEF PublishedInv
  <2>5. ReportsStayTrue'
    <3> SUFFICES ASSUME NEW i \in 1..Len(reports')
                 PROVE  reports'[i].claims = Publishable(claims)'
      BY DEF ReportsStayTrue
    <3>1. CASE i \in 1..Len(reports)
      <4>1. claims' = claims
        BY <1>8, <2>2, <3>1
      <4> QED
        BY <2>3, <3>1, <4>1 DEF ReleaseInv, ReportsStayTrue, Publishable
    <3>2. CASE i = Len(reports) + 1
      BY <2>1, <2>3, <3>2
    <3> QED
      BY <2>3, <3>1, <3>2
  <2>6. DegradationDisclosed'
    <3> SUFFICES ASSUME NEW i \in 1..Len(reports')
                 PROVE  reports'[i].degraded = Impaired'
      BY DEF DegradationDisclosed, Impaired
    <3>1. CASE i \in 1..Len(reports)
      BY <1>3, <2>3, <3>1 DEF ReleaseInv, DegradationDisclosed, Impaired
    <3>2. CASE i = Len(reports) + 1
      BY <1>3, <2>1, <2>3, <3>2
    <3> QED
      BY <2>3, <3>1, <3>2
  <2> QED
    BY <1>4, <1>6, <1>7, <2>4, <2>5, <2>6 DEF ReleaseInv
<1> QED
  BY <1>9, <1>10, DecideLeaves

\* So does every step of a reviewer.
LEMMA ReleaseReview ==
  ASSUME ReleaseInv, TypeOK', NEW r \in Reviewers,
         \/ Compose(r) \/ Resend(r) \/ Load(r) \/ Forbid(r)
         \/ Duplicate(r) \/ Refuse(r) \/ RollBack(r)
  PROVE  ReleaseInv'
<1>1. UNCHANGED runVars
  BY DEF Compose, Resend, Load, Forbid, Duplicate, Refuse, RollBack
<1>2. /\ CriticalInv' /\ AuditInv' /\ PublishedInv' /\ DegradedInv'
      /\ ReportsStayTrue' /\ DegradationDisclosed'
  BY <1>1 DEF runVars, ReleaseInv, CriticalInv, AuditInv, PublishedInv,
     DegradedInv, Impaired, Blocking, ReportsStayTrue, DegradationDisclosed,
     Publishable
<1>3. CopyInv'
  <2>1. copy' = copy \/ copy' = [copy EXCEPT ![r] = NoRow]
        \/ copy' = [copy EXCEPT ![r] = Row]
    BY DEF Compose, Resend, Load, Forbid, Duplicate, Refuse, RollBack, Answer
  <2>2. copy \in [Reviewers -> RowSet \union {NoRow}] /\ Row.status = status
    BY DEF ReleaseInv, TypeOK, Row
  <2> QED
    BY <1>1, <2>1, <2>2 DEF ReleaseInv, CopyInv, runVars
<1> QED
  BY <1>2, <1>3 DEF ReleaseInv

\* The strengthened invariant is inductive.
LEMMA ReleaseNext ==
  ASSUME ReleaseInv, [Next]_vars
  PROVE  ReleaseInv'
<1>1. TypeOK'
  BY TypeNext DEF ReleaseInv
<1>2. CASE RunNext /\ UNCHANGED reviewVars
  BY <1>1, <1>2, ReleaseSupervise, ReleaseFaults DEF RunNext
<1>3. CASE Review
  BY <1>1, <1>3, ReleaseReview, ReleaseDecide DEF Review
<1>4. CASE UNCHANGED vars
  BY <1>1, <1>4 DEF vars, runVars, reviewVars, ReleaseInv, CriticalInv, AuditInv,
     PublishedInv, CopyInv, DegradedInv, Impaired, Blocking, ReportsStayTrue,
     DegradationDisclosed, Publishable
<1> QED
  BY <1>2, <1>3, <1>4 DEF Next

\* The strengthened invariant holds in every reachable state.
LEMMA ReleaseInvariant == Spec => []ReleaseInv
BY ReleaseInit, ReleaseNext, PTL DEF Spec

\* No run completes before both critical agents succeeded, the audit ran, every
\* claim was let through or ruled on and a report is stored: not by a late
\* cancellation, a lost marking, a resent decision or a stale copy of the row.
THEOREM RunsPassTheGate == Spec => []ReleaseGate
<1>1. ReleaseInv => ReleaseGate
  BY DEF ReleaseInv, CriticalInv, AuditInv, PublishedInv, ReleaseGate,
     AfterExecution, AfterAudit, Audited
<1> QED
  BY <1>1, ReleaseInvariant, PTL

\* Every report version ever stored lists exactly the claims that are publishable
\* now: no later decision falsifies a published report.
THEOREM PublishedReportsStayTrue == Spec => []ReportsStayTrue
<1>1. ReleaseInv => ReportsStayTrue
  BY DEF ReleaseInv
<1> QED
  BY <1>1, ReleaseInvariant, PTL

\* Every report names exactly the agents that failed or degraded in its run.
THEOREM ImpairmentIsDisclosed == Spec => []DegradationDisclosed
<1>1. ReleaseInv => DegradationDisclosed
  BY DEF ReleaseInv
<1> QED
  BY <1>1, ReleaseInvariant, PTL

---------------------------------------------------------------------------
(* Idempotency: decisions are stored once and never change, so an answer    *)
(* stays true.                                                             *)

AnswersInv ==
  /\ TypeOK /\ AnsweredMeansStored
  /\ \A r \in Reviewers : reply[r] # "none" => request[r] # NoRequest

\* The run and its faults leave the reviewers' state alone.
LEMMA RunKeepsReview ==
  ASSUME RunNext /\ UNCHANGED reviewVars
  PROVE  UNCHANGED <<decisions, request, reply>>
BY DEF reviewVars

\* Answers stay true in every step: stored requests are never replaced.
LEMMA AnswersNext ==
  ASSUME AnswersInv, [Next]_vars
  PROVE  AnswersInv'
<1> USE AbsenceAssumption
<1>1. TypeOK'
  BY TypeNext DEF AnswersInv
<1>2. CASE UNCHANGED <<decisions, request, reply>>
  BY <1>1, <1>2 DEF AnswersInv, AnsweredMeansStored
<1>3. ASSUME NEW r \in Reviewers, Compose(r) \/ Resend(r) PROVE AnswersInv'
  <2>1. /\ reply' = [reply EXCEPT ![r] = "none"] /\ decisions' = decisions
        /\ \A s \in Reviewers \ {r} : request'[s] = request[s]
    BY <1>3 DEF Compose, Resend, AnswersInv, TypeOK
  <2> QED
    BY <1>1, <2>1 DEF AnswersInv, AnsweredMeansStored, TypeOK
<1>4. ASSUME NEW r \in Reviewers,
             Forbid(r) \/ Duplicate(r) \/ Refuse(r) \/ RollBack(r)
      PROVE  AnswersInv'
  <2>1. PICK answer \in {"refused", "replayed"} :
          /\ reply' = [reply EXCEPT ![r] = answer]
          /\ UNCHANGED <<decisions, request>> /\ request[r] # NoRequest
          /\ answer = "replayed" => decisions[request[r].key] = request[r]
    BY <1>4 DEF Forbid, Duplicate, Refuse, RollBack, Answer, Locked, Waiting
  <2> QED
    BY <1>1, <2>1 DEF AnswersInv, AnsweredMeansStored, TypeOK
<1>5. ASSUME NEW r \in Reviewers, Decide(r) PROVE AnswersInv'
  <2>1. request[r] \in RequestSet /\ request[r].key \in Keys
    BY <1>5, DecideFinds DEF AnswersInv, Decide, RequestSet
  <2>2. /\ decisions' = [decisions EXCEPT ![request[r].key] = request[r]]
        /\ decisions[request[r].key] = NoRequest
        /\ reply' = [reply EXCEPT ![r] = "applied"] /\ request' = request
    BY <1>5 DEF Decide, Answer
  <2>3. ASSUME NEW s \in Reviewers, s # r, reply[s] \in {"applied", "replayed"}
        PROVE  request[s].key # request[r].key
    BY <2>2, <2>3 DEF AnswersInv, AnsweredMeansStored
  <2> QED
    BY <1>1, <2>1, <2>2, <2>3 DEF AnswersInv, AnsweredMeansStored, TypeOK
<1>6. ASSUME NEW r \in Reviewers, Load(r) PROVE AnswersInv'
  BY <1>2, <1>6 DEF Load
<1>7. CASE UNCHANGED vars
  BY <1>2, <1>7 DEF vars, reviewVars
<1> QED
  BY <1>2, <1>3, <1>4, <1>5, <1>6, <1>7, RunKeepsReview DEF Next, Review

\* A client told that its request was applied or replayed finds that request
\* stored under its key, and no later request of any client replaces it.
THEOREM AnswersStayTrue == Spec => []AnsweredMeansStored
<1>1. Init => AnswersInv
  BY TypeInit DEF Init, ReviewInit, AnswersInv, AnsweredMeansStored
<1>2. AnswersInv => AnsweredMeansStored
  BY DEF AnswersInv
<1> QED
  BY <1>1, <1>2, AnswersNext, PTL DEF Spec

---------------------------------------------------------------------------
(* Verdicts: a ruling is stored with the claims it changes, and only a claim *)
(* that no ruling has settled can be ruled on.                              *)

VerdictInv ==
  /\ ReleaseInv /\ VerdictsHaveOneDecision
  /\ status \notin Reviewable \union {"COMPLETED"} => \A k \in Keys : decisions[k] = NoRequest

\* A claim that blocks the report has no stored ruling.
LEMMA BlockingIsUnruled ==
  ASSUME VerdictInv, NEW c \in Blocking(claims)
  PROVE  RulingsOn(c, Rulings) = {}
<1>1. RulingsOn(c, {"APPROVE_CLAIM"}) = {} /\ RulingsOn(c, {"REJECT_CLAIM"}) = {}
  BY DEF VerdictInv, VerdictsHaveOneDecision, Blocking
<1> QED
  BY <1>1 DEF RulingsOn, Rulings

\* A step that stores no decision and gives no verdict keeps the verdicts.
LEMMA VerdictsStay ==
  ASSUME VerdictInv, ReleaseInv', UNCHANGED decisions,
         \A c \in Claims : \/ claims'[c] = claims[c]
                           \/ /\ claims[c] \notin {"HUMAN_APPROVED", "HUMAN_REJECTED"}
                              /\ claims'[c] \notin {"HUMAN_APPROVED", "HUMAN_REJECTED"},
         status \in Reviewable \union {"COMPLETED"} => status' \in Reviewable \union {"COMPLETED"}
  PROVE  VerdictInv'
<1>1. \A kinds : \A c \in Claims : RulingsOn(c, kinds)' = RulingsOn(c, kinds)
  BY DEF RulingsOn
<1> QED
  BY <1>1 DEF VerdictInv, VerdictsHaveOneDecision

\* The Supervisor and the faults leave the verdicts alone: once there is one
\* the run is out of their hands.
LEMMA RunKeepsVerdicts ==
  ASSUME VerdictInv, ReleaseInv', RunNext, UNCHANGED reviewVars
  PROVE  VerdictInv'
<1>1. CASE status \in Reviewable \union {"COMPLETED"}
  <2>1. claims' = claims /\ status' = status
    BY <1>1 DEF RunNext, Supervise, Mark, Authorize, StartValidation, CaseMissing,
       CaseUnbound, Plan, StartExecution, Synthesize, StartChallenge, Advance, IsNext,
       AgentSucceeds, AgentDegrades, CriticalAgentFails, RiskAgentFails,
       Challenge, ChallengerFails, Audit, AuditorFails, PublishReport, ReportFails,
       TaskReturns, TaskRaises, TaskCancelled, MarkLost, ProcessDies,
       MarkAfterException, MarkAfterCancellation, MarkFailed, Reviewable, Stopped
  <2> QED
    BY <1>1, <2>1, VerdictsStay DEF reviewVars
<1>2. CASE status \notin Reviewable \union {"COMPLETED"}
  <2>1. \A c \in Claims : claims[c] \notin {"HUMAN_APPROVED", "HUMAN_REJECTED"}
    BY <1>2 DEF VerdictInv, VerdictsHaveOneDecision, RulingsOn
  <2>2. \A c \in Claims : claims'[c] \in {claims[c], "PENDING", "AUDITED", "NEEDS_REWORK", "absent"}
    BY DEF RunNext, Supervise, Mark, Authorize, StartValidation, CaseMissing,
       CaseUnbound, Plan, StartExecution, Synthesize, StartChallenge, Advance, Store,
       AgentSucceeds, AgentDegrades, CriticalAgentFails, RiskAgentFails,
       Challenge, ChallengerFails, Audit, AuditorFails, PublishReport, ReportFails,
       TaskReturns, TaskRaises, TaskCancelled, MarkLost, ProcessDies,
       MarkAfterException, MarkAfterCancellation
  <2> QED
    BY <1>2, <2>1, <2>2, VerdictsStay DEF reviewVars
<1> QED
  BY <1>1, <1>2

\* A decision is the first ruling on every claim it rules on.
LEMMA DecideRulesOnce ==
  ASSUME VerdictInv, ReleaseInv', NEW r \in Reviewers, Decide(r)
  PROVE  VerdictInv'
<1> USE AbsenceAssumption
<1> DEFINE q == request[r]
<1>1. q \in RequestSet /\ q # NoRequest /\ q.key \in Keys
  BY DecideFinds DEF Decide, VerdictInv, ReleaseInv, RequestSet
<1>2. decisions[q.key] = NoRequest /\ decisions' = [decisions EXCEPT ![q.key] = q]
  BY DEF Decide
<1>3. claims \in [Claims -> ReviewStatuses \union {"absent"}]
      /\ decisions \in [Keys -> RequestSet \union {NoRequest}]
  BY DEF VerdictInv, ReleaseInv, TypeOK
<1>4. q.action \in Rulings => q.targets \subseteq Blocking(claims)
  BY DEF Decide, Admissible
<1>5. claims' = RuledOn(q)
  BY DEF Decide
<1>6. \A kinds : \A c \in Claims : RulingsOn(c, kinds)' =
        RulingsOn(c, kinds)
          \union (IF q.action \in kinds /\ c \in q.targets THEN {q.key} ELSE {})
  BY <1>1, <1>2, <1>3 DEF RulingsOn
<1>7. ASSUME NEW c \in Claims
      PROVE  /\ \A k1, k2 \in RulingsOn(c, Rulings)' : k1 = k2
             /\ (claims'[c] = "HUMAN_APPROVED") <=> RulingsOn(c, {"APPROVE_CLAIM"})' # {}
             /\ (claims'[c] = "HUMAN_REJECTED") <=> RulingsOn(c, {"REJECT_CLAIM"})' # {}
  <2>0. /\ \A k1, k2 \in RulingsOn(c, Rulings) : k1 = k2
        /\ (claims[c] = "HUMAN_APPROVED") <=> RulingsOn(c, {"APPROVE_CLAIM"}) # {}
        /\ (claims[c] = "HUMAN_REJECTED") <=> RulingsOn(c, {"REJECT_CLAIM"}) # {}
    BY DEF VerdictInv, VerdictsHaveOneDecision
  <2>1. CASE q.action \in Rulings /\ c \in q.targets
    <3>1. RulingsOn(c, Rulings) = {}
      BY <1>4, <2>1, BlockingIsUnruled
    <3>2. RulingsOn(c, {"APPROVE_CLAIM"}) = {} /\ RulingsOn(c, {"REJECT_CLAIM"}) = {}
      BY <3>1 DEF RulingsOn, Rulings
    <3>3. claims'[c] = IF q.action = "APPROVE_CLAIM" THEN "HUMAN_APPROVED" ELSE "HUMAN_REJECTED"
      BY <1>5, <2>1 DEF RuledOn, Rulings
    <3> QED
      BY <1>6, <2>1, <3>1, <3>2, <3>3 DEF Rulings
  <2>2. CASE ~ (q.action \in Rulings /\ c \in q.targets)
    <3>1. claims'[c] = claims[c]
      BY <1>3, <1>5, <2>2 DEF RuledOn, Rulings
    <3>2. /\ RulingsOn(c, Rulings)' = RulingsOn(c, Rulings)
          /\ RulingsOn(c, {"APPROVE_CLAIM"})' = RulingsOn(c, {"APPROVE_CLAIM"})
          /\ RulingsOn(c, {"REJECT_CLAIM"})' = RulingsOn(c, {"REJECT_CLAIM"})
      BY <1>6, <2>2 DEF Rulings
    <3> QED
      BY <2>0, <3>1, <3>2
  <2> QED
    BY <2>1, <2>2
<1>8. status' \in Reviewable \union {"COMPLETED"}
  BY DecideMeets, DecideLeaves DEF VerdictInv, Reviewable
<1> QED
  BY <1>7, <1>8 DEF VerdictInv, VerdictsHaveOneDecision

\* A human verdict on a claim comes from exactly one stored decision, however
\* often it was sent and whatever copy of the run it was decided from.
THEOREM VerdictsAreSingle == Spec => []VerdictsHaveOneDecision
<1>1. Init => VerdictInv
  BY ReleaseInit DEF Init, RunInit, ReviewInit, VerdictInv, VerdictsHaveOneDecision, RulingsOn
<1>2. ASSUME VerdictInv, [Next]_vars PROVE VerdictInv'
  <2>1. ReleaseInv'
    BY <1>2, ReleaseNext DEF VerdictInv
  <2>2. CASE RunNext /\ UNCHANGED reviewVars
    BY <1>2, <2>1, <2>2, RunKeepsVerdicts
  <2>3. ASSUME NEW r \in Reviewers, Decide(r) PROVE VerdictInv'
    BY <1>2, <2>1, <2>3, DecideRulesOnce
  <2>4. ASSUME NEW r \in Reviewers,
               \/ Compose(r) \/ Resend(r) \/ Load(r) \/ Forbid(r)
               \/ Duplicate(r) \/ Refuse(r) \/ RollBack(r)
        PROVE  VerdictInv'
    <3>1. UNCHANGED <<decisions, claims, status>>
      BY <2>4 DEF Compose, Resend, Load, Forbid, Duplicate, Refuse, RollBack, runVars
    <3> QED
      BY <1>2, <2>1, <3>1, VerdictsStay
  <2>5. CASE UNCHANGED vars
    BY <1>2, <2>1, <2>5, VerdictsStay DEF vars, runVars, reviewVars
  <2> QED
    BY <1>2, <2>2, <2>3, <2>4, <2>5 DEF Next, Review
<1>3. VerdictInv => VerdictsHaveOneDecision
  BY DEF VerdictInv
<1> QED
  BY <1>1, <1>2, <1>3, PTL DEF Spec

---------------------------------------------------------------------------
(* The trace.  Every step appends events one after the other, and each of   *)
(* them either says nothing of the status or moves it from where it is.     *)

\* What the events before the last lead to does not depend on the last.
LEMMA AppendLeads ==
  ASSUME NEW es \in Seq(EventSet), NEW e \in EventSet, NEW n \in 0..Len(es), NEW s
  PROVE  LeadsTo(Append(es, e), n, s) <=> LeadsTo(es, n, s)
<1>1. \A i \in 1..Len(es) : Append(es, e)[i] = es[i]
  OBVIOUS
<1>2. \A i \in 1..n : i \in 1..Len(es) /\ \A j \in (i + 1)..n : j \in 1..Len(es)
  OBVIOUS
<1> QED
  BY <1>1, <1>2 DEF LeadsTo

\* An event that moves nothing leaves a trace explaining the same status, and
\* one that moves from there, or from nowhere, makes it explain where it moves.
LEMMA AppendExplains ==
  ASSUME NEW es \in Seq(EventSet), NEW e \in EventSet, NEW s, Explains(es, s)
  PROVE  /\ e.to = "-" => Explains(Append(es, e), s)
         /\ e.to # "-" /\ e.from \in {"-", s} => Explains(Append(es, e), e.to)
<1> DEFINE more == Append(es, e)
           len == Len(es)
<1>1. /\ len \in Nat /\ Len(more) = len + 1 /\ more[len + 1] = e
      /\ \A i \in 1..len : more[i] = es[i]
  OBVIOUS
<1>2. \A n \in 0..len : \A w : LeadsTo(more, n, w) <=> LeadsTo(es, n, w)
  BY AppendLeads
<1> HIDE DEF more, len
<1>3. \A n \in 1..len : more[n].to # "-" =>
        more[n].from = "-" \/ LeadsTo(more, n - 1, more[n].from)
  <2> SUFFICES ASSUME NEW n \in 1..len, more[n].to # "-"
               PROVE  more[n].from = "-" \/ LeadsTo(more, n - 1, more[n].from)
    OBVIOUS
  <2>1. n - 1 \in 0..len
    BY <1>1
  <2> QED
    BY <1>1, <1>2, <2>1 DEF Explains, len
<1>4. LeadsTo(more, len, s)
  BY <1>1, <1>2 DEF Explains, len
<1>5. ASSUME e.to = "-" PROVE Explains(more, s)
  <2>1. LeadsTo(more, len + 1, s)
    <3>1. \A j \in (len + 1)..(len + 1) : more[j].to = "-"
      BY <1>1, <1>5
    <3>2. CASE s = "RECEIVED" /\ \A i \in 1..len : more[i].to = "-"
      BY <1>1, <1>5, <3>2 DEF LeadsTo
    <3>3. CASE \E i \in 1..len : more[i].to = s /\ s # "-" /\ \A j \in (i + 1)..len : more[j].to = "-"
      <4>1. PICK i \in 1..len : more[i].to = s /\ s # "-" /\ \A j \in (i + 1)..len : more[j].to = "-"
        BY <3>3
      <4>2. i \in 1..(len + 1) /\ \A j \in (i + 1)..(len + 1) : j = len + 1 \/ j \in (i + 1)..len
        BY <1>1
      <4> QED
        BY <1>1, <1>5, <4>1, <4>2 DEF LeadsTo
    <3> QED
      BY <1>4, <3>2, <3>3 DEF LeadsTo
  <2> QED
    BY <1>1, <1>3, <1>5, <2>1 DEF Explains
<1>6. ASSUME e.to # "-", e.from \in {"-", s} PROVE Explains(more, e.to)
  <2>1. len + 1 \in 1..(len + 1) /\ \A j \in (len + 2)..(len + 1) : FALSE
    BY <1>1
  <2>2. LeadsTo(more, len + 1, e.to)
    BY <1>1, <1>6, <2>1 DEF LeadsTo
  <2>3. e.from = "-" \/ LeadsTo(more, (len + 1) - 1, e.from)
    BY <1>1, <1>4, <1>6
  <2> QED
    BY <1>1, <1>3, <2>2, <2>3 DEF Explains
<1> QED
  BY <1>5, <1>6 DEF more

\* Events appended together are appended one after the other.
LEMMA OneByOne ==
  ASSUME NEW es \in Seq(EventSet), NEW a \in EventSet, NEW b \in EventSet
  PROVE  es \o <<a, b>> = es \o <<a>> \o <<b>>
<1>1. \A s \in Seq(EventSet), e \in EventSet : s \o <<e>> = Append(s, e)
  OBVIOUS
<1>2. Append(es, a) \in Seq(EventSet)
  OBVIOUS
<1>3. es \o <<a, b>> = Append(Append(es, a), b)
  OBVIOUS
<1> QED
  BY <1>1, <1>2, <1>3

\* The events of the model, appended to a trace that explains a status.
LEMMA EventsExplain ==
  ASSUME NEW es \in Seq(EventSet), NEW s \in Statuses, Explains(es, s)
  PROVE  /\ \A t \in EventTypes : Explains(es \o <<Note(t)>>, s)
         /\ \A t \in EventTypes : Explains(Append(es, Background(t)), "FAILED")
         /\ \A to \in Statuses : Explains(es \o <<StateChanged(s, to)>>, to)
<1>1. \A e \in EventSet : es \o <<e>> = Append(es, e)
  OBVIOUS
<1>2. "-" \notin Statuses
  BY DEF Statuses, Stopped
<1>3. ASSUME NEW t \in EventTypes
      PROVE  Explains(es \o <<Note(t)>>, s) /\ Explains(Append(es, Background(t)), "FAILED")
  <2>1. /\ Note(t) \in EventSet /\ Note(t).to = "-"
        /\ Background(t) \in EventSet /\ Background(t).from = "-" /\ Background(t).to = "FAILED"
    BY EventTypes1 DEF Note, Background
  <2> QED
    BY <1>1, <2>1, AppendExplains
<1>4. ASSUME NEW to \in Statuses PROVE Explains(es \o <<StateChanged(s, to)>>, to)
  <2>1. /\ StateChanged(s, to) \in EventSet
        /\ StateChanged(s, to).from = s /\ StateChanged(s, to).to = to
    BY EventTypes1 DEF StateChanged
  <2> QED
    BY <1>1, <1>2, <2>1, AppendExplains
<1> QED
  BY <1>3, <1>4

\* A move explains the status it moves to.
LEMMA MoveExplains ==
  ASSUME TypeOK, TraceExplainsStatus, NEW to \in Statuses, NEW notes, Move(notes, to),
         notes = <<>> \/ \E t \in EventTypes : notes = <<Note(t)>>
  PROVE  TraceExplainsStatus'
<1>1. events \o notes \in Seq(EventSet) /\ Explains(events \o notes, status)
  <2>1. CASE notes = <<>>
    BY <2>1 DEF TypeOK, TraceExplainsStatus
  <2>2. ASSUME NEW t \in EventTypes, notes = <<Note(t)>>
        PROVE  events \o notes \in Seq(EventSet) /\ Explains(events \o notes, status)
    <3>1. <<Note(t)>> \in Seq(EventSet)
      BY EventTypes1
    <3> QED
      BY <2>2, <3>1, EventsExplain, ConcatProperties DEF TypeOK, TraceExplainsStatus
  <2> QED
    BY <2>1, <2>2
<1> QED
  BY <1>1, EventsExplain DEF Move, TypeOK, TraceExplainsStatus

\* Every step of the run keeps the trace an explanation of the status.
LEMMA RunExplains ==
  ASSUME TypeOK, TraceExplainsStatus, RunNext
  PROVE  TraceExplainsStatus'
<1> USE DEF TypeOK
<1>0. \A t \in EventTypes : Explains(events \o <<Note(t)>>, status)
  BY EventsExplain DEF TraceExplainsStatus
<1>1. ASSUME \E to \in Statuses : Move(<<>>, to)
                \/ \E t \in EventTypes : Move(<<Note(t)>>, to)
      PROVE  TraceExplainsStatus'
  BY <1>1, MoveExplains
<1>2. ASSUME UNCHANGED <<events, status>> PROVE TraceExplainsStatus'
  BY <1>2 DEF TraceExplainsStatus
<1>3. ASSUME NEW t \in EventTypes, events' = Append(events, Note(t)), status' = status
      PROVE  TraceExplainsStatus'
  <2>1. events' = events \o <<Note(t)>>
    BY <1>3, EventTypes1
  <2> QED
    BY <1>0, <1>3, <2>1 DEF TraceExplainsStatus
<1>4. ASSUME NEW t \in EventTypes, MarkFailed(t) PROVE TraceExplainsStatus'
  BY <1>4, EventsExplain DEF MarkFailed, TraceExplainsStatus
<1>5. ASSUME NEW a \in Specialists, NEW found, AgentDegrades(a, found) PROVE TraceExplainsStatus'
  <2>1. "TASK_COMPLETED" \in EventTypes /\ "TASK_DEGRADED" \in EventTypes
    BY DEF EventTypes
  <2>2. <<Note("TASK_COMPLETED")>> \in Seq(EventSet) /\ Note("TASK_DEGRADED") \in EventSet
    BY <2>1, EventTypes1
  <2>3. events' = (events \o <<Note("TASK_COMPLETED")>>) \o <<Note("TASK_DEGRADED")>>
    BY <1>5, <2>1, EventTypes1, OneByOne DEF AgentDegrades
  <2>4. events \o <<Note("TASK_COMPLETED")>> \in Seq(EventSet)
    BY <2>2, ConcatProperties
  <2> QED
    BY <1>0, <1>5, <2>1, <2>3, <2>4, EventsExplain DEF AgentDegrades, TraceExplainsStatus
<1>6. /\ \A s \in {"AUTHORIZED", "VALIDATING_CASE", "DATA_QUALITY_BLOCKED", "NEED_MORE_INFO",
                   "PLANNING", "EXECUTING", "SYNTHESIZING", "CHALLENGING", "AUDITING",
                   "HUMAN_REVIEW", "REPORTING", "COMPLETED", "FAILED"} : s \in Statuses
      /\ \A t \in {"TASK_COMPLETED", "TASK_FAILED", "AUDIT_COMPLETED", "AUDIT_FAILED",
                   "REPORT_FAILED", "BACKGROUND_FAILED", "BACKGROUND_CANCELLED"} : t \in EventTypes
  BY DEF Statuses, Stopped, EventTypes
<1>7. CASE Authorize \/ StartValidation \/ CaseMissing \/ CaseUnbound \/ Plan
           \/ StartExecution \/ Synthesize \/ StartChallenge
  BY <1>1, <1>6, <1>7 DEF Authorize, StartValidation, CaseMissing, CaseUnbound, Plan,
     StartExecution, Synthesize, StartChallenge, Advance, Step
<1>8. CASE (\E a \in Specialists : CriticalAgentFails(a)) \/ ChallengerFails \/ AuditorFails
           \/ ReportFails \/ PublishReport \/ \E found \in SUBSET Unwritten : Challenge(found)
  BY <1>1, <1>6, <1>8 DEF CriticalAgentFails, ChallengerFails, AuditorFails, ReportFails,
     PublishReport, Challenge, Step
<1>9. ASSUME NEW verdict, Audit(verdict) PROVE TraceExplainsStatus'
  BY <1>1, <1>6, <1>9 DEF Audit, Step
<1>10. CASE RiskAgentFails \/ \E a \in Specialists, found \in SUBSET Unwritten : AgentSucceeds(a, found)
  BY <1>3, <1>6, <1>10 DEF RiskAgentFails, AgentSucceeds
<1>11. CASE TaskReturns \/ TaskRaises \/ TaskCancelled \/ MarkLost \/ ProcessDies
  BY <1>2, <1>11 DEF TaskReturns, TaskRaises, TaskCancelled, MarkLost, ProcessDies
<1>12. CASE Mark
  BY <1>4, <1>6, <1>12 DEF Mark, MarkAfterException, MarkAfterCancellation
<1> QED
  BY <1>5, <1>7, <1>8, <1>9, <1>10, <1>11, <1>12 DEF RunNext, Supervise

\* A decision made from the row as it is moves it from where it is.
LEMMA DecideExplains ==
  ASSUME ApiReviewers = {}, TypeOK, TraceExplainsStatus, NEW r \in Reviewers, Decide(r)
  PROVE  TraceExplainsStatus'
<1> DEFINE q == request[r]
           m == Moves(q, status)
           es == events \o <<Note("HUMAN_DECISION")>>
<1>1. Held(r).status = status /\ status \in Reviewable
  BY DEF Decide, Held, Row, Admissible
<1>2. "HUMAN_DECISION" \in EventTypes /\ "HUMAN_REVIEW_PENDING" \in EventTypes
  BY DEF EventTypes
<1>3. es \in Seq(EventSet) /\ Explains(es, status) /\ status \in Statuses
  <2>1. <<Note("HUMAN_DECISION")>> \in Seq(EventSet)
    BY <1>2, EventTypes1
  <2> QED
    BY <1>2, <2>1, EventsExplain, ConcatProperties DEF TypeOK, TraceExplainsStatus
<1>4. status' = IF m = <<>> THEN status ELSE m[Len(m)].to
  BY <1>1 DEF Decide
<1>5. events' = es \o (IF q.action \in Rulings /\ ~ Closes(q)
                       THEN <<Note("HUMAN_REVIEW_PENDING")>> ELSE m)
  BY <1>1 DEF Decide
<1> HIDE DEF es
<1>6. CASE q.action \in Rulings /\ ~ Closes(q)
  <2>1. m = <<>>
    BY <1>6 DEF Moves, Rulings
  <2> QED
    BY <1>2, <1>3, <1>4, <1>5, <1>6, <2>1, EventsExplain DEF TraceExplainsStatus
<1>7. ASSUME NEW a \in Statuses, NEW tr \in Seq(EventSet), Explains(tr, a), NEW b \in Statuses
      PROVE  /\ tr \o <<StateChanged(a, b)>> \in Seq(EventSet)
             /\ Explains(tr \o <<StateChanged(a, b)>>, b)
  <2>1. <<StateChanged(a, b)>> \in Seq(EventSet)
    BY EventTypes1
  <2> QED
    BY <1>7, <2>1, EventsExplain, ConcatProperties
<1>8. /\ "REWORK" \in Statuses /\ "HUMAN_REVIEW" \in Statuses
      /\ "REPORTING" \in Statuses /\ "COMPLETED" \in Statuses
  BY DEF Statuses, Stopped
<1>9. CASE ~ (q.action \in Rulings /\ ~ Closes(q))
  <2> DEFINE e1 == StateChanged("REWORK", "HUMAN_REVIEW")
             e2 == StateChanged("HUMAN_REVIEW", "REPORTING")
             e3 == StateChanged("REPORTING", "COMPLETED")
             e4 == StateChanged(status, "REPORTING")
             e5 == StateChanged(status, "REWORK")
  <2>1. events' = es \o m
    BY <1>5, <1>9
  <2>2. \/ status = "REWORK" /\ m = <<e1, e2, e3>>
        \/ m = <<e4, e3>> \/ m = <<e5>> \/ m = <<>>
    BY DEF Moves
  <2>3. /\ e1 \in EventSet /\ e2 \in EventSet /\ e3 \in EventSet
        /\ e4 \in EventSet /\ e5 \in EventSet
        /\ e3.to = "COMPLETED" /\ e5.to = "REWORK"
    BY <1>3, <1>8, EventTypes1 DEF StateChanged
  <2>4. CASE status = "REWORK" /\ m = <<e1, e2, e3>>
    <3>1. Explains(es \o <<e1>> \o <<e2>> \o <<e3>>, "COMPLETED")
      BY <1>3, <1>7, <1>8, <2>4
    <3> HIDE DEF e1, e2, e3, e4, e5, m
    <3>2. es \o m = es \o <<e1>> \o <<e2>> \o <<e3>>
      <4>1. es \o <<e1, e2, e3>> = es \o <<e1>> \o <<e2>> \o <<e3>>
        <5>1. /\ es \o <<e1, e2, e3>> = Append(Append(Append(es, e1), e2), e3)
              /\ Append(es, e1) = es \o <<e1>>
          BY <1>3, <2>3
        <5>2. es \o <<e1>> \in Seq(EventSet)
          BY <1>3, <2>3, <5>1
        <5>3. Append(es \o <<e1>>, e2) = es \o <<e1>> \o <<e2>>
          BY <2>3, <5>2
        <5>4. es \o <<e1>> \o <<e2>> \in Seq(EventSet)
          BY <2>3, <5>2, <5>3
        <5>5. Append(es \o <<e1>> \o <<e2>>, e3) = es \o <<e1>> \o <<e2>> \o <<e3>>
          BY <2>3, <5>4
        <5> QED
          BY <5>1, <5>3, <5>5
      <4> QED
        BY <2>4, <4>1
    <3>3. m # <<>> /\ m[Len(m)] = e3
      BY <2>3, <2>4
    <3> QED
      BY <1>4, <2>1, <2>3, <3>1, <3>2, <3>3 DEF TraceExplainsStatus
  <2>5. CASE m = <<e4, e3>>
    <3>1. Explains(es \o <<e4>> \o <<e3>>, "COMPLETED")
      BY <1>3, <1>7, <1>8
    <3> HIDE DEF e1, e2, e3, e4, e5, m
    <3>2. es \o m = es \o <<e4>> \o <<e3>>
      BY <1>3, <2>3, <2>5
    <3>3. m # <<>> /\ m[Len(m)] = e3
      BY <2>3, <2>5
    <3> QED
      BY <1>4, <2>1, <2>3, <3>1, <3>2, <3>3 DEF TraceExplainsStatus
  <2>6. CASE m = <<e5>>
    <3>1. Explains(es \o <<e5>>, "REWORK")
      BY <1>3, <1>7, <1>8
    <3> HIDE DEF e1, e2, e3, e4, e5, m
    <3>2. m # <<>> /\ m[Len(m)] = e5
      BY <2>3, <2>6
    <3> QED
      BY <1>4, <2>1, <2>3, <2>6, <3>1, <3>2 DEF TraceExplainsStatus
  <2>7. CASE m = <<>>
    <3>1. es \o m = es
      BY <1>3, <2>7
    <3> QED
      BY <1>3, <1>4, <2>1, <2>7, <3>1 DEF TraceExplainsStatus
  <2> QED
    BY <2>2, <2>4, <2>5, <2>6, <2>7
<1> QED
  BY <1>6, <1>9

\* The trace of a run is a chain of moves from RECEIVED to its status, through
\* failures, their marking and the decisions of clients that read the run under
\* the lock.
THEOREM TraceIsAChain ==
  ASSUME ApiReviewers = {}
  PROVE  Spec => []TraceExplainsStatus
<1>1. Init => TypeOK /\ TraceExplainsStatus
  BY TypeInit DEF Init, RunInit, TraceExplainsStatus, Explains, LeadsTo
<1>2. ASSUME TypeOK, TraceExplainsStatus, [Next]_vars PROVE TypeOK' /\ TraceExplainsStatus'
  <2>1. ASSUME NEW r \in Reviewers,
               \/ Compose(r) \/ Resend(r) \/ Load(r) \/ Forbid(r)
               \/ Duplicate(r) \/ Refuse(r) \/ RollBack(r)
        PROVE  TraceExplainsStatus'
    BY <1>2, <2>1 DEF Compose, Resend, Load, Forbid, Duplicate, Refuse, RollBack, runVars,
       TraceExplainsStatus
  <2>2. CASE UNCHANGED vars
    BY <1>2, <2>2 DEF vars, runVars, reviewVars, TraceExplainsStatus, TypeOK
  <2> QED
    BY <1>2, <2>1, <2>2, TypeNext, RunExplains, DecideExplains DEF Next, Review
<1> QED
  BY <1>1, <1>2, PTL DEF Spec

---------------------------------------------------------------------------
(* Optimistic locking, for clients whose session first reads the run under *)
(* the lock: every stored decision consumed the version it expected.       *)

ConsumedInv ==
  /\ TypeOK /\ OneDecisionPerVersion
  /\ \A k \in Keys : decisions[k] # NoRequest => decisions[k].expected < version

\* The run and its faults never lower the version.
LEMMA RunVersionGrows ==
  ASSUME TypeOK, RunNext
  PROVE  version' >= version
<1>1. version' \in {version, version + 1}
  BY DEF RunNext, Supervise, Mark, Authorize, StartValidation, CaseMissing,
     CaseUnbound, Plan, StartExecution, Synthesize, StartChallenge, Advance, Step,
     Move, AgentSucceeds, AgentDegrades, CriticalAgentFails, RiskAgentFails,
     Challenge, ChallengerFails, Audit, AuditorFails, PublishReport, ReportFails,
     TaskReturns, TaskRaises, TaskCancelled, MarkLost, ProcessDies,
     MarkAfterException, MarkAfterCancellation, MarkFailed
<1> QED
  BY <1>1 DEF TypeOK

\* With fresh copies every stored decision was expected below the version now.
LEMMA ConsumedNext ==
  ASSUME ApiReviewers = {}, ConsumedInv, [Next]_vars
  PROVE  ConsumedInv'
<1> USE AbsenceAssumption
<1>1. TypeOK'
  BY TypeNext DEF ConsumedInv
<1>2. CASE decisions' = decisions /\ version' >= version
  <2>1. ASSUME NEW k \in Keys, decisions[k] # NoRequest
        PROVE  decisions[k].expected \in Nat
    BY <2>1 DEF ConsumedInv, TypeOK, RequestSet
  <2>2. version \in Nat /\ version' \in Nat
    BY <1>1 DEF ConsumedInv, TypeOK
  <2> QED
    BY <1>1, <1>2, <2>1, <2>2 DEF ConsumedInv, OneDecisionPerVersion
<1>3. ASSUME NEW r \in Reviewers, Decide(r) PROVE ConsumedInv'
  <2> DEFINE q == request[r]
             n == Len(Moves(q, Held(r).status))
  <2>1. q \in RequestSet /\ q.key \in Keys /\ q.expected \in Nat
    BY <1>3, DecideFinds DEF ConsumedInv, Decide, RequestSet
  <2>2. /\ decisions' = [decisions EXCEPT ![q.key] = q]
        /\ Held(r).status \in Reviewable /\ q.expected = Held(r).version
        /\ version' = Held(r).version + 1 + n
    BY <1>3 DEF Decide, Admissible
  <2>3. Held(r).version = version
    BY DEF Held, Row
  <2>4. n \in Nat /\ version \in Nat
    BY <2>2, MovesType DEF ConsumedInv, TypeOK
  <2> HIDE DEF q, n
  <2>5. q.expected < version' /\ version < version'
    BY <2>2, <2>3, <2>4
  <2>6. ASSUME NEW k \in Keys, decisions[k] # NoRequest
        PROVE  /\ decisions[k].expected \in Nat
               /\ decisions[k].expected < version
    BY <2>6 DEF ConsumedInv, TypeOK, RequestSet
  <2>7. ASSUME NEW k \in Keys, decisions'[k] # NoRequest
        PROVE  /\ k = q.key => decisions'[k] = q
               /\ k # q.key => decisions'[k] = decisions[k]
    BY <2>1, <2>2 DEF ConsumedInv, TypeOK
  <2>8. ASSUME NEW k \in Keys, decisions'[k] # NoRequest
        PROVE  decisions'[k].expected < version'
    BY SMTT(30), <2>1, <2>4, <2>5, <2>6, <2>7, <2>8, <1>1 DEF TypeOK
  <2>9. ASSUME NEW k1 \in Keys, NEW k2 \in Keys, k1 # k2,
               decisions'[k1] # NoRequest, decisions'[k2] # NoRequest
        PROVE  decisions'[k1].expected # decisions'[k2].expected
    <3>1. CASE k1 # q.key /\ k2 # q.key
      BY <2>7, <2>9, <3>1 DEF ConsumedInv, OneDecisionPerVersion
    <3>2. CASE k1 = q.key
      BY <2>1, <2>2, <2>3, <2>4, <2>6, <2>7, <2>9, <3>2
    <3>3. CASE k2 = q.key
      BY <2>1, <2>2, <2>3, <2>4, <2>6, <2>7, <2>9, <3>3
    <3> QED
      BY <3>1, <3>2, <3>3
  <2> QED
    BY <1>1, <2>8, <2>9 DEF ConsumedInv, OneDecisionPerVersion
<1>4. ASSUME NEW r \in Reviewers,
             \/ Compose(r) \/ Resend(r) \/ Load(r) \/ Forbid(r)
             \/ Duplicate(r) \/ Refuse(r) \/ RollBack(r)
      PROVE  ConsumedInv'
  <2>1. decisions' = decisions /\ version' = version
    BY <1>4 DEF Compose, Resend, Load, Forbid, Duplicate, Refuse, RollBack, runVars
  <2> QED
    BY <1>2, <2>1 DEF ConsumedInv, TypeOK
<1>5. CASE RunNext /\ UNCHANGED reviewVars
  BY <1>2, <1>5, RunKeepsReview, RunVersionGrows DEF ConsumedInv
<1>6. CASE UNCHANGED vars
  BY <1>2, <1>6 DEF vars, runVars, reviewVars, ConsumedInv, TypeOK
<1> QED
  BY <1>3, <1>4, <1>5, <1>6 DEF Next, Review

\* Of any number of concurrent decisions on one version of a run, at most one is
\* stored, provided the session locks the row before it ever reads it.
THEOREM OptimisticLocking ==
  ASSUME ApiReviewers = {}
  PROVE  Spec => []OneDecisionPerVersion
<1>1. Init => ConsumedInv
  BY TypeInit DEF Init, ReviewInit, ConsumedInv, OneDecisionPerVersion
<1>2. ConsumedInv /\ [Next]_vars => ConsumedInv'
  BY ConsumedNext
<1>3. ConsumedInv => OneDecisionPerVersion
  BY DEF ConsumedInv
<1> QED
  BY <1>1, <1>2, <1>3, PTL DEF Spec
---------------------------------------------------------------------------
(* The promise of ReviewGate, for clients whose session first reads the run *)
(* under the lock: a decision then never meets a run that has completed.    *)

Published == [i \in 1..Len(reports) |-> reports[i].claims]

\* A report is stored with the completion of its run, and that is not undone.
GateInv == ReleaseInv /\ (reports # <<>> => status = "COMPLETED")

\* What the reports of a run publish.
LEMMA PublishedIs ==
  /\ reports = <<>> => Published = <<>>
  /\ reports' = reports => Published' = Published
  /\ \A kind, cs : reports = <<>> /\ reports' = Append(reports, Report(kind, cs)) =>
       Published' = <<Publishable(cs)>>
<1>1. ASSUME reports = <<>> PROVE Published = <<>>
  <2>1. Len(reports) = 0
    BY <1>1
  <2> QED
    BY <2>1 DEF Published
<1>2. ASSUME NEW kind, NEW cs, reports = <<>>, reports' = Append(reports, Report(kind, cs))
      PROVE  Published' = <<Publishable(cs)>>
  <2> DEFINE R == Report(kind, cs)
  <2>1. reports' = <<R>> /\ R.claims = Publishable(cs)
    BY <1>2 DEF Report
  <2> HIDE DEF R
  <2>2. Len(reports') = 1 /\ reports'[1] = R
    BY <2>1
  <2>3. Published' = [i \in 1..1 |-> Publishable(cs)]
    BY <2>1, <2>2 DEF Published
  <2>4. <<Publishable(cs)>> = [i \in 1..1 |-> Publishable(cs)]
    OBVIOUS
  <2> QED
    BY <2>3, <2>4
<1> QED
  BY <1>1, <1>2 DEF Published

\* A decision on a run that waits for humans settles claims, releases the run
\* or leaves everything but its trace.
LEMMA DecideKeepsGate ==
  ASSUME ApiReviewers = {}, GateInv, NEW r \in Reviewers, Decide(r)
  PROVE  /\ reports' # <<>> => status' = "COMPLETED"
         /\ Gate!Settle \/ Gate!Release \/ UNCHANGED Gate!vars
<1> DEFINE q == request[r]
<1>1. status \in Reviewable /\ reports = <<>>
  BY DecideMeets DEF GateInv, Held, Row, Reviewable
<1>2. Phase = "waiting"
  BY <1>1 DEF Phase, Reviewable, Closed
<1>3. claims' = RuledOn(q)
  BY DEF Decide
<1>4. CASE Closes(q)
  <2>1. /\ status' = "COMPLETED" /\ Blocking(claims)' = {}
        /\ reports' = Append(reports, Report("APPROVED_DRAFT", claims'))
    <3>1. /\ Moves(q, Held(r).status) # <<>>
          /\ Moves(q, Held(r).status)[Len(Moves(q, Held(r).status))].to = "COMPLETED"
      BY <1>4, DecideMeets, MovesType DEF GateInv
    <3> QED
      BY <1>3, <1>4, <3>1 DEF Decide, Closes, Blocking
  <2>2. Phase' = "released"
    BY <2>1 DEF Phase, Reviewable
  <2>3. Published' = <<Publishable(claims')>> /\ Publishable(claims') \in SUBSET Claims
    BY <1>1, <2>1, PublishedIs DEF Publishable
  <2> QED
    BY <1>2, <2>1, <2>2, <2>3 DEF Gate!Release, Published
<1>5. CASE ~ Closes(q)
  <2>1. reports' = reports
    BY <1>5 DEF Decide
  <2>2. status' \in Reviewable
    <3>1. Moves(q, Held(r).status) # <<>> =>
            Moves(q, Held(r).status)[Len(Moves(q, Held(r).status))].to = "REWORK"
      BY <1>5, DecideMeets, MovesType DEF GateInv
    <3> QED
      BY <1>1, <3>1 DEF Decide, Reviewable
  <2>3. Phase' = "waiting" /\ Published' = Published
    BY <2>1, <2>2, PublishedIs DEF Phase, Reviewable, Closed
  <2>4. CASE q.action = "REQUEST"
    <3>1. claims' = claims
      BY <1>3, <2>4 DEF RuledOn
    <3> QED
      BY <1>1, <1>2, <2>1, <2>3, <3>1 DEF Gate!vars, Published, Blocking
  <2>5. CASE q.action # "REQUEST"
    <3>1. Blocking(claims)' # {}
      BY <1>3, <1>5, <2>5 DEF Closes, Blocking
    <3>2. Blocking(claims)' \subseteq Blocking(claims)
      BY <1>3 DEF GateInv, ReleaseInv, TypeOK, RuledOn, Blocking
    <3> QED
      BY <1>1, <1>2, <2>1, <2>3, <3>1, <3>2 DEF Gate!Settle, Published
  <2> QED
    BY <2>4, <2>5
<1> QED
  BY <1>4, <1>5

\* The stages of a run up to its release or its stop.
LEMMA StagesKeepGate ==
  ASSUME GateInv, Supervise, UNCHANGED reviewVars
  PROVE  /\ reports' # <<>> => status' = "COMPLETED"
         /\ [Gate!Next]_(Gate!vars)
<1>1. CASE TaskReturns
  BY <1>1 DEF TaskReturns, GateInv, Gate!vars, Phase, Blocking
<1>2. CASE ~ TaskReturns
  <2>1. /\ task = "running" /\ status \notin Stopped
    BY <1>2 DEF Supervise, Authorize, StartValidation, CaseMissing, CaseUnbound, Plan,
       StartExecution, Synthesize, StartChallenge, Advance, IsNext, AgentSucceeds,
       AgentDegrades, CriticalAgentFails, RiskAgentFails, Challenge, ChallengerFails,
       Audit, AuditorFails, PublishReport, ReportFails, Stopped
  <2>2. Phase = "working" /\ reports = <<>> /\ Published = <<>>
    BY <2>1, PublishedIs DEF Phase, Reviewable, Closed, Stopped, GateInv
  <2>3. Blocking(claims)' \in SUBSET Claims
    BY DEF Blocking
  <2>4. ASSUME reports' = reports, status' \notin Stopped
        PROVE  /\ reports' # <<>> => status' = "COMPLETED"
               /\ Gate!Work
    BY <2>2, <2>3, <2>4, PublishedIs
       DEF Gate!Work, Phase, Published, Reviewable, Closed, Stopped
  <2>5. ASSUME reports' = reports, status' \in Closed \ {"COMPLETED"},
               Blocking(claims)' = Blocking(claims)
        PROVE  /\ reports' # <<>> => status' = "COMPLETED"
               /\ Gate!Stop
    BY <2>2, <2>5, PublishedIs DEF Gate!Stop, Phase, Published, Reviewable, Closed
  <2>6. ASSUME PublishReport
        PROVE  /\ reports' # <<>> => status' = "COMPLETED"
               /\ Gate!Release
    <3>1. /\ status = "REPORTING" /\ status' = "COMPLETED" /\ claims' = claims
          /\ reports' = Append(reports, Report("VERIFIED_DRAFT", claims))
      BY <2>6 DEF PublishReport, Step, Move
    <3>2. Blocking(claims)' = {} /\ Phase' = "released"
      BY <3>1 DEF GateInv, ReleaseInv, AuditInv, Phase, Reviewable, Blocking
    <3>3. Published' = <<Publishable(claims)>> /\ Publishable(claims) \in SUBSET Claims
      BY <2>2, <3>1, PublishedIs DEF Publishable
    <3> QED
      BY <2>2, <3>1, <3>2, <3>3 DEF Gate!Release, Published
  <2>7. ASSUME NEW verdict \in [Claims -> {"AUDITED", "NEEDS_REWORK", "PENDING"}], Audit(verdict)
        PROVE  /\ reports' # <<>> => status' = "COMPLETED"
               /\ Gate!Work \/ Gate!Park
    <3>1. /\ reports' = reports
          /\ status' = IF Blocking(claims') = {} THEN "REPORTING" ELSE "HUMAN_REVIEW"
      BY <2>7 DEF Audit, Step, Move
    <3>2. CASE Blocking(claims)' = {}
      BY <2>4, <3>1, <3>2 DEF Stopped, Blocking
    <3>3. CASE Blocking(claims)' # {}
      <4>1. Phase' = "waiting"
        BY <3>1, <3>3 DEF Phase, Reviewable, Closed, Blocking
      <4> QED
        BY <2>2, <2>3, <3>1, <3>3, <4>1, PublishedIs DEF Gate!Park, Published
    <3> QED
      BY <3>2, <3>3
  <2>8. CASE \/ Authorize \/ StartValidation \/ Plan \/ StartExecution \/ Synthesize
             \/ StartChallenge \/ RiskAgentFails \/ ChallengerFails
             \/ \E a \in Specialists, found \in SUBSET Unwritten :
                  AgentSucceeds(a, found) \/ AgentDegrades(a, found)
             \/ \E found \in SUBSET Unwritten : Challenge(found)
    <3>1. reports' = reports /\ status' \notin Stopped
      BY <2>1, <2>8 DEF Authorize, StartValidation, Plan, StartExecution, Synthesize,
         StartChallenge, Advance, AgentSucceeds, AgentDegrades, RiskAgentFails, Challenge,
         ChallengerFails, Step, Move, Stopped
    <3> QED
      BY <2>4, <3>1 DEF Gate!Next
  <2>9. CASE \/ CaseMissing \/ CaseUnbound \/ AuditorFails \/ ReportFails
             \/ \E a \in Specialists : CriticalAgentFails(a)
    <3>1. reports' = reports /\ status' \in Closed \ {"COMPLETED"}
      BY <2>9 DEF CaseMissing, CaseUnbound, AuditorFails, ReportFails, CriticalAgentFails,
         Advance, Step, Move, Closed
    <3>2. \A c \in Claims : claims'[c] = claims[c]
      BY <2>9 DEF CaseMissing, CaseUnbound, AuditorFails, ReportFails, CriticalAgentFails,
         Advance, Store
    <3>3. Blocking(claims)' = Blocking(claims)
      BY <3>2 DEF Blocking
    <3> QED
      BY <2>5, <3>1, <3>3 DEF Gate!Next
  <2> QED
    BY <1>2, <2>6, <2>7, <2>8, <2>9 DEF Supervise, Gate!Next
<1> QED
  BY <1>1, <1>2

\* A failure of the task is marked on a run that works, and on no other.
LEMMA FaultsKeepGate ==
  ASSUME GateInv, Mark \/ TaskRaises \/ TaskCancelled \/ MarkLost \/ ProcessDies,
         UNCHANGED reviewVars
  PROVE  /\ reports' # <<>> => status' = "COMPLETED"
         /\ [Gate!Next]_(Gate!vars)
<1>1. reports' = reports /\ claims' = claims
  BY DEF Mark, MarkAfterException, MarkAfterCancellation, TaskRaises, TaskCancelled, MarkLost,
     ProcessDies
<1>2. status' = status \/ (status \notin Stopped /\ status' = "FAILED")
  BY DEF Mark, MarkAfterException, MarkAfterCancellation, MarkFailed, TaskRaises, TaskCancelled,
     MarkLost, ProcessDies
<1>3. Published' = Published /\ Blocking(claims)' = Blocking(claims)
  BY <1>1, PublishedIs DEF Blocking
<1>4. CASE status' = status
  BY <1>1, <1>3, <1>4 DEF GateInv, Gate!vars, Phase, Published
<1>5. CASE status \notin Stopped /\ status' = "FAILED"
  <2>1. Phase = "working" /\ Phase' = "stopped"
    BY <1>5 DEF Phase, Reviewable, Closed, Stopped
  <2>2. Gate!Stop
    BY <1>3, <2>1 DEF Gate!Stop, Published
  <2> QED
    BY <1>1, <1>5, <2>2 DEF GateInv, Stopped, Gate!Next
<1> QED
  BY <1>2, <1>4, <1>5

\* The run, its task and its reviewers implement ReviewGate when no decision is
\* made from a copy older than the lock: nothing is published with a claim open,
\* nothing twice, and what is released or stopped stays so.
THEOREM ReviewKeepsGate ==
  ASSUME ApiReviewers = {}
  PROVE  Spec => KeepsGate
<1>1. Init => GateInv /\ Gate!Init
  <2> SUFFICES ASSUME Init PROVE GateInv /\ Gate!Init
    OBVIOUS
  <2>1. reports = <<>> /\ Phase = "working" /\ Blocking(claims) = {}
    BY DEF Init, RunInit, Phase, Reviewable, Closed, Blocking
  <2> QED
    BY <2>1, ReleaseInit, PublishedIs DEF GateInv, Gate!Init, Published
<1>2. ASSUME GateInv, [Next]_vars PROVE GateInv' /\ [Gate!Next]_(Gate!vars)
  <2>1. ReleaseInv'
    BY <1>2, ReleaseNext DEF GateInv
  <2>2. CASE RunNext /\ UNCHANGED reviewVars
    BY <1>2, <2>1, <2>2, StagesKeepGate, FaultsKeepGate DEF RunNext, GateInv
  <2>3. ASSUME NEW r \in Reviewers, Decide(r)
        PROVE  GateInv' /\ [Gate!Next]_(Gate!vars)
    BY <1>2, <2>1, <2>3, DecideKeepsGate DEF GateInv, Gate!Next
  <2>4. ASSUME UNCHANGED runVars PROVE GateInv' /\ [Gate!Next]_(Gate!vars)
    BY <1>2, <2>1, <2>4 DEF runVars, GateInv, Gate!vars, Phase, Blocking
  <2>5. ASSUME NEW r \in Reviewers,
               \/ Compose(r) \/ Resend(r) \/ Load(r) \/ Forbid(r)
               \/ Duplicate(r) \/ Refuse(r) \/ RollBack(r)
        PROVE  UNCHANGED runVars
    BY <2>5 DEF Compose, Resend, Load, Forbid, Duplicate, Refuse, RollBack
  <2> QED
    BY <1>2, <2>2, <2>3, <2>4, <2>5 DEF Next, Review, vars
<1> QED
  BY <1>1, <1>2, PTL DEF Spec, KeepsGate, Gate!Spec

\* A run that waits for humans is never marked failed, whatever becomes of the
\* task that brought it there.
THEOREM ReviewIsNotDiscarded == Spec => ReviewNotDiscarded
<1>1. ASSUME ReleaseInv, [Next]_vars PROVE [(status \in Reviewable) => (status' # "FAILED")]_vars
  <2> SUFFICES ASSUME status \in Reviewable PROVE status' # "FAILED"
    BY <1>1
  <2>1. CASE RunNext
    <3>1. status' = status
      BY <2>1 DEF RunNext, Supervise, Mark, Authorize, StartValidation, CaseMissing,
         CaseUnbound, Plan, StartExecution, Synthesize, StartChallenge, Advance, IsNext,
         AgentSucceeds, AgentDegrades, CriticalAgentFails, RiskAgentFails, Challenge,
         ChallengerFails, Audit, AuditorFails, PublishReport, ReportFails, TaskReturns,
         TaskRaises, TaskCancelled, MarkLost, ProcessDies, MarkAfterException,
         MarkAfterCancellation, MarkFailed, Reviewable, Stopped
    <3> QED
      BY <3>1 DEF Reviewable
  <2>2. ASSUME NEW r \in Reviewers, Decide(r) PROVE status' # "FAILED"
    BY <1>1, <2>2, DecideLeaves DEF Reviewable
  <2>3. ASSUME status' = status PROVE status' # "FAILED"
    BY <2>3 DEF Reviewable
  <2>4. ASSUME NEW r \in Reviewers,
               \/ Compose(r) \/ Resend(r) \/ Load(r) \/ Forbid(r)
               \/ Duplicate(r) \/ Refuse(r) \/ RollBack(r)
        PROVE  status' = status
    BY <2>4 DEF Compose, Resend, Load, Forbid, Duplicate, Refuse, RollBack, runVars
  <2> QED
    BY <1>1, <2>1, <2>2, <2>3, <2>4 DEF Next, Review, vars, runVars
<1> QED
  BY <1>1, ReleaseInvariant, PTL DEF Spec, ReviewNotDiscarded
=============================================================================
