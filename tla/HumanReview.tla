---------------------------- MODULE HumanReview ----------------------------
(***************************************************************************)
(* Human review of a run: reviewers decide on the claims the audit held    *)
(* back, concurrently and with resent requests, until nothing blocks the   *)
(* report and the run completes.  Composed with the Supervisor's run.      *)
(*                                                                         *)
(* A decision is one transaction that locks the row of the run, so it is   *)
(* one action.  What it decides from is the ORM's copy of the row.  A      *)
(* caller that opens a fresh session gets the copy under the lock.  The    *)
(* API endpoint has already loaded the run in the same session to find the *)
(* case, and SELECT ... FOR UPDATE does not refresh the attributes of an   *)
(* object the session already holds: its copy is as old as that first read *)
(* (Load).  Columns are written only when the copy's value was changed.    *)
(***************************************************************************)
EXTENDS ReviewRun, FiniteSets

CONSTANTS
  Reviewers,     \* clients that send review decisions
  ApiReviewers,  \* those that come through the API endpoint
  Approvers,     \* those with role REVIEWER or OWNER on the case
  Keys,          \* the idempotency keys the clients use
  NoRequest,     \* the absence of a request
  NoRow          \* the absence of a loaded row

ASSUME ReviewersAssumption ==
  ApiReviewers \subseteq Reviewers /\ Approvers \subseteq Reviewers

VARIABLES
  decisions,  \* human_decisions: idempotency key |-> the stored request
  request,    \* the request each client has built, or NoRequest
  copy,       \* the row the API session of the client holds, or NoRow
  reply       \* the last answer each client received

reviewVars == <<decisions, request, copy, reply>>
vars == <<runVars, reviewVars>>

---------------------------------------------------------------------------
\* REQUEST stands for REQUEST_CHANGES and REQUEST_MORE_INFORMATION, SUBMIT for
\* SUBMIT_REPORT and APPROVE_REPORT_DRAFT: the code handles each pair alike.
Rulings == {"APPROVE_CLAIM", "REJECT_CLAIM"}
Approvals == Rulings \union {"SUBMIT"}
Actions == Approvals \union {"REQUEST"}

RequestSet == [by : Reviewers, key : Keys, action : Actions,
               targets : SUBSET Claims, expected : Nat]

RowSet == [status : Statuses, version : Nat]
Row == [status |-> status, version |-> version]

ASSUME AbsenceAssumption == NoRequest \notin RequestSet /\ NoRow \notin RowSet

\* Every error the caller receives is one answer: nothing was done.
Replies == {"none", "applied", "replayed", "refused"}

Reviewable == {"HUMAN_REVIEW", "REWORK"}

---------------------------------------------------------------------------
(* What a decision does, given the row it decides from. *)

\* Mistaken: the action is stored where the verdict belongs.
RulingStoresTheAction(q) ==
  [c \in Claims |-> IF c \in q.targets THEN q.action ELSE claims[c]]

\* Mistaken: asking for changes sends every claim back, ruled on or not.
RequestUnsettlesClaims(q) ==
  [c \in Claims |->
     CASE claims[c] = "absent" -> "absent"
       [] q.action = "REQUEST" -> "NEEDS_REWORK"
       [] q.action = "APPROVE_CLAIM" /\ c \in q.targets -> "HUMAN_APPROVED"
       [] q.action = "REJECT_CLAIM" /\ c \in q.targets -> "HUMAN_REJECTED"
       [] OTHER -> claims[c]]

\* The claims' review statuses once the request's targets are ruled on.
RuledOn(q) ==
  CASE q.action = "APPROVE_CLAIM" ->
         [c \in Claims |-> IF c \in q.targets THEN "HUMAN_APPROVED"
                                              ELSE claims[c]]
    [] q.action = "REJECT_CLAIM" ->
         [c \in Claims |-> IF c \in q.targets THEN "HUMAN_REJECTED"
                                              ELSE claims[c]]
    [] OTHER -> claims

\* Mistaken: the blocking claims are not counted again.
ClosesOnAnyDecision(q) == TRUE

\* The last decision on a blocking claim, or a submission, closes the review.
Closes(q) == q.action # "REQUEST" /\ Blocking(RuledOn(q)) = {}

\* The moves a decision makes from the status it read, as trace events.
Moves(q, from) ==
  IF Closes(q) /\ from = "REWORK"
  THEN <<StateChanged("REWORK", "HUMAN_REVIEW"),
         StateChanged("HUMAN_REVIEW", "REPORTING"),
         StateChanged("REPORTING", "COMPLETED")>>
  ELSE IF Closes(q)
  THEN <<StateChanged(from, "REPORTING"), StateChanged("REPORTING", "COMPLETED")>>
  ELSE IF q.action = "REQUEST" /\ from # "REWORK"
  THEN <<StateChanged(from, "REWORK")>>
  ELSE <<>>

\* Mistaken: a page of any age is accepted.
AdmissibleOnAnyVersion(q, row) ==
  /\ row.status \in Reviewable
  /\ q.action \in Rulings => q.targets # {} /\ q.targets \subseteq Blocking(claims)
  /\ q.action = "SUBMIT" => Blocking(claims) = {}

\* The checks a request with a new key must pass before anything is written.
Admissible(q, row) ==
  /\ row.status \in Reviewable
  /\ q.expected = row.version
  /\ q.action \in Rulings => q.targets # {} /\ q.targets \subseteq Blocking(claims)
  /\ q.action = "SUBMIT" => Blocking(claims) = {}

---------------------------------------------------------------------------
ReviewInit ==
  /\ decisions = [k \in Keys |-> NoRequest]
  /\ request = [r \in Reviewers |-> NoRequest]
  /\ copy = [r \in Reviewers |-> NoRow]
  /\ reply = [r \in Reviewers |-> "none"]

\* A client shown the run answers what it saw: the version is the one its page
\* carries, and claims are named only to be ruled on.  It builds a new request
\* only when the last one was answered.
Compose(r) ==
  /\ status \in Reviewable \union {"COMPLETED"}
  /\ request[r] = NoRequest \/ reply[r] # "none"
  /\ \E k \in Keys, a \in Actions, ts \in SUBSET Claims :
       /\ (ts # {}) <=> (a \in Rulings)
       /\ request' = [request EXCEPT ![r] =
         [by |-> r, key |-> k, action |-> a, targets |-> ts,
          expected |-> version]]
  /\ reply' = [reply EXCEPT ![r] = "none"]
  /\ UNCHANGED <<runVars, decisions, copy>>

\* The answer is lost and the client sends the same request again.
Resend(r) ==
  /\ request[r] # NoRequest /\ reply[r] # "none"
  /\ reply' = [reply EXCEPT ![r] = "none"]
  /\ UNCHANGED <<runVars, decisions, request, copy>>

Waiting(r) == request[r] # NoRequest /\ reply[r] = "none"

\* The endpoint loads the run to find its case and checks the case role.
Load(r) ==
  /\ r \in ApiReviewers /\ Waiting(r) /\ copy[r] = NoRow
  /\ r \in Approvers \/ request[r].action \notin Approvals
  /\ copy' = [copy EXCEPT ![r] = Row]
  /\ UNCHANGED <<runVars, decisions, request, reply>>

Forbid(r) ==
  /\ r \in ApiReviewers /\ Waiting(r) /\ copy[r] = NoRow
  /\ r \notin Approvers /\ request[r].action \in Approvals
  /\ reply' = [reply EXCEPT ![r] = "refused"]
  /\ UNCHANGED <<runVars, decisions, request, copy>>

\* The client's session holds the lock on the row.
Locked(r) == Waiting(r) /\ (r \in ApiReviewers => copy[r] # NoRow)
Held(r) == IF r \in ApiReviewers THEN copy[r] ELSE Row

Answer(r, with) ==
  /\ reply' = [reply EXCEPT ![r] = with]
  /\ copy' = [copy EXCEPT ![r] = NoRow]
  /\ UNCHANGED request

\* Mistaken: the key alone identifies a request.
DuplicateByKeyAlone(r) ==
  /\ Locked(r) /\ decisions[request[r].key] # NoRequest
  /\ Answer(r, "replayed")
  /\ UNCHANGED <<runVars, decisions>>

\* A key already stored: the same request is answered again without effect,
\* another one is a conflict.
Duplicate(r) ==
  /\ Locked(r) /\ decisions[request[r].key] # NoRequest
  /\ Answer(r, IF decisions[request[r].key] = request[r]
               THEN "replayed" ELSE "refused")
  /\ UNCHANGED <<runVars, decisions>>

Refuse(r) ==
  /\ Locked(r) /\ decisions[request[r].key] = NoRequest
  /\ ~ Admissible(request[r], Held(r))
  /\ Answer(r, "refused")
  /\ UNCHANGED <<runVars, decisions>>

Decide(r) ==
  LET q == request[r]
      from == Held(r)
      moves == Moves(q, from.status)
  IN /\ Locked(r) /\ decisions[q.key] = NoRequest
     /\ Admissible(q, from)
     /\ decisions' = [decisions EXCEPT ![q.key] = q]
     /\ claims' = RuledOn(q)
     /\ status' = IF moves = <<>> THEN status ELSE moves[Len(moves)].to
     /\ version' = from.version + 1 + Len(moves)
     /\ events' = events \o <<Note("HUMAN_DECISION")>> \o
          (IF q.action \in Rulings /\ ~ Closes(q)
           THEN <<Note("HUMAN_REVIEW_PENDING")>>
           ELSE moves)
     /\ reports' = IF Closes(q)
                   THEN Append(reports, Report("APPROVED_DRAFT", claims'))
                   ELSE reports
     /\ completedAt' = (completedAt \/ Closes(q))
     /\ Answer(r, "applied")
     /\ UNCHANGED <<degraded, artifacts, task>>

\* The transaction rolls back whole: the report fails its integrity check, or
\* the database refuses a statement or the commit.
RollBack(r) ==
  /\ Locked(r)
  /\ Answer(r, "refused")
  /\ UNCHANGED <<runVars, decisions>>

---------------------------------------------------------------------------
Review ==
  \E r \in Reviewers : \/ Compose(r) \/ Resend(r) \/ Load(r) \/ Forbid(r)
                       \/ Duplicate(r) \/ Refuse(r) \/ Decide(r) \/ RollBack(r)

Init == RunInit /\ ReviewInit
Next == (RunNext /\ UNCHANGED reviewVars) \/ Review
Spec == Init /\ [][Next]_vars

\* The event loop runs the task and the marking of its failure; reviewers and
\* faults are not obliged to act.
FairSpec == Spec /\ WF_vars((Supervise \/ Mark) /\ UNCHANGED reviewVars)

---------------------------------------------------------------------------
(* Properties. *)

TypeOK ==
  /\ status \in Statuses /\ version \in Nat /\ completedAt \in BOOLEAN
  /\ degraded \in SUBSET Producers
  /\ artifacts \in [Producers -> Outcomes]
  /\ claims \in [Claims -> ReviewStatuses \union {"absent"}]
  /\ events \in Seq(EventSet)
  /\ reports \in Seq(ReportSet)
  /\ task \in TaskStates
  /\ decisions \in [Keys -> RequestSet \union {NoRequest}]
  /\ request \in [Reviewers -> RequestSet \union {NoRequest}]
  /\ copy \in [Reviewers -> RowSet \union {NoRow}]
  /\ reply \in [Reviewers -> Replies]

\* A run completes only past every gate: both critical agents succeeded, the
\* audit ran, no claim waits for a human, and a report version is stored.
ReleaseGate ==
  status = "COMPLETED" =>
    /\ reports # <<>>
    /\ Blocking(claims) = {}
    /\ \A a \in Critical : artifacts[a] \in {"OK", "DEGRADED"}
    /\ \E i \in 1..Len(events) : events[i].type = "AUDIT_COMPLETED"

\* A published report stays true: it lists exactly the claims the audit or a
\* human let through, which no later decision changes.
ReportsStayTrue ==
  \A i \in 1..Len(reports) : reports[i].claims = Publishable(claims)

\* Every agent that failed or degraded without ending the run is named by every
\* report published from it, and no other agent is.
DegradationDisclosed ==
  \A i \in 1..Len(reports) :
    reports[i].degraded = {p \in Producers : artifacts[p] \in {"DEGRADED", "FAILED"}}

\* A human verdict on a claim comes from exactly one stored decision, and a
\* stored ruling shows on its claims: no resend or race rules twice.
RulingsOn(c, kinds) ==
  {k \in Keys : /\ decisions[k] # NoRequest
                /\ decisions[k].action \in kinds
                /\ c \in decisions[k].targets}

VerdictsHaveOneDecision ==
  \A c \in Claims :
    /\ \A k1, k2 \in RulingsOn(c, Rulings) : k1 = k2
    /\ (claims[c] = "HUMAN_APPROVED") <=> RulingsOn(c, {"APPROVE_CLAIM"}) # {}
    /\ (claims[c] = "HUMAN_REJECTED") <=> RulingsOn(c, {"REJECT_CLAIM"}) # {}

\* A client told that its request took effect, now or before, finds that very
\* request stored under its key.
AnsweredMeansStored ==
  \A r \in Reviewers :
    reply[r] \in {"applied", "replayed"} => decisions[request[r].key] = request[r]

\* The first n events of a trace lead from RECEIVED to status s: s is where the
\* last of them that moved the run moved it.
LeadsTo(es, n, s) ==
  \/ s = "RECEIVED" /\ \A i \in 1..n : es[i].to = "-"
  \/ \E i \in 1..n : es[i].to = s /\ s # "-" /\ \A j \in (i + 1)..n : es[j].to = "-"

\* A trace that ends in status s, each move of which starts where the moves
\* before it lead, unless it does not say where it starts.
Explains(es, s) ==
  /\ LeadsTo(es, Len(es), s)
  /\ \A n \in 1..Len(es) :
       es[n].to # "-" => es[n].from = "-" \/ LeadsTo(es, n - 1, es[n].from)

\* The trace explains the row: its status events form a chain from RECEIVED to
\* the current status.
TraceExplainsStatus == Explains(events, status)

\* Optimistic locking: two decisions are never both accepted on the same version
\* of the run ("两个不同 idempotency_key 的并发请求不再能同时通过版本校验").
OneDecisionPerVersion ==
  \A k1, k2 \in Keys :
    /\ k1 # k2 /\ decisions[k1] # NoRequest /\ decisions[k2] # NoRequest
    => decisions[k1].expected # decisions[k2].expected

\* The statuses the status machine gives no way out of.
Closed == {"COMPLETED", "FAILED", "NEED_MORE_INFO", "DATA_QUALITY_BLOCKED"}

\* Marking a failure never discards a review in progress.
ReviewNotDiscarded == [][(status \in Reviewable) => status' # "FAILED"]_vars

\* The composed system keeps the promise of ReviewGate.
Phase == CASE status \in Reviewable -> "waiting"
           [] status = "COMPLETED" -> "released"
           [] status \in Closed \ {"COMPLETED"} -> "stopped"
           [] OTHER -> "working"

Gate == INSTANCE ReviewGate
          WITH phase <- Phase, open <- Blocking(claims),
               published <- [i \in 1..Len(reports) |-> reports[i].claims]
KeepsGate == Gate!Spec

\* A run left by its task has stopped, unless the task's own marking was lost.
RunStops == <>(status \in Stopped \/ task \in {"abandoned", "dead"})
=============================================================================
