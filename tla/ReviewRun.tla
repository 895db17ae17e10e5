----------------------------- MODULE ReviewRun -----------------------------
(***************************************************************************)
(* One full review of a credit case: the Supervisor walks a fixed DAG of   *)
(* statuses, committing after every stage, inside a background task of the *)
(* API process that may raise, be cancelled or die with the process.       *)
(*                                                                         *)
(* Every action below is one database transaction (or one event of the     *)
(* task).  The Supervisor writes and commits a stage with the row of the   *)
(* run as it last committed it: nobody else writes the row while the       *)
(* status is not one the API calls stopped, so the cached row and the      *)
(* committed one agree and the model reads the committed one.              *)
(***************************************************************************)
EXTENDS Integers, Sequences

CONSTANT Claims    \* the claims the agents may put forward

VARIABLES
  status,       \* review_runs.status
  version,      \* review_runs.state_version
  completedAt,  \* review_runs.completed_at is set
  degraded,     \* review_runs.model_manifest["degraded_agents"]
  artifacts,    \* producer |-> execution status of the artifact it stored
  claims,       \* claim |-> claims.review_status, or "absent"
  events,       \* run_events, in sequence_no order
  reports,      \* report_versions, in version_no order
  task          \* the background task executing the run

runVars == <<status, version, completedAt, degraded, artifacts, claims,
             events, reports, task>>

---------------------------------------------------------------------------
(* The status machine. *)

Stopped == {"COMPLETED", "FAILED", "HUMAN_REVIEW", "REWORK",
            "NEED_MORE_INFO", "DATA_QUALITY_BLOCKED"}

Statuses == {"RECEIVED", "AUTHORIZED", "VALIDATING_CASE", "PLANNING",
             "EXECUTING", "SYNTHESIZING", "CHALLENGING", "AUDITING",
             "REPORTING"} \union Stopped

Transitions ==
  [ RECEIVED        |-> {"AUTHORIZED"},
    AUTHORIZED      |-> {"VALIDATING_CASE"},
    VALIDATING_CASE |-> {"PLANNING", "NEED_MORE_INFO", "DATA_QUALITY_BLOCKED"},
    PLANNING        |-> {"EXECUTING"},
    EXECUTING       |-> {"SYNTHESIZING", "FAILED"},
    SYNTHESIZING    |-> {"CHALLENGING"},
    CHALLENGING     |-> {"AUDITING"},
    AUDITING        |-> {"HUMAN_REVIEW", "REPORTING", "NEED_MORE_INFO"},
    HUMAN_REVIEW    |-> {"REPORTING", "REWORK"},
    REWORK          |-> {"HUMAN_REVIEW", "PLANNING"},
    REPORTING       |-> {"COMPLETED", "FAILED"} ]

May(from, to) == from \in DOMAIN Transitions /\ to \in Transitions[from]

Specialists == {"policy", "financial", "risk"}
Critical == {"policy", "financial"}
Producers == Specialists \union {"challenger", "auditor"}

\* The professional agents share one session and run one after the other.
Before(a) == CASE a = "policy" -> {}
               [] a = "financial" -> {"policy"}
               [] a = "risk" -> {"policy", "financial"}

\* A task executing the Supervisor; "completing" has completed_at left to write.
Active == {"running", "completing"}
TaskStates == Active \union {"raised", "cancelled", "returned", "abandoned",
                             "dead"}

Outcomes == {"none", "OK", "DEGRADED", "FAILED"}

---------------------------------------------------------------------------
(* Claims, reports and events. *)

ReviewStatuses == {"PENDING", "AUDITED", "NEEDS_REWORK",
                   "HUMAN_APPROVED", "HUMAN_REJECTED"}

Blocking(cs) == {c \in Claims : cs[c] \in {"PENDING", "NEEDS_REWORK"}}
Publishable(cs) == {c \in Claims : cs[c] \in {"AUDITED", "HUMAN_APPROVED"}}

Report(kind, cs) == [kind |-> kind, claims |-> Publishable(cs),
                     degraded |-> degraded]
ReportSet == [kind : {"VERIFIED_DRAFT", "APPROVED_DRAFT"},
              claims : SUBSET Claims, degraded : SUBSET Producers]

StateChanged(from, to) == [type |-> "STATE_CHANGED", from |-> from, to |-> to]
Note(type) == [type |-> type, from |-> "-", to |-> "-"]
Background(type) == [type |-> type, from |-> "-", to |-> "FAILED"]

EventTypes == {"STATE_CHANGED", "TASK_COMPLETED", "TASK_DEGRADED",
               "TASK_FAILED", "AUDIT_COMPLETED", "AUDIT_FAILED",
               "REPORT_FAILED", "BACKGROUND_FAILED", "BACKGROUND_CANCELLED",
               "HUMAN_DECISION", "HUMAN_REVIEW_PENDING"}
EventSet == [type : EventTypes, from : Statuses \union {"-"},
             to : Statuses \union {"-"}]

---------------------------------------------------------------------------
(* The Supervisor.  Move commits a stage: the notes written since the last *)
(* checkpoint, the new status, the next version and its event.             *)

RunInit ==
  /\ status = "RECEIVED"
  /\ version = 1
  /\ completedAt = FALSE
  /\ degraded = {}
  /\ artifacts = [p \in Producers |-> "none"]
  /\ claims = [c \in Claims |-> "absent"]
  /\ events = <<>>
  /\ reports = <<>>
  /\ task = "running"

Move(notes, to) ==
  /\ status' = to
  /\ version' = version + 1
  /\ events' = events \o notes \o <<StateChanged(status, to)>>

\* An unforced move must be one the status machine allows.
Step(notes, to) == May(status, to) /\ Move(notes, to)

\* The stages that only move the status along the DAG.
Advance(from, to) ==
  /\ task = "running" /\ status = from
  /\ Step(<<>>, to)
  /\ UNCHANGED <<completedAt, degraded, artifacts, claims, reports, task>>

Authorize == Advance("RECEIVED", "AUTHORIZED")
StartValidation == Advance("AUTHORIZED", "VALIDATING_CASE")
CaseMissing == Advance("VALIDATING_CASE", "DATA_QUALITY_BLOCKED")
CaseUnbound == Advance("VALIDATING_CASE", "NEED_MORE_INFO")
Plan == Advance("VALIDATING_CASE", "PLANNING")
StartExecution == Advance("PLANNING", "EXECUTING")
StartChallenge == Advance("SYNTHESIZING", "CHALLENGING")

\* Mistaken: a degraded agent is waited for like a missing one.
SynthesizeOnSuccess ==
  /\ \A a \in Specialists : artifacts[a] = "OK"
  /\ Advance("EXECUTING", "SYNTHESIZING")

Synthesize ==
  /\ \A a \in Specialists : artifacts[a] # "none"
  /\ Advance("EXECUTING", "SYNTHESIZING")

IsNext(a) ==
  /\ task = "running" /\ status = "EXECUTING"
  /\ artifacts[a] = "none"
  /\ \A b \in Before(a) : artifacts[b] # "none"

\* Storing an artifact stores its claims with the default review status.
Store(producer, outcome, found) ==
  /\ artifacts' = [artifacts EXCEPT ![producer] = outcome]
  /\ claims' = [c \in Claims |-> IF c \in found THEN "PENDING" ELSE claims[c]]

Unwritten == {c \in Claims : claims[c] = "absent"}

AgentSucceeds(a, found) ==
  /\ IsNext(a)
  /\ Store(a, "OK", found)
  /\ events' = Append(events, Note("TASK_COMPLETED"))
  /\ UNCHANGED <<status, version, completedAt, degraded, reports, task>>

AgentDegrades(a, found) ==
  /\ IsNext(a)
  /\ Store(a, "DEGRADED", found)
  /\ degraded' = degraded \union {a}
  /\ events' = events \o <<Note("TASK_COMPLETED"), Note("TASK_DEGRADED")>>
  /\ UNCHANGED <<status, version, completedAt, reports, task>>

\* A policy or financial failure ends the run in the same transaction.
CriticalAgentFails(a) ==
  /\ IsNext(a) /\ a \in Critical
  /\ Store(a, "FAILED", {})
  /\ Move(<<Note("TASK_FAILED")>>, "FAILED")
  /\ UNCHANGED <<completedAt, degraded, reports, task>>

\* A risk failure is recorded in the manifest and the run goes on.
RiskAgentFails ==
  /\ IsNext("risk")
  /\ Store("risk", "FAILED", {})
  /\ degraded' = degraded \union {"risk"}
  /\ events' = Append(events, Note("TASK_FAILED"))
  /\ UNCHANGED <<status, version, completedAt, reports, task>>

\* The challenger's artifact is committed with the move to AUDITING.
Challenge(found) ==
  /\ task = "running" /\ status = "CHALLENGING"
  /\ Store("challenger", "OK", found)
  /\ Step(<<>>, "AUDITING")
  /\ UNCHANGED <<completedAt, degraded, reports, task>>

\* Mistaken: the manifest does not name the failed challenger.
ChallengerFailsUndisclosed ==
  /\ task = "running" /\ status = "CHALLENGING"
  /\ Store("challenger", "FAILED", {})
  /\ Step(<<Note("TASK_FAILED")>>, "AUDITING")
  /\ UNCHANGED <<completedAt, degraded, reports, task>>

ChallengerFails ==
  /\ task = "running" /\ status = "CHALLENGING"
  /\ Store("challenger", "FAILED", {})
  /\ degraded' = degraded \union {"challenger"}
  /\ Step(<<Note("TASK_FAILED")>>, "AUDITING")
  /\ UNCHANGED <<completedAt, reports, task>>

\* The audit accepts, rejects or sends to a human each stored claim; anything
\* rejected or sent to a human keeps the run from reporting.
Audit(verdict) ==
  /\ task = "running" /\ status = "AUDITING"
  /\ claims' = [c \in Claims |->
                  IF claims[c] = "absent" THEN "absent" ELSE verdict[c]]
  /\ Step(<<Note("AUDIT_COMPLETED")>>,
          IF Blocking(claims') = {} THEN "REPORTING" ELSE "HUMAN_REVIEW")
  /\ UNCHANGED <<completedAt, degraded, artifacts, reports, task>>

AuditorFails ==
  /\ task = "running" /\ status = "AUDITING"
  /\ Store("auditor", "FAILED", {})
  /\ Move(<<Note("AUDIT_FAILED")>>, "FAILED")
  /\ UNCHANGED <<completedAt, degraded, reports, task>>

PublishReport ==
  /\ task = "running" /\ status = "REPORTING"
  /\ reports' = Append(reports, Report("VERIFIED_DRAFT", claims))
  /\ Step(<<>>, "COMPLETED")
  /\ task' = "completing"
  /\ UNCHANGED <<completedAt, degraded, artifacts, claims>>

ReportFails ==
  /\ task = "running" /\ status = "REPORTING"
  /\ Move(<<Note("REPORT_FAILED")>>, "FAILED")
  /\ UNCHANGED <<completedAt, degraded, artifacts, claims, reports, task>>

\* completed_at is assigned after the COMPLETED checkpoint, so only the last
\* commit of the session stores it.  A task that returned from any other stop
\* has nothing left to write, whatever reviewers did to the row meanwhile.
TaskReturns ==
  /\ task \in Active /\ status \in Stopped
  /\ completedAt' = (completedAt \/ task = "completing")
  /\ task' = "returned"
  /\ UNCHANGED <<status, version, degraded, artifacts, claims, events, reports>>

---------------------------------------------------------------------------
(* The background task around the Supervisor. *)

\* Any exception that escapes the Supervisor (a lost invocation ledger row, a
\* database error): the open transaction is rolled back, and the handler is
\* about to mark the run failed in a session of its own.
TaskRaises ==
  /\ task \in Active
  /\ task' = "raised"
  /\ UNCHANGED <<status, version, completedAt, degraded, artifacts, claims,
                 events, reports>>

\* Cancellation while the Supervisor runs starts a bounded, shielded cleanup.
TaskCancelled ==
  /\ task \in Active
  /\ task' = "cancelled"
  /\ UNCHANGED <<status, version, completedAt, degraded, artifacts, claims,
                 events, reports>>

\* Mistaken: only finished runs are left alone, or the trace is not written.
MarkFailedUnlessFinished(type) ==
  IF status \in {"COMPLETED", "FAILED"}
  THEN UNCHANGED <<status, version, completedAt, events>>
  ELSE /\ status' = "FAILED"
       /\ version' = version + 1
       /\ completedAt' = TRUE
       /\ events' = Append(events, Background(type))

MarkFailedWithoutEvent(type) ==
  IF status \in Stopped
  THEN UNCHANGED <<status, version, completedAt, events>>
  ELSE /\ status' = "FAILED"
       /\ version' = version + 1
       /\ completedAt' = TRUE
       /\ UNCHANGED events

\* The row is locked and read again: a run that has stopped is left alone.
MarkFailed(type) ==
  IF status \in Stopped
  THEN UNCHANGED <<status, version, completedAt, events>>
  ELSE /\ status' = "FAILED"
       /\ version' = version + 1
       /\ completedAt' = TRUE
       /\ events' = Append(events, Background(type))

MarkAfterException ==
  /\ task = "raised"
  /\ MarkFailed("BACKGROUND_FAILED")
  /\ task' = "returned"
  /\ UNCHANGED <<degraded, artifacts, claims, reports>>

MarkAfterCancellation ==
  /\ task = "cancelled"
  /\ MarkFailed("BACKGROUND_CANCELLED")
  /\ task' = "returned"
  /\ UNCHANGED <<degraded, artifacts, claims, reports>>

\* The marking itself is lost: cancelled inside the exception handler, timed
\* out and then torn down with the loop, or refused by the database.
MarkLost ==
  /\ task \in {"raised", "cancelled"}
  /\ task' = "abandoned"
  /\ UNCHANGED <<status, version, completedAt, degraded, artifacts, claims,
                 events, reports>>

\* The process dies.  Nothing restarts the run: there is no lease on it.
ProcessDies ==
  /\ task \in Active \union {"raised", "cancelled"}
  /\ task' = "dead"
  /\ UNCHANGED <<status, version, completedAt, degraded, artifacts, claims,
                 events, reports>>

---------------------------------------------------------------------------
Supervise ==
  \/ Authorize \/ StartValidation \/ CaseMissing \/ CaseUnbound \/ Plan
  \/ StartExecution \/ Synthesize \/ StartChallenge
  \/ \E a \in Specialists :
       \/ \E found \in SUBSET Unwritten : AgentSucceeds(a, found)
       \/ \E found \in SUBSET Unwritten : AgentDegrades(a, found)
       \/ CriticalAgentFails(a)
  \/ RiskAgentFails
  \/ \E found \in SUBSET Unwritten : Challenge(found)
  \/ ChallengerFails
  \/ \E verdict \in [Claims -> {"AUDITED", "NEEDS_REWORK", "PENDING"}] :
       Audit(verdict)
  \/ AuditorFails \/ PublishReport \/ ReportFails \/ TaskReturns

Mark == MarkAfterException \/ MarkAfterCancellation

RunNext == Supervise \/ Mark \/ TaskRaises \/ TaskCancelled \/ MarkLost
           \/ ProcessDies
=============================================================================
