----------------------------- MODULE ToolGateway -----------------------------
(***************************************************************************)
(* The only way an agent reaches a tool.  A call takes one attempt of its  *)
(* task's budget, is checked against the allow list of the agent's role,   *)
(* runs the tool, and is not given back to the agent before the record of  *)
(* how it ended was handed to a sink: in production a writer that commits  *)
(* the record in a transaction of its own, in a task that outlives the     *)
(* cancellation of its caller for a bounded time.  Between the stages of a *)
(* run the supervisor looks for calls whose record was lost and whose      *)
(* agent swallowed the error, if the agent came back with an artifact.     *)
(* One gateway may serve several runs at once.                             *)
(*                                                                         *)
(* The event loop is single-threaded: an action is what happens from one   *)
(* await to the next.  The budget lock guards no await, so it is free      *)
(* whenever it is asked for and adds no step.                              *)
(***************************************************************************)
EXTENDS Naturals, Sequences, FiniteSets, FiniteSetsExt

CONSTANTS
    Runs,           \* review runs that share the gateway
    Stages,         \* the stages of a run, in order; a stage is a task id
    Catching,       \* stages whose agent catches the errors of its calls
    Critical,       \* stages without which the run fails
    Sinks,          \* per run, how it may be bound
    MaxCallsPerTask,
    Width,          \* bound: calls a catching agent has outstanding at once
    MaxCallsOf,     \* bound: per run, its calls
    MaxLost,        \* bound: records that cannot be built or stored
    MaxCancels,     \* bound: runs that are cancelled
    None

ASSUME GatewayAssumption ==
    /\ MaxCallsPerTask \in Nat /\ MaxLost \in Nat /\ MaxCancels \in Nat /\ Width \in Nat \ {0}
    /\ MaxCallsOf \in [Runs -> Nat]
    /\ Stages \in Seq(STRING) /\ Len(Stages) > 0
    /\ Sinks \in [Runs -> SUBSET {"FAIL_CLOSED", "BEST_EFFORT", "EVENTS"}]
    /\ None \notin {"BUDGET_EXCEEDED", "TOOL_CALL_DENIED"}
    /\ None \notin {"RESULT", "ERROR", "AUDIT_ERROR", "CANCELLED"}

VARIABLES
    calls,      \* gateway.calls, with the progress of each call
    run,        \* per run: stage, cursor, status and the stages whose artifact it has
    cancelling, \* runs whose task was cancelled
    sink,       \* per run: the sink bound in its context
    ledger,     \* calls whose terminal record, and its outbox row, are committed
    events      \* calls written as events of their run

vars == <<calls, run, cancelling, sink, ledger, events>>

\* status, error, envelope and codes of a call are the record the gateway keeps.
\* at is where the coroutine waits: tool, sink, drain or ended; write the task that
\* persists the record: none, open, committed or failed; and outcome what the agent
\* was given: RESULT, ERROR, AUDIT_ERROR or CANCELLED.
CallsOf(r, s) == {i \in DOMAIN calls : calls[i].run = r /\ calls[i].stage = s}
Lost == Cardinality({i \in DOMAIN calls :
    calls[i].write = "failed" \/ (calls[i].write = "none" /\ calls[i].codes # {})})
Outstanding(r) == {i \in CallsOf(r, run[r].stage) : calls[i].at # "ended"}

-----------------------------------------------------------------------------
(* Emitting a terminal record                                              *)

\* What the agent is given once the record was handed over: invoke returns the
\* result of a tool that succeeded and raises in every other case.
Outcome(c) ==
    CASE c.status = "SUCCESS" -> "RESULT"
      [] c.status = "CANCELLED" -> "CANCELLED"
      [] OTHER -> "ERROR"

Ended(c, outcome) == [c EXCEPT !.at = "ended", !.outcome = outcome]

\* The sink could not take the record.  The code is kept in the record; with a
\* fail-closed sink the error replaces the outcome, except that a cancellation
\* stays a cancellation.
NotRecorded(c) ==
    Ended([c EXCEPT !.codes = @ \cup {"INVOCATION_AUDIT_PERSIST_FAILED"}],
          IF sink[c.run] = "FAIL_CLOSED" /\ c.status # "CANCELLED"
          THEN "AUDIT_ERROR" ELSE Outcome(c))

\* _emit_invocation_event up to its await.  A writer takes precedence over the
\* event sink; without an envelope there is nothing to hand over.
Emit(c) ==
    CASE sink[c.run] # "EVENTS" /\ c.envelope -> [c EXCEPT !.at = "sink", !.write = "open"]
      [] sink[c.run] # "EVENTS" /\ ~c.envelope -> NotRecorded(c)
      [] sink[c.run] = "EVENTS" /\ c.envelope -> [c EXCEPT !.at = "sink"]
      [] sink[c.run] = "EVENTS" /\ ~c.envelope -> Ended(c, Outcome(c))

\* finish, then emit: building the envelope may fail, which only the codes show.
Finish(c, status, error, envelope) ==
    Emit([c EXCEPT !.status = status, !.error = error, !.envelope = envelope,
                   !.codes = IF envelope THEN {} ELSE {"INVOCATION_ENVELOPE_UNAVAILABLE"}])

-----------------------------------------------------------------------------
(* A call                                                                  *)

\* Mistaken: only calls that have ended use up the budget.
AttemptsEnded(r, s) ==
    Cardinality({i \in CallsOf(r, s) : /\ calls[i].error # "BUDGET_EXCEEDED"
                                       /\ calls[i].status # "IN_FLIGHT"})

\* The record is the reservation: every call of the task counts, whatever became
\* of it, but those that were refused for the budget.
Attempts(r, s) == Cardinality({i \in CallsOf(r, s) : calls[i].error # "BUDGET_EXCEEDED"})

Entered(r) ==
    [run |-> r, stage |-> run[r].stage, status |-> "IN_FLIGHT", error |-> None,
     envelope |-> FALSE, codes |-> {}, at |-> "tool", write |-> "none", outcome |-> None]

Catches(r) == Stages[run[r].stage] \in Catching

\* The errors the calls of the stage were given.
Raised(r) == {calls[i].outcome : i \in CallsOf(r, run[r].stage)} \ {None, "RESULT"}

\* An agent makes one call after the other until one raises; one that catches
\* errors goes on, and may have several calls under way.
MayCall(r) ==
    /\ run[r].status = "RUNNING" /\ r \notin cancelling
    /\ Cardinality({i \in DOMAIN calls : calls[i].run = r}) < MaxCallsOf[r]
    /\ Cardinality(Outstanding(r)) < (IF Catches(r) THEN Width ELSE 1)
    /\ Catches(r) \/ Raised(r) = {}

\* invoke, up to the await of the tool or of the sink.
Invoke(r) ==
    /\ MayCall(r)
    /\ \E granted, envelope \in BOOLEAN :
         /\ envelope \/ Lost < MaxLost
         /\ calls' = Append(calls,
           IF Attempts(r, run[r].stage) >= MaxCallsPerTask
             THEN Finish(Entered(r), "DENIED", "BUDGET_EXCEEDED", envelope)
           ELSE IF ~granted
             THEN Finish(Entered(r), "DENIED", "TOOL_CALL_DENIED", envelope)
           ELSE Entered(r))
    /\ UNCHANGED <<run, cancelling, sink, ledger, events>>

\* The tool ends; after a cancellation it cannot end otherwise.
ToolEnds(i) ==
    /\ calls[i].at = "tool"
    /\ \E envelope \in BOOLEAN,
          end \in {<<"SUCCESS", None>>, <<"FAILED", "TOOL_EXECUTION_FAILED">>,
                  <<"CANCELLED", "TOOL_CALL_CANCELLED">>} :
         /\ envelope \/ Lost < MaxLost
         /\ (end[1] = "CANCELLED") = (calls[i].run \in cancelling)
         /\ calls' = [calls EXCEPT ![i] = Finish(@, end[1], end[2], envelope)]
    /\ UNCHANGED <<run, cancelling, sink, ledger, events>>

\* The task that persists a record commits the ledger row and the outbox row in
\* one transaction, or fails; it goes on when its caller no longer waits.
WriteCommits(i) ==
    /\ calls[i].write = "open"
    /\ calls' = [calls EXCEPT ![i].write = "committed"]
    /\ ledger' = ledger \cup {i}
    /\ UNCHANGED <<run, cancelling, sink, events>>

WriteFails(i) ==
    /\ calls[i].write = "open" /\ Lost < MaxLost
    /\ calls' = [calls EXCEPT ![i].write = "failed"]
    /\ UNCHANGED <<run, cancelling, sink, ledger, events>>

\* The caller, not cancelled, learns how the write ended.
SinkAnswers(i) ==
    /\ calls[i].at = "sink" /\ calls[i].write \in {"committed", "failed"}
    /\ calls[i].run \in cancelling => calls[i].status = "CANCELLED"
    /\ calls' = [calls EXCEPT ![i] = IF @.write = "committed" THEN Ended(@, Outcome(@))
                                     ELSE NotRecorded(@)]
    /\ UNCHANGED <<run, cancelling, sink, ledger, events>>

\* The record of a cancelled call is waited for a bounded time only.
SinkTimesOut(i) ==
    /\ calls[i].at = "sink" /\ calls[i].write = "open" /\ calls[i].status = "CANCELLED"
    /\ calls' = [calls EXCEPT ![i] = NotRecorded(@)]
    /\ UNCHANGED <<run, cancelling, sink, ledger, events>>

\* The caller is cancelled while it waits for the sink: it waits on for the
\* writer, or leaves at once if the sink only writes an event.
SinkCancelled(i) ==
    /\ calls[i].at = "sink" /\ calls[i].run \in cancelling /\ calls[i].status # "CANCELLED"
    /\ calls' = [calls EXCEPT ![i] = IF @.write = "none" THEN Ended(@, "CANCELLED")
                                     ELSE [@ EXCEPT !.at = "drain"]]
    /\ UNCHANGED <<run, cancelling, sink, ledger, events>>

\* Mistaken: the drain has no time limit.
DrainEndsWithWrite(i) ==
    /\ calls[i].at = "drain" /\ calls[i].write # "open"
    /\ calls' = [calls EXCEPT ![i] = Ended(@, "CANCELLED")]
    /\ UNCHANGED <<run, cancelling, sink, ledger, events>>

\* _persist_terminal_with_cancellation_drain: the write ended or the time is up;
\* how it ended is not looked at.
DrainEnds(i) ==
    /\ calls[i].at = "drain"
    /\ calls' = [calls EXCEPT ![i] = Ended(@, "CANCELLED")]
    /\ UNCHANGED <<run, cancelling, sink, ledger, events>>

\* The event was not written: only the codes show it.
NotWritten(c) ==
    Ended([c EXCEPT !.codes = @ \cup {"INVOCATION_EVENT_SINK_FAILED"}], Outcome(c))

\* The event sink of a session without a ledger writes the event, or fails,
\* which changes nothing but the codes.
EventSinkAnswers(i) ==
    /\ calls[i].at = "sink" /\ calls[i].write = "none"
    /\ calls[i].run \in cancelling => calls[i].status = "CANCELLED"
    /\ \/ /\ calls' = [calls EXCEPT ![i] = Ended(@, Outcome(@))]
          /\ events' = events \cup {i}
       \/ /\ Lost < MaxLost
          /\ calls' = [calls EXCEPT ![i] = NotWritten(@)]
          /\ UNCHANGED events
    /\ UNCHANGED <<run, cancelling, sink, ledger>>

-----------------------------------------------------------------------------
(* The supervisor around a stage                                           *)

\* Mistaken: the calls of every run are looked at.
AuditFailedAnywhere(r) ==
    \E i \in DOMAIN calls : /\ i > run[r].cursor
                            /\ "INVOCATION_AUDIT_PERSIST_FAILED" \in calls[i].codes

\* Mistaken: an error the agent dealt with is not looked for.
AuditRaised(r) ==
    \E i \in CallsOf(r, run[r].stage) : /\ calls[i].outcome = "AUDIT_ERROR"
                                        /\ Stages[run[r].stage] \notin Catching

\* _raise_if_invocation_audit_failed: the calls made since the stage began, of
\* this run.
AuditFailed(r) ==
    \E i \in DOMAIN calls : /\ i > run[r].cursor /\ calls[i].run = r
                            /\ "INVOCATION_AUDIT_PERSIST_FAILED" \in calls[i].codes

\* The next stage begins with a cursor at the calls made so far; the run has the
\* artifacts of the given stages.
Advance(r, artifacts) ==
    IF run[r].stage = Len(Stages)
    THEN [run[r] EXCEPT !.status = "COMPLETED", !.artifacts = artifacts]
    ELSE [run[r] EXCEPT !.stage = @ + 1, !.cursor = Len(calls), !.artifacts = artifacts]

\* The errors of tools that the agent of the stage let out.
LetOut(r) == IF Catches(r) THEN {} ELSE Raised(r)

\* The stage is over: the run was cancelled, or the agent let the failure of the
\* audit out, which ends the run; or it raised the error of a tool or one of its
\* own, as any agent may, also one that caught the errors of its calls, and then
\* a critical stage fails the run while another is passed with a failed artifact
\* in the place of the agent's, and its calls are not looked at; or the agent
\* returned an artifact, for which they are.
EndStage(r) ==
    /\ run[r].status = "RUNNING" /\ Outstanding(r) = {}
    /\ \E raises \in BOOLEAN :
         run' = [run EXCEPT ![r] =
           IF r \in cancelling THEN [@ EXCEPT !.status = "CANCELLED"]
           ELSE IF "AUDIT_ERROR" \in LetOut(r) THEN [@ EXCEPT !.status = "AUDIT_FAILED"]
           ELSE IF raises \/ "ERROR" \in LetOut(r)
             THEN IF Stages[@.stage] \in Critical THEN [@ EXCEPT !.status = "FAILED"]
                  ELSE Advance(r, @.artifacts)
           ELSE IF AuditFailed(r) THEN [@ EXCEPT !.status = "AUDIT_FAILED"]
           ELSE Advance(r, @.artifacts \cup {@.stage})]
    /\ UNCHANGED <<calls, cancelling, sink, ledger, events>>

\* The task of the run is cancelled, at whatever await it is.
Cancel(r) ==
    /\ run[r].status = "RUNNING" /\ r \notin cancelling
    /\ Cardinality(cancelling) < MaxCancels
    /\ cancelling' = cancelling \cup {r}
    /\ UNCHANGED <<calls, run, sink, ledger, events>>

-----------------------------------------------------------------------------
Init ==
    /\ calls = <<>> /\ cancelling = {} /\ ledger = {} /\ events = {}
    /\ run = [r \in Runs |-> [stage |-> 1, cursor |-> 0, status |-> "RUNNING",
                             artifacts |-> {}]]
    /\ sink \in {f \in [Runs -> UNION {Sinks[r] : r \in Runs}] :
                  \A r \in Runs : f[r] \in Sinks[r]}

Next ==
    \/ \E r \in Runs : Invoke(r) \/ EndStage(r) \/ Cancel(r)
    \/ \E i \in DOMAIN calls :
         \/ ToolEnds(i) \/ WriteCommits(i) \/ WriteFails(i) \/ SinkAnswers(i)
         \/ SinkTimesOut(i) \/ SinkCancelled(i) \/ DrainEnds(i) \/ EventSinkAnswers(i)

\* A coroutine whose cancellation, time limit or answer is due goes on; no tool
\* need ever end of itself, and no write of a record or an event need ever end.
Progress(i) ==
    /\ i \in DOMAIN calls
    /\ \/ calls[i].run \in cancelling /\ ToolEnds(i)
       \/ SinkAnswers(i) \/ SinkTimesOut(i) \/ SinkCancelled(i) \/ DrainEnds(i)

Spec == Init /\ [][Next]_vars
FairSpec ==
    /\ Spec
    /\ \A i \in 1 .. MapThenSumSet(LAMBDA r : MaxCallsOf[r], Runs) : WF_vars(Progress(i))
    /\ \A r \in Runs : WF_vars(EndStage(r))

-----------------------------------------------------------------------------
(* Properties                                                              *)

\* Of the calls of one task, however they overlap, at most MaxCallsPerTask ever
\* reach a tool.
BudgetKept ==
    \A r \in Runs, s \in 1 .. Len(Stages) :
      Cardinality({i \in CallsOf(r, s) :
                     calls[i].error \notin {"BUDGET_EXCEEDED", "TOOL_CALL_DENIED"}})
        <= MaxCallsPerTask

\* In a fail-closed run nothing is built on a call that left no trace: an agent
\* is given a result, or an error of the tool, only when its record is
\* committed, and the artifact an agent returns goes into the run only when the
\* records of all calls of its stage are, also those whose failure it caught
\* (invoke, _raise_if_invocation_audit_failed).  A stage that is not critical and
\* whose agent caught a lost record and then raised an error of its own is
\* passed all the same, without its artifact: that is what the code does.
WhatIsUsedIsRecorded ==
    \A i \in DOMAIN calls :
      LET r == calls[i].run
      IN  (/\ sink[r] = "FAIL_CLOSED"
           /\ \/ calls[i].outcome \in {"RESULT", "ERROR"}
              \/ calls[i].stage \in run[r].artifacts)
            => i \in ledger

\* A run that ends with an audit failure has lost a record of its own, whatever
\* happened to the calls of other runs on the same gateway.
AuditFailuresAreOwn ==
    \A r \in Runs :
      run[r].status = "AUDIT_FAILED" =>
        \E i \in CallsOf(r, run[r].stage) :
          sink[r] # "EVENTS" /\ calls[i].write \in {"none", "failed"}

\* A cancelled run that writes to the ledger stops, even if the tool it waits for
\* never ends of itself and the database never answers; it does not complete.
CancelledRunsStop ==
    \A r \in Runs :
      (r \in cancelling /\ sink[r] # "EVENTS") ~> (run[r].status = "CANCELLED")
=============================================================================
