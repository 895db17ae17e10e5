-------------------------- MODULE ToolGatewayProofs --------------------------
(***************************************************************************)
(* Proofs about ToolGateway for any runs, stages, sinks, budgets and       *)
(* bounds: what the calls of concurrent tasks leave behind.                *)
(***************************************************************************)
EXTENDS ToolGateway, FiniteSetTheorems, TLAPS

AuditCode == "INVOCATION_AUDIT_PERSIST_FAILED"
Codes == {AuditCode, "INVOCATION_ENVELOPE_UNAVAILABLE", "INVOCATION_EVENT_SINK_FAILED"}

ToolCall ==
  [run : Runs, stage : 1 .. Len(Stages),
   status : {"IN_FLIGHT", "SUCCESS", "DENIED", "FAILED", "CANCELLED"},
   error : {None, "BUDGET_EXCEEDED", "TOOL_CALL_DENIED", "TOOL_CALL_CANCELLED",
            "TOOL_EXECUTION_FAILED"},
   envelope : BOOLEAN, codes : SUBSET Codes,
   at : {"tool", "sink", "drain", "ended"},
   write : {"none", "open", "committed", "failed"},
   outcome : {None, "RESULT", "ERROR", "AUDIT_ERROR", "CANCELLED"}]

RunState ==
  [stage : 1 .. Len(Stages), cursor : Nat, artifacts : SUBSET (1 .. Len(Stages)),
   status : {"RUNNING", "COMPLETED", "FAILED", "AUDIT_FAILED", "CANCELLED"}]

\* A run that goes on has artifacts of the stages before this one only.
Behind(x) == x.status = "RUNNING" => \A s \in x.artifacts : s < x.stage

TypeInv ==
  /\ calls \in Seq(ToolCall)
  /\ run \in [Runs -> RunState]
  /\ cancelling \subseteq Runs
  /\ sink \in [Runs -> {"FAIL_CLOSED", "BEST_EFFORT", "EVENTS"}]
  /\ ledger \subseteq DOMAIN calls
  /\ \A r \in Runs : run[r].cursor <= Len(calls) /\ Behind(run[r])

\* What a call says of itself, given the sink of its run and whether that is
\* being cancelled: it waits for a writer only if there is one, its outcome comes
\* when it ends, and an outcome an agent may build on has been recorded.
CallInv(c) ==
  /\ c.at = "tool" => c.error = None /\ c.write = "none"
  /\ c.at = "sink" => (c.write = "none" <=> sink[c.run] = "EVENTS")
  /\ c.at = "drain" => c.run \in cancelling
  /\ c.write # "none" => sink[c.run] # "EVENTS"
  /\ c.at = "ended" <=> c.outcome # None
  /\ AuditCode \in c.codes =>
       /\ c.at = "ended" /\ sink[c.run] # "EVENTS"
       /\ c.write \in {"none", "failed"} \/ c.run \in cancelling
  /\ c.status = "CANCELLED" \/ c.outcome = "CANCELLED" => c.run \in cancelling
  /\ sink[c.run] = "FAIL_CLOSED" /\ c.outcome \in {"RESULT", "ERROR"} => c.write = "committed"
  /\ c.outcome = "AUDIT_ERROR" => AuditCode \in c.codes

\* How a call stands to its run and to the ledger: calls under way are of the
\* current stage, which began at the cursor, and those of a stage whose artifact
\* the run has are recorded.
PlaceInv(i) ==
  LET c == calls[i]
      r == run[c.run]
  IN  /\ i \in ledger <=> c.write = "committed"
      /\ c.at # "ended" => r.status = "RUNNING" /\ c.stage = r.stage
      /\ c.stage <= r.stage
      /\ c.stage = r.stage <=> i > r.cursor
      /\ sink[c.run] = "FAIL_CLOSED" /\ c.stage \in r.artifacts => i \in ledger

Tried(r, s) == {i \in CallsOf(r, s) : calls[i].error # "BUDGET_EXCEEDED"}
BudgetInv == \A r \in Runs, s \in 1 .. Len(Stages) : Cardinality(Tried(r, s)) <= MaxCallsPerTask

GatewayInv ==
  /\ TypeInv /\ BudgetInv /\ AuditFailuresAreOwn
  /\ \A i \in DOMAIN calls : CallInv(calls[i]) /\ PlaceInv(i)

-----------------------------------------------------------------------------
(* What a step does to one call.                                           *)

\* The calls of a typed state.
LEMMA CallsTyped ==
  ASSUME TypeInv
  PROVE  /\ DOMAIN calls = 1 .. Len(calls) /\ Len(calls) \in Nat
         /\ \A i \in DOMAIN calls : calls[i] \in ToolCall
BY DEF TypeInv

\* The attempts of a task are finitely many.
LEMMA TriedFinite ==
  ASSUME TypeInv, NEW r \in Runs, NEW s \in 1 .. Len(Stages)
  PROVE  IsFiniteSet(Tried(r, s)) /\ Cardinality(Tried(r, s)) \in Nat
<1>1. IsFiniteSet(1 .. Len(calls))
  BY CallsTyped, FS_Interval
<1>2. Tried(r, s) \subseteq 1 .. Len(calls)
  BY CallsTyped DEF Tried, CallsOf
<1> QED
  BY <1>1, <1>2, FS_Subset, FS_CardinalityType

\* A step that changes one call in the way calls change keeps the invariant: the
\* call stays in its run and stage and keeps its attempt, nothing recorded is
\* forgotten, and what has ended stays as it ended.
LEMMA ChangeKeeps ==
  ASSUME GatewayInv, NEW i \in DOMAIN calls, NEW c \in ToolCall,
         calls' = [calls EXCEPT ![i] = c],
         c.run = calls[i].run, c.stage = calls[i].stage,
         c.error = "BUDGET_EXCEEDED" <=> calls[i].error = "BUDGET_EXCEEDED",
         UNCHANGED <<run, cancelling, sink>>, CallInv(c),
         ledger' = IF c.write = "committed" THEN ledger \union {i} ELSE ledger,
         calls[i].write = "committed" => c.write = "committed",
         c.at # "ended" => calls[i].at # "ended",
         calls[i].at = "ended" =>
           /\ c.outcome = calls[i].outcome
           /\ calls[i].write \in {"none", "failed"} => c.write = calls[i].write
  PROVE  GatewayInv'
<1>1. /\ DOMAIN calls' = DOMAIN calls /\ Len(calls') = Len(calls)
      /\ \A j \in DOMAIN calls : calls'[j] = IF j = i THEN c ELSE calls[j]
  BY DEF GatewayInv, TypeInv
<1>2. TypeInv'
  BY <1>1 DEF GatewayInv, TypeInv
<1>3. \A j \in DOMAIN calls : calls'[j].run = calls[j].run /\ calls'[j].stage = calls[j].stage
  BY <1>1
<1>4. \A j \in DOMAIN calls : CallInv(calls[j])'
  BY <1>1 DEF GatewayInv, CallInv
<1>5. \A j \in DOMAIN calls : PlaceInv(j)'
  <2> SUFFICES ASSUME NEW j \in DOMAIN calls PROVE PlaceInv(j)'
    OBVIOUS
  <2>1. CASE j = i
    BY <1>1, <2>1 DEF GatewayInv, PlaceInv
  <2>2. CASE j # i
    BY <1>1, <2>2 DEF GatewayInv, PlaceInv
  <2> QED
    BY <2>1, <2>2
<1>7. BudgetInv'
  <2>1. \A r \in Runs, s \in 1 .. Len(Stages) : Tried(r, s)' = Tried(r, s)
    BY <1>1, <1>3 DEF Tried, CallsOf
  <2> QED
    BY <2>1 DEF GatewayInv, BudgetInv
<1>8. AuditFailuresAreOwn'
  <2> SUFFICES ASSUME NEW r \in Runs, run[r].status = "AUDIT_FAILED"
               PROVE  \E j \in CallsOf(r, run[r].stage)' :
                        sink[r] # "EVENTS" /\ calls'[j].write \in {"none", "failed"}
    BY DEF AuditFailuresAreOwn
  <2>1. PICK j \in CallsOf(r, run[r].stage) :
          sink[r] # "EVENTS" /\ calls[j].write \in {"none", "failed"}
    BY DEF GatewayInv, AuditFailuresAreOwn
  <2>2. j \in DOMAIN calls /\ calls[j].run = r /\ calls[j].at = "ended"
    BY <2>1 DEF CallsOf, GatewayInv, PlaceInv
  <2>3. calls'[j].write = calls[j].write /\ j \in CallsOf(r, run[r].stage)'
    BY <1>1, <1>3, <2>1, <2>2 DEF CallsOf
  <2> QED
    BY <2>1, <2>3
<1> QED
  BY <1>1, <1>2, <1>4, <1>5, <1>7, <1>8 DEF GatewayInv

\* What a call is told depends on how its tool ended.
LEMMA OutcomeGives ==
  ASSUME NEW c
  PROVE  /\ Outcome(c) \in {"RESULT", "ERROR", "CANCELLED"}
         /\ Outcome(c) = "CANCELLED" <=> c.status = "CANCELLED"
BY DEF Outcome

\* Ending a call changes only where it is and what the agent is given.
LEMMA EndedGives ==
  ASSUME NEW c \in ToolCall, NEW outcome \in {"RESULT", "ERROR", "AUDIT_ERROR", "CANCELLED"}
  PROVE  /\ Ended(c, outcome) \in ToolCall
         /\ Ended(c, outcome).at = "ended" /\ Ended(c, outcome).outcome = outcome
         /\ Ended(c, outcome).run = c.run /\ Ended(c, outcome).stage = c.stage
         /\ Ended(c, outcome).status = c.status /\ Ended(c, outcome).error = c.error
         /\ Ended(c, outcome).write = c.write /\ Ended(c, outcome).codes = c.codes
BY DEF Ended, ToolCall

\* A call whose record was not taken ends with the code of the lost record.
LEMMA NotRecordedGives ==
  ASSUME NEW c \in ToolCall
  PROVE  /\ NotRecorded(c) \in ToolCall
         /\ NotRecorded(c).at = "ended"
         /\ NotRecorded(c).outcome = IF sink[c.run] = "FAIL_CLOSED" /\ c.status # "CANCELLED"
                                     THEN "AUDIT_ERROR" ELSE Outcome(c)
         /\ NotRecorded(c).run = c.run /\ NotRecorded(c).stage = c.stage
         /\ NotRecorded(c).status = c.status /\ NotRecorded(c).error = c.error
         /\ NotRecorded(c).write = c.write /\ NotRecorded(c).codes = c.codes \union {AuditCode}
<1> DEFINE coded == [c EXCEPT !.codes = @ \union {"INVOCATION_AUDIT_PERSIST_FAILED"}]
           outcome == IF sink[c.run] = "FAIL_CLOSED" /\ c.status # "CANCELLED"
                      THEN "AUDIT_ERROR" ELSE Outcome(c)
<1>1. /\ coded \in ToolCall /\ coded.run = c.run /\ coded.stage = c.stage
      /\ coded.status = c.status /\ coded.error = c.error /\ coded.write = c.write
      /\ coded.codes = c.codes \union {AuditCode}
  BY DEF ToolCall, Codes, AuditCode
<1>2. NotRecorded(c) = Ended(coded, outcome)
  BY DEF NotRecorded
<1>3. outcome \in {"RESULT", "ERROR", "AUDIT_ERROR", "CANCELLED"}
  BY OutcomeGives
<1> HIDE DEF coded, outcome
<1>4. /\ NotRecorded(c) \in ToolCall
      /\ NotRecorded(c).at = "ended" /\ NotRecorded(c).outcome = outcome
      /\ NotRecorded(c).run = coded.run /\ NotRecorded(c).stage = coded.stage
      /\ NotRecorded(c).status = coded.status /\ NotRecorded(c).error = coded.error
      /\ NotRecorded(c).write = coded.write /\ NotRecorded(c).codes = coded.codes
  BY <1>1, <1>2, <1>3, EndedGives
<1> QED
  BY <1>1, <1>4 DEF outcome

\* What finish and emit make of a call that has not been handed over yet.
LEMMA FinishGives ==
  ASSUME TypeInv, NEW c \in ToolCall, c.write = "none", c.outcome = None,
         NEW status \in {"SUCCESS", "DENIED", "FAILED", "CANCELLED"},
         NEW error \in {None, "BUDGET_EXCEEDED", "TOOL_CALL_DENIED", "TOOL_CALL_CANCELLED",
                        "TOOL_EXECUTION_FAILED"},
         NEW envelope \in BOOLEAN,
         status = "CANCELLED" => c.run \in cancelling
  PROVE  /\ Finish(c, status, error, envelope) \in ToolCall
         /\ Finish(c, status, error, envelope).run = c.run
         /\ Finish(c, status, error, envelope).stage = c.stage
         /\ Finish(c, status, error, envelope).error = error
         /\ Finish(c, status, error, envelope).write \in {"none", "open"}
         /\ CallInv(Finish(c, status, error, envelope))
<1> DEFINE codes == IF envelope THEN {} ELSE {"INVOCATION_ENVELOPE_UNAVAILABLE"}
           d == [c EXCEPT !.status = status, !.error = error, !.envelope = envelope,
                          !.codes = codes]
<1>0. codes \in SUBSET Codes /\ AuditCode \notin codes
  BY DEF AuditCode, Codes
<1>2. Finish(c, status, error, envelope) = Emit(d)
  BY DEF Finish
<1> HIDE DEF codes
<1>1. /\ d \in ToolCall /\ d.run = c.run /\ d.stage = c.stage /\ d.error = error
      /\ d.status = status /\ d.envelope = envelope /\ d.write = "none" /\ d.outcome = None
      /\ AuditCode \notin d.codes
  BY ZenonT(60), <1>0 DEF ToolCall
<1> HIDE DEF d
<1>3. c.run \in Runs /\ sink[c.run] \in {"FAIL_CLOSED", "BEST_EFFORT", "EVENTS"}
  BY DEF ToolCall, TypeInv
<1>4. CASE envelope
  <2>1. Emit(d) = [d EXCEPT !.at = "sink",
                     !.write = IF sink[c.run] = "EVENTS" THEN "none" ELSE "open"]
    BY ZenonT(60), <1>1, <1>4 DEF Emit, ToolCall
  <2> DEFINE e == Emit(d)
  <2>2. /\ e \in ToolCall /\ e.run = c.run /\ e.stage = c.stage /\ e.error = error
        /\ e.status = status /\ e.outcome = None /\ e.codes = d.codes /\ e.at = "sink"
        /\ e.write = IF sink[c.run] = "EVENTS" THEN "none" ELSE "open"
    BY <1>1, <2>1 DEF ToolCall
  <2> HIDE DEF e
  <2>3. CallInv(e)
    BY <1>1, <1>3, <2>2, GatewayAssumption DEF CallInv
  <2> QED
    BY <1>2, <2>2, <2>3 DEF e
<1>5. CASE ~envelope /\ sink[c.run] # "EVENTS"
  <2>1. Finish(c, status, error, envelope) = NotRecorded(d)
    BY <1>1, <1>2, <1>5 DEF Emit
  <2> DEFINE e == NotRecorded(d)
  <2>2. /\ e \in ToolCall /\ e.at = "ended" /\ e.run = c.run /\ e.stage = c.stage
        /\ e.status = status /\ e.error = error /\ e.write = "none" /\ AuditCode \in e.codes
        /\ e.outcome = IF sink[c.run] = "FAIL_CLOSED" /\ status # "CANCELLED"
                       THEN "AUDIT_ERROR" ELSE Outcome(d)
    BY <1>1, NotRecordedGives
  <2>3. Outcome(d) \in {"RESULT", "ERROR", "CANCELLED"}
        /\ (Outcome(d) = "CANCELLED" <=> status = "CANCELLED")
    BY <1>1, OutcomeGives
  <2> HIDE DEF e
  <2>4. CallInv(e)
    BY <1>5, <2>2, <2>3, GatewayAssumption DEF CallInv
  <2> QED
    BY <2>1, <2>2, <2>4 DEF e
<1>6. CASE ~envelope /\ sink[c.run] = "EVENTS"
  <2>1. Finish(c, status, error, envelope) = Ended(d, Outcome(d))
    BY <1>1, <1>2, <1>6 DEF Emit
  <2>2. Outcome(d) \in {"RESULT", "ERROR", "CANCELLED"}
        /\ (Outcome(d) = "CANCELLED" <=> status = "CANCELLED")
    BY <1>1, OutcomeGives
  <2> DEFINE e == Ended(d, Outcome(d))
  <2>3. /\ e \in ToolCall /\ e.at = "ended" /\ e.run = c.run /\ e.stage = c.stage
        /\ e.status = status /\ e.error = error /\ e.write = "none" /\ e.codes = d.codes
        /\ e.outcome = Outcome(d)
    BY <1>1, <2>2, EndedGives
  <2> HIDE DEF e
  <2>4. CallInv(e)
    BY <1>1, <1>6, <2>2, <2>3, GatewayAssumption DEF CallInv
  <2> QED
    BY <2>1, <2>3, <2>4 DEF e
<1> QED
  BY <1>4, <1>5, <1>6

-----------------------------------------------------------------------------
(* The steps of a call.                                                    *)

\* A call of an invariant state.
LEMMA CallHas ==
  ASSUME GatewayInv, NEW i \in DOMAIN calls
  PROVE  /\ TypeInv /\ calls[i] \in ToolCall /\ CallInv(calls[i]) /\ PlaceInv(i)
         /\ calls[i].run \in Runs
         /\ sink[calls[i].run] \in {"FAIL_CLOSED", "BEST_EFFORT", "EVENTS"}
<1>1. calls[i] \in ToolCall
  BY CallsTyped DEF GatewayInv
<1> QED
  BY <1>1 DEF GatewayInv, TypeInv, ToolCall

\* A tool ends and its record is handed over, or cannot be.
LEMMA ToolEndsKeeps ==
  ASSUME GatewayInv, NEW i \in DOMAIN calls, ToolEnds(i)
  PROVE  GatewayInv'
<1>1. PICK envelope \in BOOLEAN,
           end \in {<<"SUCCESS", None>>, <<"FAILED", "TOOL_EXECUTION_FAILED">>,
                   <<"CANCELLED", "TOOL_CALL_CANCELLED">>} :
        /\ (end[1] = "CANCELLED") = (calls[i].run \in cancelling)
        /\ calls' = [calls EXCEPT ![i] = Finish(@, end[1], end[2], envelope)]
  BY DEF ToolEnds
<1>2. /\ TypeInv /\ calls[i] \in ToolCall /\ calls[i].write = "none"
      /\ calls[i].outcome = None /\ calls[i].error = None /\ calls[i].at = "tool"
  BY CallHas DEF CallInv, ToolEnds
<1>3. /\ end[1] \in {"SUCCESS", "DENIED", "FAILED", "CANCELLED"}
      /\ end[2] \in {None, "TOOL_EXECUTION_FAILED", "TOOL_CALL_CANCELLED"}
      /\ end[1] = "CANCELLED" => calls[i].run \in cancelling
  BY <1>1
<1> DEFINE c == Finish(calls[i], end[1], end[2], envelope)
<1>4. /\ c \in ToolCall /\ c.run = calls[i].run /\ c.stage = calls[i].stage
      /\ c.error = end[2] /\ c.write \in {"none", "open"} /\ CallInv(c)
  BY <1>2, <1>3, FinishGives
<1>5. calls' = [calls EXCEPT ![i] = c]
  BY <1>1
<1> HIDE DEF c
<1>6. UNCHANGED <<run, cancelling, sink, ledger>>
  BY DEF ToolEnds
<1> QED
  BY <1>2, <1>3, <1>4, <1>5, <1>6, ChangeKeeps, GatewayAssumption

\* A write ends, whether or not its caller still waits for it.
LEMMA WritesKeep ==
  ASSUME GatewayInv, NEW i \in DOMAIN calls, WriteCommits(i) \/ WriteFails(i)
  PROVE  GatewayInv'
<1>1. calls[i] \in ToolCall /\ CallInv(calls[i]) /\ calls[i].write = "open"
  BY CallHas DEF WriteCommits, WriteFails
<1>2. PICK end \in {"committed", "failed"} :
        /\ calls' = [calls EXCEPT ![i].write = end]
        /\ ledger' = IF end = "committed" THEN ledger \union {i} ELSE ledger
        /\ UNCHANGED <<run, cancelling, sink>>
  BY DEF WriteCommits, WriteFails
<1> DEFINE c == [calls[i] EXCEPT !.write = end]
<1>3. /\ c \in ToolCall /\ c.run = calls[i].run /\ c.stage = calls[i].stage
      /\ c.status = calls[i].status /\ c.error = calls[i].error /\ c.codes = calls[i].codes
      /\ c.at = calls[i].at /\ c.outcome = calls[i].outcome /\ c.write = end
  BY <1>1 DEF ToolCall
<1>4. calls' = [calls EXCEPT ![i] = c]
  BY <1>2
<1> HIDE DEF c
<1>5. CallInv(c)
  BY <1>1, <1>3 DEF CallInv
<1> QED
  BY ZenonT(60), <1>1, <1>2, <1>3, <1>4, <1>5, ChangeKeeps

\* A call that waits for its sink, or for a write it is no longer told of, ends:
\* its record is left as it is.
LEMMA WaitEndsKeeps ==
  ASSUME GatewayInv, NEW i \in DOMAIN calls, NEW c \in ToolCall,
         calls' = [calls EXCEPT ![i] = c], UNCHANGED <<run, cancelling, sink, ledger>>,
         calls[i].at \in {"sink", "drain"}, c.at = "ended",
         c.run = calls[i].run, c.stage = calls[i].stage, c.status = calls[i].status,
         c.error = calls[i].error, c.write = calls[i].write,
         c.outcome # None, c.outcome = "CANCELLED" => c.run \in cancelling,
         sink[c.run] = "FAIL_CLOSED" /\ c.outcome \in {"RESULT", "ERROR"}
           => c.write = "committed",
         c.outcome = "AUDIT_ERROR" => AuditCode \in c.codes,
         AuditCode \in c.codes =>
           sink[c.run] # "EVENTS" /\ (c.write \in {"none", "failed"} \/ c.run \in cancelling)
  PROVE  GatewayInv'
<1>1. /\ calls[i] \in ToolCall /\ CallInv(calls[i]) /\ PlaceInv(i) /\ calls[i].at # "ended"
  BY CallHas
<1>2. CallInv(c)
  BY <1>1 DEF CallInv
<1>3. ledger' = IF c.write = "committed" THEN ledger \union {i} ELSE ledger
  BY <1>1 DEF PlaceInv
<1> QED
  BY <1>1, <1>2, <1>3, ChangeKeeps

\* The sink answers, or a cancelled call stops waiting for it.
LEMMA SinkKeeps ==
  ASSUME GatewayInv, NEW i \in DOMAIN calls,
         SinkAnswers(i) \/ SinkTimesOut(i) \/ EventSinkAnswers(i)
  PROVE  GatewayInv'
<1>1. /\ calls[i] \in ToolCall /\ CallInv(calls[i]) /\ calls[i].at = "sink"
      /\ AuditCode \notin calls[i].codes
  BY CallHas DEF SinkAnswers, SinkTimesOut, EventSinkAnswers, CallInv
<1>2. /\ Outcome(calls[i]) \in {"RESULT", "ERROR", "CANCELLED"}
      /\ Outcome(calls[i]) = "CANCELLED" <=> calls[i].status = "CANCELLED"
  BY OutcomeGives
<1>3. UNCHANGED <<run, cancelling, sink, ledger>>
  BY DEF SinkAnswers, SinkTimesOut, EventSinkAnswers
<1>4. CASE calls' = [calls EXCEPT ![i] = NotRecorded(calls[i])]
          /\ (calls[i].write # "failed" => calls[i].write = "open" /\ calls[i].status = "CANCELLED")
  <2> DEFINE c == NotRecorded(calls[i])
  <2>1. /\ c \in ToolCall /\ c.at = "ended"
        /\ c.outcome = IF sink[calls[i].run] = "FAIL_CLOSED" /\ calls[i].status # "CANCELLED"
                       THEN "AUDIT_ERROR" ELSE Outcome(calls[i])
        /\ c.run = calls[i].run /\ c.stage = calls[i].stage /\ c.status = calls[i].status
        /\ c.error = calls[i].error /\ c.write = calls[i].write /\ AuditCode \in c.codes
    BY <1>1, NotRecordedGives
  <2>2. calls' = [calls EXCEPT ![i] = c]
    BY <1>4
  <2> HIDE DEF c
  <2>3. sink[c.run] # "EVENTS" /\ (c.status = "CANCELLED" => c.run \in cancelling)
    BY <1>1, <1>4, <2>1 DEF CallInv
  <2>4. /\ c.outcome # None /\ (c.outcome = "CANCELLED" => c.run \in cancelling)
        /\ ~(sink[c.run] = "FAIL_CLOSED" /\ c.outcome \in {"RESULT", "ERROR"})
        /\ c.write \in {"none", "failed"} \/ c.run \in cancelling
    BY <1>2, <1>4, <2>1, <2>3, GatewayAssumption
  <2> QED
    BY <1>1, <1>3, <2>1, <2>2, <2>3, <2>4, WaitEndsKeeps
<1>5. CASE calls' = [calls EXCEPT ![i] = Ended(calls[i], Outcome(calls[i]))]
          /\ calls[i].write \in {"none", "committed"}
  <2> DEFINE c == Ended(calls[i], Outcome(calls[i]))
  <2>1. /\ c \in ToolCall /\ c.at = "ended" /\ c.outcome = Outcome(calls[i])
        /\ c.run = calls[i].run /\ c.stage = calls[i].stage /\ c.status = calls[i].status
        /\ c.error = calls[i].error /\ c.write = calls[i].write /\ c.codes = calls[i].codes
    BY <1>1, <1>2, EndedGives
  <2>2. calls' = [calls EXCEPT ![i] = c]
    BY <1>5
  <2> HIDE DEF c
  <2>3. /\ c.status = "CANCELLED" => c.run \in cancelling
        /\ c.write = "none" => sink[c.run] = "EVENTS"
    BY <1>1, <2>1 DEF CallInv
  <2>4. /\ c.outcome # None /\ (c.outcome = "CANCELLED" => c.run \in cancelling)
        /\ c.outcome # "AUDIT_ERROR" /\ AuditCode \notin c.codes
        /\ sink[c.run] = "FAIL_CLOSED" => c.write = "committed"
    BY <1>1, <1>2, <1>5, <2>1, <2>3, GatewayAssumption
  <2> QED
    BY <1>1, <1>3, <2>1, <2>2, <2>4, WaitEndsKeeps
<1>6. CASE EventSinkAnswers(i) /\ events' = events
  <2> DEFINE coded == [calls[i] EXCEPT !.codes = @ \union {"INVOCATION_EVENT_SINK_FAILED"}]
             c == NotWritten(calls[i])
  <2>0. c = Ended(coded, Outcome(calls[i]))
    BY DEF NotWritten
  <2>1. /\ coded \in ToolCall /\ coded.run = calls[i].run /\ coded.stage = calls[i].stage
        /\ coded.status = calls[i].status /\ coded.error = calls[i].error
        /\ coded.write = calls[i].write /\ AuditCode \notin coded.codes
    BY <1>1 DEF ToolCall, Codes, AuditCode
  <2>4. \/ calls' = [calls EXCEPT ![i] = c]
        \/ calls' = [calls EXCEPT ![i] = Ended(calls[i], Outcome(calls[i]))]
    BY <1>6 DEF EventSinkAnswers
  <2> HIDE DEF coded, c
  <2>2. /\ c \in ToolCall /\ c.at = "ended" /\ c.outcome = Outcome(calls[i])
        /\ c.run = calls[i].run /\ c.stage = calls[i].stage /\ c.status = calls[i].status
        /\ c.error = calls[i].error /\ c.write = calls[i].write /\ c.codes = coded.codes
    BY <1>2, <2>0, <2>1, EndedGives
  <2>3. CASE calls' = [calls EXCEPT ![i] = c]
    <3>1. /\ c.status = "CANCELLED" => c.run \in cancelling
          /\ sink[c.run] = "EVENTS"
      BY <1>1, <1>6, <2>2 DEF CallInv, EventSinkAnswers
    <3>2. /\ c.outcome # None /\ (c.outcome = "CANCELLED" => c.run \in cancelling)
          /\ c.outcome # "AUDIT_ERROR" /\ AuditCode \notin c.codes
      BY <1>1, <1>2, <2>1, <2>2, <3>1, GatewayAssumption
    <3> QED
      BY <1>1, <1>3, <2>2, <2>3, <3>1, <3>2, WaitEndsKeeps
  <2> QED
    BY <1>5, <1>6, <2>3, <2>4 DEF EventSinkAnswers
<1>7. CASE SinkAnswers(i) /\ calls[i].write = "committed"
  BY <1>5, <1>7 DEF SinkAnswers
<1>8. CASE SinkAnswers(i) /\ calls[i].write = "failed"
  <2>1. calls[i].write # "committed"
    BY <1>8
  <2>2. calls' = [calls EXCEPT ![i] = NotRecorded(calls[i])]
    BY <1>8, <2>1 DEF SinkAnswers
  <2> QED
    BY <1>4, <1>8, <2>2
<1>9. CASE SinkTimesOut(i)
  BY <1>4, <1>9 DEF SinkTimesOut
<1>10. CASE EventSinkAnswers(i) /\ events' # events
  BY <1>5, <1>10 DEF EventSinkAnswers
<1> QED
  BY <1>6, <1>7, <1>8, <1>9, <1>10 DEF SinkAnswers

\* A call that waits for the sink is cancelled, and what it waits for then ends.
LEMMA CancelledCallKeeps ==
  ASSUME GatewayInv, NEW i \in DOMAIN calls, SinkCancelled(i) \/ DrainEnds(i)
  PROVE  GatewayInv'
<1>1. /\ calls[i] \in ToolCall /\ CallInv(calls[i]) /\ calls[i].at \in {"sink", "drain"}
      /\ AuditCode \notin calls[i].codes /\ calls[i].run \in cancelling
  BY CallHas DEF SinkCancelled, DrainEnds, CallInv
<1>2. UNCHANGED <<run, cancelling, sink, ledger>>
  BY DEF SinkCancelled, DrainEnds
<1>3. CASE calls' = [calls EXCEPT ![i] = Ended(calls[i], "CANCELLED")]
  <2> DEFINE c == Ended(calls[i], "CANCELLED")
  <2>1. /\ c \in ToolCall /\ c.at = "ended" /\ c.outcome = "CANCELLED"
        /\ c.run = calls[i].run /\ c.stage = calls[i].stage /\ c.status = calls[i].status
        /\ c.error = calls[i].error /\ c.write = calls[i].write /\ c.codes = calls[i].codes
    BY <1>1, EndedGives
  <2>2. calls' = [calls EXCEPT ![i] = c]
    BY <1>3
  <2> HIDE DEF c
  <2> QED
    BY <1>1, <1>2, <2>1, <2>2, WaitEndsKeeps, GatewayAssumption
<1>4. CASE calls' = [calls EXCEPT ![i] = [calls[i] EXCEPT !.at = "drain"]]
  <2> DEFINE c == [calls[i] EXCEPT !.at = "drain"]
  <2>1. /\ c \in ToolCall /\ c.at = "drain" /\ c.outcome = calls[i].outcome
        /\ c.run = calls[i].run /\ c.stage = calls[i].stage /\ c.status = calls[i].status
        /\ c.error = calls[i].error /\ c.write = calls[i].write /\ c.codes = calls[i].codes
    BY <1>1 DEF ToolCall
  <2>2. calls' = [calls EXCEPT ![i] = c]
    BY <1>4
  <2> HIDE DEF c
  <2>3. CallInv(c) /\ PlaceInv(i)
    BY <1>1, <2>1, CallHas, GatewayAssumption DEF CallInv
  <2>4. ledger' = IF c.write = "committed" THEN ledger \union {i} ELSE ledger
    BY <1>2, <2>1, <2>3 DEF PlaceInv
  <2> QED
    BY <1>1, <1>2, <2>1, <2>2, <2>3, <2>4, ChangeKeeps
<1> QED
  BY <1>3, <1>4 DEF SinkCancelled, DrainEnds

-----------------------------------------------------------------------------
(* The steps of a run.                                                     *)

\* What an agent asks of the gateway: a call of its own stage that is under way,
\* ended, or refused, and refused for the budget when that is used up.
LEMMA InvokeGives ==
  ASSUME GatewayInv, NEW r \in Runs, Invoke(r)
  PROVE  \E c \in ToolCall :
           /\ calls' = Append(calls, c) /\ c.run = r /\ c.stage = run[r].stage
           /\ c.write \in {"none", "open"} /\ CallInv(c)
           /\ Attempts(r, run[r].stage) >= MaxCallsPerTask => c.error = "BUDGET_EXCEEDED"
<1>1. TypeInv /\ run[r].stage \in 1 .. Len(Stages)
  BY DEF GatewayInv, TypeInv, RunState
<1> DEFINE e == Entered(r)
<1>2. /\ e \in ToolCall /\ e.run = r /\ e.stage = run[r].stage /\ e.write = "none"
      /\ e.outcome = None /\ e.at = "tool" /\ e.error = None /\ e.status = "IN_FLIGHT"
      /\ e.codes = {}
  BY <1>1 DEF Entered, ToolCall
<1>3. PICK granted, envelope \in BOOLEAN :
        calls' = Append(calls,
           IF Attempts(r, run[r].stage) >= MaxCallsPerTask
             THEN Finish(e, "DENIED", "BUDGET_EXCEEDED", envelope)
           ELSE IF ~granted
             THEN Finish(e, "DENIED", "TOOL_CALL_DENIED", envelope)
           ELSE e)
  BY DEF Invoke
<1> HIDE DEF e
<1>4. \A error \in {"BUDGET_EXCEEDED", "TOOL_CALL_DENIED"} :
        LET c == Finish(e, "DENIED", error, envelope)
        IN  /\ c \in ToolCall /\ c.run = r /\ c.stage = run[r].stage
            /\ c.write \in {"none", "open"} /\ CallInv(c) /\ c.error = error
  BY <1>1, <1>2, FinishGives
<1>5. CallInv(e)
  BY <1>2, GatewayAssumption DEF CallInv
<1>6. CASE Attempts(r, run[r].stage) >= MaxCallsPerTask
  BY <1>3, <1>4, <1>6
<1>7. CASE ~(Attempts(r, run[r].stage) >= MaxCallsPerTask) /\ ~granted
  BY <1>3, <1>4, <1>7
<1>8. CASE ~(Attempts(r, run[r].stage) >= MaxCallsPerTask) /\ granted
  BY <1>2, <1>3, <1>5, <1>8
<1> QED
  BY <1>6, <1>7, <1>8

\* A call is made.
LEMMA InvokeKeeps ==
  ASSUME GatewayInv, NEW r \in Runs, Invoke(r)
  PROVE  GatewayInv'
<1>1. PICK c \in ToolCall :
        /\ calls' = Append(calls, c) /\ c.run = r /\ c.stage = run[r].stage
        /\ c.write \in {"none", "open"} /\ CallInv(c)
        /\ Attempts(r, run[r].stage) >= MaxCallsPerTask => c.error = "BUDGET_EXCEEDED"
  BY InvokeGives
<1>2. UNCHANGED <<run, cancelling, sink, ledger>> /\ run[r].status = "RUNNING"
  BY DEF Invoke, MayCall
<1>0. PICK n \in Nat : n = Len(calls) + 1
  BY CallsTyped DEF GatewayInv
<1>3. /\ DOMAIN calls = 1 .. Len(calls) /\ Len(calls) \in Nat
      /\ DOMAIN calls' = DOMAIN calls \union {n} /\ n \notin DOMAIN calls
      /\ calls'[n] = c /\ Len(calls') = n
      /\ \A i \in DOMAIN calls : calls'[i] = calls[i] /\ i < n
      /\ calls' \in Seq(ToolCall)
  BY <1>0, <1>1 DEF GatewayInv, TypeInv
<1>4. TypeInv'
  <2>1. /\ run \in [Runs -> RunState] /\ cancelling \subseteq Runs /\ ledger \subseteq DOMAIN calls
        /\ sink \in [Runs -> {"FAIL_CLOSED", "BEST_EFFORT", "EVENTS"}]
        /\ \A q \in Runs : /\ run[q].cursor <= Len(calls) /\ run[q].cursor \in Nat
                          /\ Behind(run[q])
    BY DEF GatewayInv, TypeInv, RunState
  <2>2. n = Len(calls) + 1 /\ \A q \in Runs : run[q].cursor <= n
    BY <1>0, <1>3, <2>1
  <2> QED
    BY <1>2, <1>3, <2>1, <2>2 DEF TypeInv
<1>5. \A i \in DOMAIN calls' : CallInv(calls[i])'
  BY <1>1, <1>2, <1>3 DEF GatewayInv, CallInv
<1>6. \A i \in DOMAIN calls' : PlaceInv(i)'
  <2>1. ASSUME NEW i \in DOMAIN calls PROVE PlaceInv(i)'
    BY <1>2, <1>3 DEF GatewayInv, PlaceInv
  <2>2. /\ n \notin ledger /\ run[r].cursor < n /\ run[r].stage \in Nat
        /\ run[r].cursor \in Nat /\ run[r].stage \notin run[r].artifacts
    <3>1. /\ run[r] \in RunState /\ run[r].cursor <= Len(calls) /\ ledger \subseteq DOMAIN calls
          /\ Behind(run[r])
      BY DEF GatewayInv, TypeInv
    <3> QED
      BY <1>0, <1>2, <1>3, <3>1 DEF RunState, Behind
  <2>3. PlaceInv(n)'
    BY <1>1, <1>2, <1>3, <2>2 DEF PlaceInv
  <2> QED
    BY <1>3, <2>1, <2>3
<1>8. BudgetInv'
  <2> SUFFICES ASSUME NEW q \in Runs, NEW s \in 1 .. Len(Stages)
               PROVE  Cardinality(Tried(q, s)') <= MaxCallsPerTask
    BY DEF BudgetInv
  <2>1. IsFiniteSet(Tried(q, s)) /\ Cardinality(Tried(q, s)) \in Nat
        /\ Cardinality(Tried(q, s)) <= MaxCallsPerTask
    BY TriedFinite DEF GatewayInv, BudgetInv
  <2>2. CASE q = r /\ s = run[r].stage /\ c.error # "BUDGET_EXCEEDED"
    <3>1. Tried(q, s)' = Tried(q, s) \union {n} /\ n \notin Tried(q, s)
      BY <1>1, <1>3, <2>2 DEF Tried, CallsOf
    <3>2. Cardinality(Tried(q, s)') = Cardinality(Tried(q, s)) + 1
      BY <2>1, <3>1, FS_AddElement
    <3>3. ~(Cardinality(Tried(q, s)) >= MaxCallsPerTask)
      BY <1>1, <2>2 DEF Attempts, Tried
    <3> QED
      BY <2>1, <3>2, <3>3, GatewayAssumption
  <2>3. CASE ~(q = r /\ s = run[r].stage /\ c.error # "BUDGET_EXCEEDED")
    <3>1. Tried(q, s)' = Tried(q, s)
      BY <1>1, <1>3, <2>3 DEF Tried, CallsOf
    <3> QED
      BY <2>1, <3>1
  <2> QED
    BY <2>2, <2>3
<1>9. AuditFailuresAreOwn'
  BY <1>2, <1>3 DEF GatewayInv, AuditFailuresAreOwn, CallsOf
<1> QED
  BY <1>4, <1>5, <1>6, <1>8, <1>9 DEF GatewayInv

\* A run is cancelled.
LEMMA CancelKeeps ==
  ASSUME GatewayInv, NEW r \in Runs, Cancel(r)
  PROVE  GatewayInv'
<1>1. cancelling' = cancelling \union {r} /\ UNCHANGED <<calls, run, sink, ledger>>
  BY DEF Cancel
<1>2. \A i \in DOMAIN calls : CallInv(calls[i])' /\ PlaceInv(i)'
  BY <1>1 DEF GatewayInv, CallInv, PlaceInv
<1>3. TypeInv' /\ AuditFailuresAreOwn'
  BY <1>1 DEF GatewayInv, TypeInv, AuditFailuresAreOwn, CallsOf
<1>4. BudgetInv'
  BY <1>1 DEF GatewayInv, BudgetInv, Tried, CallsOf
<1> QED
  BY <1>1, <1>2, <1>3, <1>4 DEF GatewayInv

\* The artifact of a stage is taken only when the record of every one of its calls
\* is stored: one whose record was lost is found among the calls since the stage
\* began.
LEMMA PassedIsRecorded ==
  ASSUME GatewayInv, NEW r \in Runs, Outstanding(r) = {}, r \notin cancelling,
         sink[r] = "FAIL_CLOSED", ~AuditFailed(r),
         NEW i \in CallsOf(r, run[r].stage)
  PROVE  i \in ledger
<1>1. /\ i \in DOMAIN calls /\ CallInv(calls[i]) /\ PlaceInv(i) /\ calls[i].run = r
      /\ calls[i].stage = run[r].stage /\ calls[i] \in ToolCall
  BY CallHas DEF CallsOf
<1>2. calls[i].outcome \in {"RESULT", "ERROR", "AUDIT_ERROR"}
  BY <1>1 DEF Outstanding, CallInv, ToolCall
<1>3. calls[i].outcome # "AUDIT_ERROR"
  BY <1>1 DEF CallInv, PlaceInv, AuditFailed, AuditCode
<1> QED
  BY <1>1, <1>2, <1>3 DEF CallInv, PlaceInv

\* A run that goes on has the next stage before it, with a cursor at the calls so
\* far, or is complete; it has the artifacts it is given.
LEMMA AdvanceGives ==
  ASSUME TypeInv, NEW r \in Runs, run[r].status = "RUNNING",
         NEW artifacts \in SUBSET (1 .. Len(Stages))
  PROVE  LET x == Advance(r, artifacts)
         IN  /\ x \in RunState /\ x.artifacts = artifacts
             /\ \/ /\ x.status = "COMPLETED" /\ x.stage = run[r].stage
                   /\ x.cursor = run[r].cursor
                \/ /\ x.status = "RUNNING" /\ x.stage = run[r].stage + 1
                   /\ x.cursor = Len(calls)
<1>1. run[r] \in RunState /\ Len(calls) \in Nat /\ Len(Stages) \in Nat
  BY GatewayAssumption, CallsTyped DEF TypeInv
<1>2. CASE run[r].stage = Len(Stages)
  <2>1. Advance(r, artifacts)
          = [run[r] EXCEPT !.status = "COMPLETED", !.artifacts = artifacts]
    BY <1>2 DEF Advance
  <2> QED
    BY <1>1, <2>1 DEF RunState
<1>3. CASE run[r].stage # Len(Stages)
  <2>1. Advance(r, artifacts)
          = [run[r] EXCEPT !.stage = @ + 1, !.cursor = Len(calls), !.artifacts = artifacts]
    BY <1>3 DEF Advance
  <2>2. run[r].stage + 1 \in 1 .. Len(Stages)
    BY <1>1, <1>3 DEF RunState
  <2> QED
    BY <1>1, <2>1, <2>2 DEF RunState
<1> QED
  BY <1>2, <1>3

\* What the end of a stage makes of its run: over as it stands, or passed, with the
\* artifact of the stage only if no record of it was lost.
LEMMA EndStageGives ==
  ASSUME GatewayInv, NEW r \in Runs, EndStage(r)
  PROVE  \E x \in RunState :
           /\ run' = [run EXCEPT ![r] = x]
           /\ \/ /\ x.stage = run[r].stage /\ x.cursor = run[r].cursor
                 /\ x.artifacts = run[r].artifacts
                 /\ \/ x.status \in {"CANCELLED", "FAILED"}
                    \/ /\ x.status = "AUDIT_FAILED" /\ r \notin cancelling
                       /\ AuditFailed(r) \/ "AUDIT_ERROR" \in Raised(r)
              \/ x = Advance(r, run[r].artifacts)
              \/ /\ x = Advance(r, run[r].artifacts \cup {run[r].stage})
                 /\ r \notin cancelling /\ ~AuditFailed(r)
<1> DEFINE Over(status) == [run[r] EXCEPT !.status = status]
           without == run[r].artifacts
           with == run[r].artifacts \cup {run[r].stage}
<1>1. \A status \in {"CANCELLED", "FAILED", "AUDIT_FAILED"} :
        /\ Over(status) \in RunState /\ Over(status).status = status
        /\ Over(status).stage = run[r].stage /\ Over(status).cursor = run[r].cursor
        /\ Over(status).artifacts = run[r].artifacts
  BY DEF GatewayInv, TypeInv, RunState
<1>2. Advance(r, without) \in RunState /\ Advance(r, with) \in RunState
  <2>1. without \in SUBSET (1 .. Len(Stages)) /\ with \in SUBSET (1 .. Len(Stages))
    BY DEF GatewayInv, TypeInv, RunState
  <2> QED
    BY <2>1, AdvanceGives DEF GatewayInv, EndStage
<1>3. PICK raises \in BOOLEAN :
        run' = [run EXCEPT ![r] =
          IF r \in cancelling THEN Over("CANCELLED")
          ELSE IF "AUDIT_ERROR" \in LetOut(r) THEN Over("AUDIT_FAILED")
          ELSE IF raises \/ "ERROR" \in LetOut(r)
            THEN IF Stages[run[r].stage] \in Critical THEN Over("FAILED")
                 ELSE Advance(r, without)
          ELSE IF AuditFailed(r) THEN Over("AUDIT_FAILED")
          ELSE Advance(r, with)]
  BY DEF EndStage
<1> HIDE DEF Over, without, with
<1>4. CASE r \in cancelling
  BY <1>1, <1>3, <1>4
<1>5. CASE r \notin cancelling /\ ("AUDIT_ERROR" \in LetOut(r))
  <2>1. "AUDIT_ERROR" \in Raised(r)
    BY <1>5 DEF LetOut
  <2> QED
    BY <1>1, <1>3, <1>5, <2>1
<1>6. CASE /\ r \notin cancelling /\ "AUDIT_ERROR" \notin LetOut(r)
           /\ raises \/ "ERROR" \in LetOut(r)
  <2>1. CASE Stages[run[r].stage] \in Critical
    BY <1>1, <1>3, <1>6, <2>1
  <2>2. CASE Stages[run[r].stage] \notin Critical
    BY <1>2, <1>3, <1>6, <2>2 DEF without
  <2> QED
    BY <2>1, <2>2
<1>7. CASE /\ r \notin cancelling /\ "AUDIT_ERROR" \notin LetOut(r)
           /\ ~(raises \/ "ERROR" \in LetOut(r)) /\ AuditFailed(r)
  BY <1>1, <1>3, <1>7
<1>8. CASE /\ r \notin cancelling /\ "AUDIT_ERROR" \notin LetOut(r)
           /\ ~(raises \/ "ERROR" \in LetOut(r)) /\ ~AuditFailed(r)
  BY <1>2, <1>3, <1>8 DEF with
<1> QED
  BY <1>4, <1>5, <1>6, <1>7, <1>8

\* A stage ends: its calls have ended, its run is over or goes on, and its artifact
\* is taken only if its calls are recorded.
LEMMA EndStageKeeps ==
  ASSUME GatewayInv, NEW r \in Runs, EndStage(r)
  PROVE  GatewayInv'
<1>1. /\ run[r].status = "RUNNING" /\ Outstanding(r) = {} /\ TypeInv
      /\ UNCHANGED <<calls, cancelling, sink, ledger>>
  BY DEF EndStage, GatewayInv
<1>2. PICK x \in RunState :
        /\ run' = [run EXCEPT ![r] = x]
        /\ \/ /\ x.stage = run[r].stage /\ x.cursor = run[r].cursor
              /\ x.artifacts = run[r].artifacts
              /\ \/ x.status \in {"CANCELLED", "FAILED"}
                 \/ /\ x.status = "AUDIT_FAILED" /\ r \notin cancelling
                    /\ AuditFailed(r) \/ "AUDIT_ERROR" \in Raised(r)
           \/ x = Advance(r, run[r].artifacts)
           \/ /\ x = Advance(r, run[r].artifacts \cup {run[r].stage})
              /\ r \notin cancelling /\ ~AuditFailed(r)
  BY EndStageGives
<1>4. /\ run' \in [Runs -> RunState] /\ run'[r] = x
      /\ \A q \in Runs : q # r => run'[q] = run[q]
      /\ run[r] \in RunState /\ Len(calls) \in Nat /\ run[r].cursor <= Len(calls)
      /\ \A s \in run[r].artifacts : s < run[r].stage
  <2>1. /\ run \in [Runs -> RunState] /\ run[r].cursor <= Len(calls)
        /\ Behind(run[r])
    BY <1>1 DEF TypeInv
  <2> QED
    BY <1>1, <1>2, <2>1, CallsTyped DEF Behind
<1>3. /\ \/ /\ x.stage = run[r].stage /\ x.cursor = run[r].cursor
            /\ x.status # "RUNNING"
         \/ /\ x.status = "RUNNING" /\ x.stage = run[r].stage + 1
            /\ x.cursor = Len(calls)
      /\ x.status = "AUDIT_FAILED" =>
           /\ x.stage = run[r].stage /\ r \notin cancelling
           /\ AuditFailed(r) \/ "AUDIT_ERROR" \in Raised(r)
      /\ x.artifacts \subseteq run[r].artifacts \cup {run[r].stage}
      /\ run[r].stage \in x.artifacts => r \notin cancelling /\ ~AuditFailed(r)
  <2>1. /\ run[r].artifacts \in SUBSET (1 .. Len(Stages))
        /\ run[r].artifacts \cup {run[r].stage} \in SUBSET (1 .. Len(Stages))
        /\ run[r].stage \notin run[r].artifacts
    BY <1>4 DEF RunState
  <2>2. CASE /\ x.stage = run[r].stage /\ x.cursor = run[r].cursor
             /\ x.artifacts = run[r].artifacts
             /\ \/ x.status \in {"CANCELLED", "FAILED"}
                \/ /\ x.status = "AUDIT_FAILED" /\ r \notin cancelling
                   /\ AuditFailed(r) \/ "AUDIT_ERROR" \in Raised(r)
    BY <2>1, <2>2
  <2>3. CASE x = Advance(r, run[r].artifacts)
    <3>1. /\ x.artifacts = run[r].artifacts
          /\ \/ /\ x.status = "COMPLETED" /\ x.stage = run[r].stage
                /\ x.cursor = run[r].cursor
             \/ /\ x.status = "RUNNING" /\ x.stage = run[r].stage + 1
                /\ x.cursor = Len(calls)
      BY <1>1, <2>1, <2>3, AdvanceGives
    <3> QED
      BY <2>1, <3>1
  <2>4. CASE /\ x = Advance(r, run[r].artifacts \cup {run[r].stage})
             /\ r \notin cancelling /\ ~AuditFailed(r)
    <3>1. /\ x.artifacts = run[r].artifacts \cup {run[r].stage}
          /\ \/ /\ x.status = "COMPLETED" /\ x.stage = run[r].stage
                /\ x.cursor = run[r].cursor
             \/ /\ x.status = "RUNNING" /\ x.stage = run[r].stage + 1
                /\ x.cursor = Len(calls)
      BY <1>1, <2>1, <2>4, AdvanceGives
    <3> QED
      BY <2>4, <3>1
  <2> QED
    BY <1>2, <2>2, <2>3, <2>4
<1>5. TypeInv'
  <2>1. x.cursor <= Len(calls) /\ Behind(x)
    BY <1>3, <1>4 DEF RunState, Behind
  <2> QED
    BY <1>1, <1>4, <2>1 DEF TypeInv
<1>6. \A i \in DOMAIN calls : CallInv(calls[i])'
  BY <1>1 DEF GatewayInv, CallInv
<1>7. \A i \in DOMAIN calls : PlaceInv(i)'
  <2> SUFFICES ASSUME NEW i \in DOMAIN calls PROVE PlaceInv(i)'
    OBVIOUS
  <2>1. /\ calls[i] \in ToolCall /\ CallInv(calls[i]) /\ PlaceInv(i) /\ calls[i].run \in Runs
        /\ calls[i].stage \in Nat /\ i \in Nat /\ i <= Len(calls)
    BY CallHas, CallsTyped DEF GatewayInv, ToolCall
  <2>2. CASE calls[i].run # r
    BY <1>1, <1>4, <2>1, <2>2 DEF PlaceInv
  <2>3. CASE calls[i].run = r
    <3>1. calls[i].at = "ended"
      BY <1>1, <2>1, <2>3 DEF PlaceInv, Outstanding, CallsOf
    <3>2. calls[i].stage <= x.stage /\ (calls[i].stage = x.stage <=> i > x.cursor)
      BY <1>3, <1>4, <2>1, <2>3 DEF PlaceInv, RunState
    <3>3. ASSUME sink[r] = "FAIL_CLOSED", calls[i].stage \in x.artifacts
          PROVE  i \in ledger
      <4>1. CASE calls[i].stage = run[r].stage
        BY <1>1, <1>3, <2>3, <3>3, <4>1, PassedIsRecorded DEF CallsOf
      <4>2. CASE calls[i].stage # run[r].stage
        BY <1>3, <2>1, <2>3, <3>3, <4>2 DEF PlaceInv
      <4> QED
        BY <4>1, <4>2
    <3> QED
      BY <1>1, <1>4, <2>1, <2>3, <3>1, <3>2, <3>3 DEF PlaceInv
  <2> QED
    BY <2>2, <2>3
<1>9. BudgetInv'
  BY <1>1 DEF GatewayInv, BudgetInv, Tried, CallsOf
<1>10. AuditFailuresAreOwn'
  <2> SUFFICES ASSUME NEW q \in Runs, run'[q].status = "AUDIT_FAILED"
               PROVE  \E i \in CallsOf(q, run'[q].stage) :
                        sink[q] # "EVENTS" /\ calls[i].write \in {"none", "failed"}
    BY <1>1 DEF AuditFailuresAreOwn, CallsOf
  <2>1. CASE q # r
    BY <1>4, <2>1 DEF GatewayInv, AuditFailuresAreOwn
  <2>2. CASE q = r
    <3>1. /\ r \notin cancelling /\ x.stage = run[r].stage
          /\ AuditFailed(r) \/ "AUDIT_ERROR" \in Raised(r)
      BY <1>3, <1>4, <2>2
    <3>2. PICK i \in CallsOf(r, run[r].stage) : AuditCode \in calls[i].codes
      <4>1. CASE AuditFailed(r)
        <5>1. PICK i \in DOMAIN calls : /\ i > run[r].cursor /\ calls[i].run = r
                                       /\ AuditCode \in calls[i].codes
          BY <4>1 DEF AuditFailed, AuditCode
        <5> QED
          BY <5>1 DEF GatewayInv, PlaceInv, CallsOf
      <4>2. CASE "AUDIT_ERROR" \in Raised(r)
        BY <4>2 DEF Raised, CallsOf, GatewayInv, CallInv
      <4> QED
        BY <3>1, <4>1, <4>2
    <3>3. i \in DOMAIN calls /\ calls[i].run = r /\ CallInv(calls[i])
      BY <3>2, CallHas DEF CallsOf
    <3> QED
      BY <1>4, <2>2, <3>1, <3>2, <3>3 DEF CallInv
  <2> QED
    BY <2>1, <2>2
<1> QED
  BY <1>1, <1>5, <1>6, <1>7, <1>9, <1>10 DEF GatewayInv

-----------------------------------------------------------------------------
(* The theorems.                                                           *)

LEMMA InitGateway ==
  ASSUME Init
  PROVE  GatewayInv
<1>1. /\ calls = <<>> /\ DOMAIN calls = {} /\ Len(calls) = 0 /\ cancelling = {} /\ ledger = {}
      /\ run = [r \in Runs |-> [stage |-> 1, cursor |-> 0, status |-> "RUNNING",
                             artifacts |-> {}]]
  BY DEF Init
<1>2. sink \in [Runs -> {"FAIL_CLOSED", "BEST_EFFORT", "EVENTS"}]
  BY GatewayAssumption DEF Init
<1>3. TypeInv
  <2>1. 1 \in 1 .. Len(Stages)
    BY GatewayAssumption
  <2> QED
    BY <1>1, <1>2, <2>1 DEF TypeInv, RunState, Behind
<1>4. BudgetInv
  <2>1. \A r \in Runs, s \in 1 .. Len(Stages) : Tried(r, s) = {}
    BY <1>1 DEF Tried, CallsOf
  <2> QED
    BY SMTT(30), <2>1, FS_EmptySet, GatewayAssumption DEF BudgetInv
<1>5. AuditFailuresAreOwn
  BY <1>1 DEF AuditFailuresAreOwn
<1> QED
  BY <1>1, <1>3, <1>4, <1>5 DEF GatewayInv

LEMMA StepGateway ==
  ASSUME GatewayInv, [Next]_vars
  PROVE  GatewayInv'
<1>1. ASSUME NEW r \in Runs, Invoke(r) \/ EndStage(r) \/ Cancel(r)
      PROVE  GatewayInv'
  BY <1>1, InvokeKeeps, EndStageKeeps, CancelKeeps
<1>2. ASSUME NEW i \in DOMAIN calls,
             \/ ToolEnds(i) \/ WriteCommits(i) \/ WriteFails(i) \/ SinkAnswers(i)
             \/ SinkTimesOut(i) \/ SinkCancelled(i) \/ DrainEnds(i) \/ EventSinkAnswers(i)
      PROVE  GatewayInv'
  BY <1>2, ToolEndsKeeps, WritesKeep, SinkKeeps, CancelledCallKeeps
<1>3. CASE UNCHANGED vars
  <2>1. UNCHANGED <<calls, run, cancelling, sink, ledger>>
    BY <1>3 DEF vars
  <2>2. TypeInv'
    BY <2>1 DEF GatewayInv, TypeInv
  <2>3. BudgetInv' /\ AuditFailuresAreOwn'
    BY <2>1 DEF GatewayInv, BudgetInv, Tried, AuditFailuresAreOwn, CallsOf
  <2>4. \A i \in DOMAIN calls : CallInv(calls[i])' /\ PlaceInv(i)'
    BY <2>1 DEF GatewayInv, CallInv, PlaceInv
  <2> QED
    BY <2>1, <2>2, <2>3, <2>4 DEF GatewayInv
<1> QED
  BY <1>1, <1>2, <1>3 DEF Next

\* In every reachable state each call stands to its run, to the sink of its run and
\* to the ledger as the gateway leaves it between two awaits.
THEOREM GatewayInvariant == Spec => []GatewayInv
<1>1. Init => GatewayInv
  BY InitGateway
<1>2. GatewayInv /\ [Next]_vars => GatewayInv'
  BY StepGateway
<1> QED
  BY <1>1, <1>2, PTL DEF Spec

\* The budget of a task holds however its calls overlap: with any number of calls
\* under way, no more than MaxCallsPerTask of a task reach a tool.
THEOREM BudgetIsKept == Spec => []BudgetKept
<1>1. ASSUME GatewayInv PROVE BudgetKept
  <2> SUFFICES ASSUME NEW r \in Runs, NEW s \in 1 .. Len(Stages)
               PROVE  Cardinality({i \in CallsOf(r, s) : calls[i].error \notin
                                     {"BUDGET_EXCEEDED", "TOOL_CALL_DENIED"}})
                        <= MaxCallsPerTask
    BY DEF BudgetKept
  <2> DEFINE reached == {i \in CallsOf(r, s) : calls[i].error \notin
                           {"BUDGET_EXCEEDED", "TOOL_CALL_DENIED"}}
  <2>1. reached \subseteq Tried(r, s)
    BY DEF Tried
  <2>2. /\ IsFiniteSet(Tried(r, s)) /\ Cardinality(Tried(r, s)) \in Nat
        /\ Cardinality(Tried(r, s)) <= MaxCallsPerTask
    BY <1>1, TriedFinite DEF GatewayInv, BudgetInv
  <2>3. /\ Cardinality(reached) <= Cardinality(Tried(r, s))
        /\ Cardinality(reached) \in Nat
    BY <2>1, <2>2, FS_Subset, FS_CardinalityType
  <2> QED
    BY <2>2, <2>3, GatewayAssumption
<1> QED
  BY <1>1, GatewayInvariant, PTL

\* In a fail-closed run an agent is given the outcome of no call, and the run takes
\* the artifact of no stage, whose records are not in the ledger.
THEOREM UsedIsRecorded == Spec => []WhatIsUsedIsRecorded
<1>1. ASSUME GatewayInv PROVE WhatIsUsedIsRecorded
  BY <1>1 DEF GatewayInv, CallInv, PlaceInv, WhatIsUsedIsRecorded
<1> QED
  BY <1>1, GatewayInvariant, PTL

\* A run fails for its audit only after it lost a record of its own, in the stage it
\* failed in.
THEOREM AuditFailuresOwn == Spec => []AuditFailuresAreOwn
<1>1. GatewayInv => AuditFailuresAreOwn
  BY DEF GatewayInv
<1> QED
  BY <1>1, GatewayInvariant, PTL
=============================================================================
