--------------------------- MODULE TelemetryProofs ---------------------------
(***************************************************************************)
(* Proofs about TelemetryOutbox for any sets of invocations and workers,   *)
(* any limits and any skew of the clocks.                                  *)
(***************************************************************************)
EXTENDS TelemetryOutbox, TLAPS

RowType ==
  /\ status \in [Invocations -> {"absent", "PENDING", "PROCESSING"} \union Settled]
  /\ attempts \in [Invocations -> Nat]
  /\ wait \in [Invocations -> Nat]

BatchType ==
  /\ held \in [Workers -> SUBSET Claim]
  /\ current \in [Workers -> Claim \union {NoClaim}]
  /\ step \in [Workers -> Steps]
  /\ \A w \in Workers : (step[w] = "idle") <=> (current[w] = NoClaim)

OutsideType ==
  /\ adrift \in SUBSET Claim
  /\ destination \in SUBSET Invocations
  /\ exports \in [Invocations -> Nat]

\* Claims stay behind the attempts of their row, so the next claim is new; and
\* what a worker is about to acknowledge has reached the destination.
ClaimInv ==
  /\ \A w \in Workers : \A c \in ClaimsOf(w) : c.attempt <= attempts[c.id]
  /\ \A c \in adrift : c.attempt <= attempts[c.id]
  /\ \A w \in Workers : step[w] = "exported" => current[w].id \in destination

\* A pending row always has an attempt left.
AttemptInv ==
  /\ NeverGivenUpEarly
  /\ \A i \in Invocations :
       /\ status[i] = "PENDING" => attempts[i] < MaxAttempts
       /\ status[i] = "absent" => attempts[i] = 0

OutboxInv == TypeOK /\ ClaimInv /\ AttemptInv /\ OneOwner /\ DeliveredWasReceived

\* The type invariant, by the parts a step changes.
LEMMA TypeParts == TypeOK <=> RowType /\ BatchType /\ OutsideType
BY DEF TypeOK, RowType, BatchType, OutsideType

\* The inductive invariant holds initially.
LEMMA OutboxInit == Init => OutboxInv
<1> USE LimitsAssumption
<1> SUFFICES ASSUME Init PROVE OutboxInv
  OBVIOUS
<1>1. TypeOK
  BY DEF Init, TypeOK, Steps, Settled
<1>2. ClaimInv /\ OneOwner
  BY DEF Init, ClaimInv, OneOwner, ClaimsOf
<1>3. AttemptInv /\ DeliveredWasReceived
  BY DEF Init, AttemptInv, NeverGivenUpEarly, DeliveredWasReceived
<1> QED
  BY <1>1, <1>2, <1>3 DEF OutboxInv

\* Claims of a typed state.
LEMMA ClaimsTyped ==
  ASSUME TypeOK, NEW w \in Workers
  PROVE  /\ ClaimsOf(w) \subseteq Claim
         /\ step[w] # "idle" => current[w] \in ClaimsOf(w)
         /\ held[w] \subseteq ClaimsOf(w)
BY DEF TypeOK, ClaimsOf

\* A claim is of a row and counts one of its attempts.
LEMMA ClaimParts ==
  \A c \in Claim : c.id \in Invocations /\ c.attempt \in Nat \ {0}
BY DEF Claim

---------------------------------------------------------------------------
(* The actions that leave the rows alone. *)

\* No worker gets a claim it did not have, and the rows do not change.
LEMMA SameRows ==
  ASSUME OutboxInv, TypeOK', UNCHANGED row,
         \A w \in Workers : ClaimsOf(w)' \subseteq ClaimsOf(w),
         destination \subseteq destination',
         \A c \in adrift' : c \in adrift \/ \E w \in Workers : c \in ClaimsOf(w),
         \A w \in Workers : step'[w] = "exported" =>
            current'[w].id \in destination'
  PROVE  OutboxInv'
<1>1. UNCHANGED <<status, attempts>>
  BY DEF row
<1>2. ClaimInv'
  BY <1>1 DEF OutboxInv, ClaimInv
<1>3. AttemptInv'
  BY <1>1 DEF OutboxInv, AttemptInv, NeverGivenUpEarly
<1>4. OneOwner'
  BY DEF OutboxInv, OneOwner
<1>5. DeliveredWasReceived'
  BY <1>1 DEF OutboxInv, DeliveredWasReceived
<1> QED
  BY <1>2, <1>3, <1>4, <1>5 DEF OutboxInv

\* Taking up a claim keeps the invariant.
LEMMA StartKeeps ==
  ASSUME OutboxInv, NEW w \in Workers, NEW c \in held[w],
         NEW to \in {"exporting", "failed"}, Start(w, c, to)
  PROVE  OutboxInv'
<1> USE LimitsAssumption
<1>1. c \in Claim /\ c # NoClaim
  BY DEF OutboxInv, TypeOK
<1>2. TypeOK'
  <2>1. RowType' /\ OutsideType'
    BY TypeParts DEF OutboxInv, Start, row, outside, RowType, OutsideType
  <2>2. BatchType'
    BY <1>1 DEF OutboxInv, TypeOK, Start, BatchType, Steps
  <2> QED
    BY <2>1, <2>2, TypeParts DEF TypeOK, RowType, BatchType, OutsideType
<1>3. \A v \in Workers : ClaimsOf(v)' \subseteq ClaimsOf(v)
  BY <1>1 DEF OutboxInv, TypeOK, Start, ClaimsOf
<1>4. \A v \in Workers : step'[v] = "exported" => current'[v].id \in destination'
  BY DEF OutboxInv, TypeOK, ClaimInv, Start, outside
<1> QED
  BY <1>2, <1>3, <1>4, SameRows DEF Start, outside

\* So does an export, failed or not.
LEMMA ExportKeeps ==
  ASSUME OutboxInv, NEW w \in Workers, Export(w) \/ ExportFails(w)
  PROVE  OutboxInv'
<1>1. current[w] \in Claim /\ current[w].id \in Invocations
  <2>1. step[w] # "idle"
    BY DEF Export, ExportFails
  <2> QED
    BY <2>1, ClaimsTyped, ClaimParts DEF OutboxInv
<1>2. /\ UNCHANGED <<row, held, current, adrift>>
      /\ \/ /\ step' = [step EXCEPT ![w] = "exported"]
            /\ destination' = destination \union {current[w].id}
         \/ /\ step' = [step EXCEPT ![w] = "failed"]
            /\ destination \subseteq destination'
      /\ destination' \in SUBSET Invocations
      /\ exports' \in [Invocations -> Nat]
      /\ step[w] = "exporting"
  BY <1>1 DEF Export, ExportFails, Sent, OutboxInv, TypeOK
<1>3. TypeOK'
  BY <1>2 DEF OutboxInv, TypeOK, Steps, row
<1>4. \A v \in Workers : ClaimsOf(v)' \subseteq ClaimsOf(v)
  BY <1>2 DEF ClaimsOf
<1>5. \A v \in Workers : step'[v] = "exported" => current'[v].id \in destination'
  BY <1>2 DEF OutboxInv, TypeOK, ClaimInv
<1> QED
  BY <1>2, <1>3, <1>4, <1>5, SameRows

\* So does a worker that drops its batch.
LEMMA AbandonKeeps ==
  ASSUME OutboxInv, NEW w \in Workers, Abandon(w)
  PROVE  OutboxInv'
<1> USE LimitsAssumption
<1>1. /\ UNCHANGED <<row, destination, exports>>
      /\ held' = [held EXCEPT ![w] = {}]
      /\ current' = [current EXCEPT ![w] = NoClaim]
      /\ step' = [step EXCEPT ![w] = "idle"]
      /\ \/ adrift' = adrift
         \/ /\ adrift' = adrift \union {current[w]}
            /\ current[w] \in ClaimsOf(w)
  BY ClaimsTyped DEF Abandon, OutboxInv
<1>2. TypeOK'
  BY <1>1, ClaimsTyped DEF OutboxInv, TypeOK, Steps, row
<1>3. \A v \in Workers : ClaimsOf(v)' \subseteq ClaimsOf(v)
  BY <1>1 DEF OutboxInv, TypeOK, ClaimsOf
<1>4. \A v \in Workers : step'[v] = "exported" => current'[v].id \in destination'
  BY <1>1 DEF OutboxInv, TypeOK, ClaimInv
<1> QED
  BY <1>1, <1>2, <1>3, <1>4, SameRows

\* So does an export that outlived its worker.
LEMMA LateKeeps ==
  ASSUME OutboxInv, NEW c \in adrift, LateExport(c)
  PROVE  OutboxInv'
<1>1. /\ UNCHANGED <<row, held, current, step>>
      /\ adrift' = adrift \ {c} /\ destination \subseteq destination'
      /\ destination' \in SUBSET Invocations
      /\ exports' \in [Invocations -> Nat]
  BY ClaimParts DEF LateExport, Sent, batch, OutboxInv, TypeOK
<1>2. TypeOK'
  BY <1>1 DEF OutboxInv, TypeOK, row
<1>3. \A v \in Workers : ClaimsOf(v)' \subseteq ClaimsOf(v)
  BY <1>1 DEF ClaimsOf
<1>4. \A v \in Workers : step'[v] = "exported" => current'[v].id \in destination'
  BY <1>1 DEF OutboxInv, ClaimInv
<1> QED
  BY <1>1, <1>2, <1>3, <1>4, SameRows

---------------------------------------------------------------------------
(* The actions that change the rows. *)

\* So does a new invocation.
LEMMA RecordKeeps ==
  ASSUME OutboxInv, NEW i \in Invocations, Record(i)
  PROVE  OutboxInv'
<1> USE LimitsAssumption
<1>1. /\ status[i] = "absent" /\ status' = [status EXCEPT ![i] = "PENDING"]
      /\ UNCHANGED <<attempts, wait, held, current, step>>
      /\ UNCHANGED <<adrift, destination, exports>>
  BY DEF Record, batch, outside
<1>2. TypeOK'
  BY <1>1 DEF OutboxInv, TypeOK
<1>3. ClaimInv' /\ OneOwner'
  BY <1>1 DEF OutboxInv, ClaimInv, OneOwner, ClaimsOf
<1>4. AttemptInv'
  BY <1>1 DEF OutboxInv, TypeOK, AttemptInv, NeverGivenUpEarly
<1>5. DeliveredWasReceived'
  BY <1>1 DEF OutboxInv, TypeOK, DeliveredWasReceived
<1> QED
  BY <1>2, <1>3, <1>4, <1>5 DEF OutboxInv

\* So does a claimed batch: the new claims carry attempts nobody holds.
LEMMA ClaimKeeps ==
  ASSUME OutboxInv, NEW w \in Workers, ClaimBatch(w)
  PROVE  OutboxInv'
<1> USE LimitsAssumption
<1>1. PICK rows \in SUBSET Due(w) :
        LET dead == {i \in rows : Exhausted(i)}
            taken == rows \ dead
        IN /\ status' = [i \in Invocations |-> IF i \in dead THEN "DEAD"
                                               ELSE IF i \in taken THEN "PROCESSING"
                                               ELSE status[i]]
           /\ attempts' = [i \in Invocations |->
                             IF i \in taken THEN attempts[i] + 1 ELSE attempts[i]]
           /\ wait' = [i \in Invocations |-> IF i \in dead THEN 0
                                             ELSE IF i \in taken THEN Lease + Skew[w]
                                             ELSE wait[i]]
           /\ held' = [held EXCEPT ![w] =
                         {[id |-> i, attempt |-> attempts[i] + 1] : i \in taken}]
  BY DEF ClaimBatch, NextAttempt
<1> DEFINE dead == {i \in rows : Exhausted(i)}
           taken == rows \ dead
           new == {[id |-> i, attempt |-> attempts[i] + 1] : i \in taken}
<1>2. /\ rows \subseteq Invocations /\ dead \subseteq Invocations
      /\ taken \subseteq Invocations
      /\ \A i \in rows : status[i] \in {"PENDING", "PROCESSING"}
      /\ \A i \in dead : attempts[i] >= MaxAttempts
      /\ \A i \in taken : status[i] = "PROCESSING" => ~ (attempts[i] >= MaxAttempts)
  BY DEF Due, Exhausted
<1>3. /\ status' = [i \in Invocations |-> IF i \in dead THEN "DEAD"
                                          ELSE IF i \in taken THEN "PROCESSING"
                                          ELSE status[i]]
      /\ attempts' = [i \in Invocations |->
                        IF i \in taken THEN attempts[i] + 1 ELSE attempts[i]]
      /\ wait' = [i \in Invocations |-> IF i \in dead THEN 0
                                        ELSE IF i \in taken THEN Lease + Skew[w]
                                        ELSE wait[i]]
      /\ held' = [held EXCEPT ![w] = new]
  BY <1>1
<1>4. UNCHANGED <<current, step, adrift, destination, exports>>
  BY DEF ClaimBatch, outside
<1> HIDE DEF dead, taken
<1>5. attempts \in [Invocations -> Nat] /\ MaxAttempts \in Nat
  BY DEF OutboxInv, TypeOK
<1>6. new \subseteq Claim
  BY <1>2, <1>5 DEF Claim
<1>7. TypeOK'
  <2>1. status' \in [Invocations -> {"absent", "PENDING", "PROCESSING"} \union Settled]
    BY <1>3 DEF OutboxInv, TypeOK, Settled
  <2>2. attempts' \in [Invocations -> Nat]
    BY <1>3, <1>5
  <2>3. wait' \in [Invocations -> Nat]
    <3>1. Lease + Skew[w] \in Nat
      OBVIOUS
    <3> QED
      BY <1>3, <3>1 DEF OutboxInv, TypeOK
  <2>4. held' \in [Workers -> SUBSET Claim]
    BY <1>3, <1>6 DEF OutboxInv, TypeOK
  <2> QED
    BY <1>4, <2>1, <2>2, <2>3, <2>4 DEF OutboxInv, TypeOK
<1>8. \A c \in new : c.attempt = attempts[c.id] + 1 /\ c.id \in taken
  OBVIOUS
<1>9. \A v \in Workers : \A c \in ClaimsOf(v)' :
        c \in ClaimsOf(v) \/ (v = w /\ c \in new)
  BY <1>3, <1>4 DEF ClaimsOf, OutboxInv, TypeOK
<1>10. \A i \in Invocations : attempts[i] <= attempts'[i]
  BY <1>3, <1>5
<1>11. \A v \in Workers : \A c \in ClaimsOf(v) :
         /\ c.id \in Invocations /\ c.attempt \in Nat
         /\ c.attempt <= attempts[c.id]
  BY ClaimsTyped, ClaimParts DEF OutboxInv, ClaimInv
<1>12. ClaimInv'
  <2>1. ASSUME NEW v \in Workers, NEW c \in ClaimsOf(v)'
        PROVE  c.attempt <= attempts'[c.id]
    <3>1. CASE c \in ClaimsOf(v)
      BY <1>5, <1>7, <1>10, <1>11, <3>1 DEF TypeOK
    <3>2. CASE c \in new
      BY <1>2, <1>3, <1>5, <1>8, <3>2
    <3> QED
      BY <1>9, <3>1, <3>2
  <2>2. ASSUME NEW c \in adrift' PROVE c.attempt <= attempts'[c.id]
    <3>1. c \in Claim /\ c.attempt <= attempts[c.id]
      BY <1>4 DEF OutboxInv, TypeOK, ClaimInv
    <3>2. c.id \in Invocations /\ c.attempt \in Nat
      BY <3>1, ClaimParts
    <3> QED
      BY <1>5, <1>7, <1>10, <3>1, <3>2 DEF TypeOK
  <2> QED
    BY <1>4, <2>1, <2>2 DEF OutboxInv, ClaimInv
<1>13. OneOwner'
  <2> SUFFICES ASSUME NEW v1 \in Workers, NEW v2 \in Workers, v1 # v2,
                      NEW c \in ClaimsOf(v1)', c \in ClaimsOf(v2)'
               PROVE  FALSE
    BY DEF OneOwner
  <2>1. c \in new => c \notin ClaimsOf(v1) /\ c \notin ClaimsOf(v2)
    BY <1>2, <1>5, <1>8, <1>11
  <2> QED
    BY <1>9, <2>1 DEF OutboxInv, OneOwner
<1>14. AttemptInv'
  <2>1. ASSUME NEW i \in Invocations
        PROVE  /\ attempts'[i] <= MaxAttempts
               /\ status'[i] = "DEAD" => attempts'[i] = MaxAttempts
               /\ status'[i] = "PENDING" => attempts'[i] < MaxAttempts
               /\ status'[i] = "absent" => attempts'[i] = 0
    <3>1. /\ attempts[i] \in Nat /\ attempts[i] <= MaxAttempts
          /\ status[i] = "DEAD" => attempts[i] = MaxAttempts
          /\ status[i] = "PENDING" => attempts[i] < MaxAttempts
          /\ status[i] = "absent" => attempts[i] = 0
      BY <1>5 DEF OutboxInv, AttemptInv, NeverGivenUpEarly
    <3>2. CASE i \in dead
      BY <1>2, <1>3, <1>5, <3>1, <3>2 DEF dead, taken
    <3>3. CASE i \in taken
      <4>1. attempts[i] < MaxAttempts /\ i \notin dead
        BY <1>2, <1>5, <3>1, <3>3 DEF taken
      <4> QED
        BY <1>3, <1>5, <3>1, <3>3, <4>1
    <3>4. CASE i \notin dead /\ i \notin taken
      BY <1>3, <3>1, <3>4
    <3> QED
      BY <3>2, <3>3, <3>4
  <2> QED
    BY <2>1 DEF AttemptInv, NeverGivenUpEarly
<1>15. DeliveredWasReceived'
  BY <1>3, <1>4 DEF OutboxInv, DeliveredWasReceived
<1> QED
  BY <1>7, <1>12, <1>13, <1>14, <1>15 DEF OutboxInv

\* What a worker that finishes a claim does to its row.
LEMMA FinishEffect ==
  ASSUME OutboxInv, NEW w \in Workers, MarkDelivered(w) \/ MarkFailure(w)
  PROVE  \/ UNCHANGED <<status, wait>>
         \/ \E to \in Settled \union {"PENDING"}, n \in Nat :
              /\ current[w].id \in Invocations
              /\ status[current[w].id] = "PROCESSING"
              /\ status' = [status EXCEPT ![current[w].id] = to]
              /\ wait' = [wait EXCEPT ![current[w].id] = n]
              /\ to = "DELIVERED" => current[w].id \in destination
              /\ to = "DEAD" => attempts[current[w].id] = MaxAttempts
              /\ to = "PENDING" => attempts[current[w].id] < MaxAttempts
<1> USE LimitsAssumption
<1> DEFINE c == current[w]
<1>1. /\ c \in Claim /\ c.id \in Invocations /\ c.attempt \in Nat \ {0}
      /\ attempts[c.id] \in Nat /\ attempts[c.id] <= MaxAttempts
  <2>1. step[w] # "idle"
    BY DEF MarkDelivered, MarkFailure
  <2>2. c \in Claim
    BY <2>1, ClaimsTyped DEF OutboxInv
  <2> QED
    BY <2>2, ClaimParts DEF OutboxInv, TypeOK, AttemptInv, NeverGivenUpEarly
<1>2. CASE ~ Owns(c)
  BY <1>2 DEF MarkDelivered, MarkFailure, row
<1>3. CASE Owns(c) /\ MarkDelivered(w)
  <2>1. c.id \in destination
    BY <1>3 DEF MarkDelivered, OutboxInv, ClaimInv
  <2> QED
    BY <1>1, <1>3, <2>1 DEF MarkDelivered, Settle, Settled, Owns
<1>4. CASE Owns(c) /\ MarkFailure(w) /\ c.attempt >= MaxAttempts
  <2>1. attempts[c.id] = MaxAttempts
    BY <1>1, <1>4 DEF Owns
  <2> QED
    BY <1>1, <1>4, <2>1 DEF MarkFailure, Settle, Settled, Owns
<1>5. CASE Owns(c) /\ MarkFailure(w) /\ ~ (c.attempt >= MaxAttempts)
  <2>1. attempts[c.id] < MaxAttempts /\ c.attempt \in 1..MaxAttempts
    BY <1>1, <1>5 DEF Owns
  <2>2. Backoff(c.attempt) + Skew[w] \in Nat
    BY <2>1
  <2>3. Retry(w, c)
    BY <1>5 DEF MarkFailure
  <2> QED
    BY <1>1, <1>5, <2>1, <2>2, <2>3 DEF Retry, Owns
<1> QED
  BY <1>2, <1>3, <1>4, <1>5

\* So does finishing a claim.
LEMMA FinishKeeps ==
  ASSUME OutboxInv, NEW w \in Workers, MarkDelivered(w) \/ MarkFailure(w)
  PROVE  OutboxInv'
<1> USE LimitsAssumption
<1>1. /\ UNCHANGED <<attempts, held, adrift, destination, exports>>
      /\ current' = [current EXCEPT ![w] = NoClaim]
      /\ step' = [step EXCEPT ![w] = "idle"]
  BY DEF MarkDelivered, MarkFailure, Settle, Retry, Finish, row, outside
<1>2. TypeOK'
  <2>1. status' \in [Invocations -> {"absent", "PENDING", "PROCESSING"} \union Settled]
        /\ wait' \in [Invocations -> Nat]
    BY FinishEffect DEF OutboxInv, TypeOK, Settled
  <2> QED
    BY <1>1, <2>1 DEF OutboxInv, TypeOK, Steps
<1>3. \A v \in Workers : ClaimsOf(v)' \subseteq ClaimsOf(v)
  BY <1>1 DEF OutboxInv, TypeOK, ClaimsOf
<1>4. ClaimInv' /\ OneOwner'
  BY <1>1, <1>3 DEF OutboxInv, TypeOK, ClaimInv, OneOwner
<1>5. AttemptInv'
  BY <1>1, FinishEffect DEF OutboxInv, TypeOK, AttemptInv, NeverGivenUpEarly, Settled
<1>6. DeliveredWasReceived'
  BY <1>1, FinishEffect DEF OutboxInv, TypeOK, DeliveredWasReceived
<1> QED
  BY <1>2, <1>4, <1>5, <1>6 DEF OutboxInv

\* So does the passing of time.
LEMMA TickKeeps ==
  ASSUME OutboxInv, Tick
  PROVE  OutboxInv'
<1>1. /\ wait' = [i \in Invocations |-> IF wait[i] > 0 THEN wait[i] - 1 ELSE 0]
      /\ UNCHANGED <<status, attempts, held, current, step, adrift, destination,
                     exports>>
  BY DEF Tick, batch, outside
<1>2. wait' \in [Invocations -> Nat]
  BY <1>1 DEF OutboxInv, TypeOK
<1> QED
  BY <1>1, <1>2 DEF OutboxInv, TypeOK, ClaimInv, AttemptInv, NeverGivenUpEarly,
     OneOwner, ClaimsOf, DeliveredWasReceived

\* The invariant is inductive.
LEMMA OutboxNext ==
  ASSUME OutboxInv, [Next]_vars
  PROVE  OutboxInv'
<1>1. CASE UNCHANGED vars
  BY <1>1 DEF vars, row, batch, outside, OutboxInv, TypeOK, ClaimInv, AttemptInv,
     NeverGivenUpEarly, OneOwner, ClaimsOf, DeliveredWasReceived
<1>2. ASSUME NEW w \in Workers, Work(w) PROVE OutboxInv'
  BY <1>2, ClaimKeeps, StartKeeps, ExportKeeps, FinishKeeps DEF Work, Load, LoadFails
<1> QED
  BY <1>1, <1>2, RecordKeeps, AbandonKeeps, LateKeeps, TickKeeps DEF Next

\* The inductive invariant of the outbox holds in every reachable state.
LEMMA OutboxInvariant == Spec => []OutboxInv
BY OutboxInit, OutboxNext, PTL DEF Spec

\* Rows, batches and the destination stay typed.
THEOREM OutboxTypeCorrect == Spec => []TypeOK
<1>1. OutboxInv => TypeOK
  BY DEF OutboxInv
<1> QED
  BY <1>1, OutboxInvariant, PTL

\* Two workers never hold the same attempt at a row, whatever their clocks show
\* and however late they come back.
THEOREM AttemptsHaveOneOwner == Spec => []OneOwner
<1>1. OutboxInv => OneOwner
  BY DEF OutboxInv
<1> QED
  BY <1>1, OutboxInvariant, PTL

\* A row is called DELIVERED only if the destination has the invocation.
THEOREM NoFalseAcknowledgement == Spec => []DeliveredWasReceived
<1>1. OutboxInv => DeliveredWasReceived
  BY DEF OutboxInv
<1> QED
  BY <1>1, OutboxInvariant, PTL

\* A row is called DEAD only when all its attempts are used, and no row is ever
\* claimed more often than allowed.
THEOREM NoEarlyGivingUp == Spec => []NeverGivenUpEarly
<1>1. OutboxInv => NeverGivenUpEarly
  BY DEF OutboxInv, AttemptInv
<1> QED
  BY <1>1, OutboxInvariant, PTL

---------------------------------------------------------------------------
(* What a step does to the rows, as one case of six, and its consequences. *)

\* A claimed batch: the rows taken had an attempt left, the dead ones had none.
Claimed(taken, dead) ==
  /\ taken \in SUBSET Invocations /\ dead \in SUBSET Invocations
  /\ taken \intersect dead = {}
  /\ \A i \in taken \union dead : status[i] \in {"PENDING", "PROCESSING"}
  /\ \A i \in taken : attempts[i] < MaxAttempts
  /\ \A i \in dead : attempts[i] = MaxAttempts
  /\ status' = [i \in Invocations |-> IF i \in dead THEN "DEAD"
                                      ELSE IF i \in taken THEN "PROCESSING"
                                      ELSE status[i]]
  /\ attempts' = [i \in Invocations |->
                    IF i \in taken THEN attempts[i] + 1 ELSE attempts[i]]
  /\ UNCHANGED destination

\* A finished claim: the row was in progress and takes a justified status.
Finished(i, to) ==
  /\ status[i] = "PROCESSING" /\ status' = [status EXCEPT ![i] = to]
  /\ to = "DELIVERED" => i \in destination
  /\ to = "DEAD" => attempts[i] = MaxAttempts
  /\ UNCHANGED <<attempts, destination>>

RowStep ==
  \/ UNCHANGED <<status, attempts, destination>>
  \/ \E i \in Invocations :
       \/ /\ status[i] = "absent" /\ status' = [status EXCEPT ![i] = "PENDING"]
          /\ UNCHANGED <<attempts, destination>>
       \/ /\ attempts[i] > 0 /\ destination' = destination \union {i}
          /\ UNCHANGED <<status, attempts>>
       \/ \E to \in Settled \union {"PENDING"} : Finished(i, to)
  \/ \E taken, dead \in SUBSET Invocations : Claimed(taken, dead)

\* ClaimBatch takes rows with an attempt left and gives up those without.
LEMMA ClaimStep ==
  ASSUME OutboxInv, NEW w \in Workers, ClaimBatch(w)
  PROVE  \E taken, dead \in SUBSET Invocations : Claimed(taken, dead)
<1> USE LimitsAssumption
<1>1. PICK rows \in SUBSET Due(w) :
        LET dead == {i \in rows : Exhausted(i)}
            taken == rows \ dead
        IN /\ status' = [i \in Invocations |-> IF i \in dead THEN "DEAD"
                                               ELSE IF i \in taken THEN "PROCESSING"
                                               ELSE status[i]]
           /\ attempts' = [i \in Invocations |->
                             IF i \in taken THEN attempts[i] + 1 ELSE attempts[i]]
  BY DEF ClaimBatch, NextAttempt
<1> DEFINE dead == {i \in rows : Exhausted(i)}
           taken == rows \ dead
<1>2. /\ dead \in SUBSET Invocations /\ taken \in SUBSET Invocations
      /\ taken \intersect dead = {}
      /\ \A i \in taken \union dead : status[i] \in {"PENDING", "PROCESSING"}
  BY DEF Due
<1>3. ASSUME NEW i \in Invocations
      PROVE  /\ attempts[i] \in Nat /\ attempts[i] <= MaxAttempts /\ MaxAttempts \in Nat
             /\ status[i] = "PENDING" => attempts[i] < MaxAttempts
  BY DEF OutboxInv, TypeOK, AttemptInv, NeverGivenUpEarly
<1>4. \A i \in dead : attempts[i] = MaxAttempts
  BY <1>2, <1>3 DEF Exhausted
<1>5. \A i \in taken : attempts[i] < MaxAttempts
  BY <1>2, <1>3 DEF Exhausted
<1>6. /\ status' = [i \in Invocations |-> IF i \in dead THEN "DEAD"
                                          ELSE IF i \in taken THEN "PROCESSING"
                                          ELSE status[i]]
      /\ attempts' = [i \in Invocations |->
                        IF i \in taken THEN attempts[i] + 1 ELSE attempts[i]]
      /\ UNCHANGED destination
  BY <1>1 DEF ClaimBatch, outside
<1> HIDE DEF dead, taken
<1> QED
  BY <1>2, <1>4, <1>5, <1>6 DEF Claimed

\* Every step is one of the row steps.
LEMMA EveryStepIsARowStep ==
  ASSUME OutboxInv, [Next]_vars
  PROVE  RowStep
<1> USE LimitsAssumption
<1>1. ASSUME NEW c \in Claim, c.attempt <= attempts[c.id]
      PROVE  c.id \in Invocations /\ attempts[c.id] > 0
  BY <1>1, ClaimParts DEF OutboxInv, TypeOK
<1>2. ASSUME NEW w \in Workers, Export(w) \/ ExportFails(w) PROVE RowStep
  <2>1. step[w] # "idle"
    BY <1>2 DEF Export, ExportFails
  <2>2. current[w] \in Claim /\ current[w].attempt <= attempts[current[w].id]
    BY <2>1, ClaimsTyped DEF OutboxInv, ClaimInv
  <2> QED
    BY <1>1, <1>2, <2>2 DEF Export, ExportFails, Sent, RowStep, row
<1>3. ASSUME NEW c \in adrift, LateExport(c) PROVE RowStep
  <2>1. c \in Claim /\ c.attempt <= attempts[c.id]
    BY DEF OutboxInv, TypeOK, ClaimInv
  <2> QED
    BY <1>1, <1>3, <2>1 DEF LateExport, Sent, RowStep, row
<1>4. ASSUME NEW w \in Workers, MarkDelivered(w) \/ MarkFailure(w) PROVE RowStep
  <2>1. UNCHANGED <<attempts, destination>>
    BY <1>4 DEF MarkDelivered, MarkFailure, Settle, Retry, Finish, row, outside
  <2> QED
    BY <1>4, <2>1, FinishEffect DEF RowStep, Finished
<1>5. ASSUME NEW w \in Workers, Work(w) PROVE RowStep
  <2>1. CASE \E c \in held[w] : Load(w, c) \/ LoadFails(w, c)
    BY <2>1 DEF Load, LoadFails, Start, row, outside, RowStep
  <2>2. CASE ClaimBatch(w)
    BY <2>2, ClaimStep DEF RowStep
  <2> QED
    BY <1>2, <1>4, <1>5, <2>1, <2>2 DEF Work
<1>6. ASSUME NEW i \in Invocations, Record(i) PROVE RowStep
  BY <1>6 DEF Record, outside, RowStep
<1>7. CASE Tick \/ (\E w \in Workers : Abandon(w)) \/ UNCHANGED vars
  BY <1>7 DEF Tick, Abandon, vars, row, outside, RowStep
<1> QED
  BY <1>3, <1>5, <1>6, <1>7 DEF Next

\* A row that is delivered or dead is never opened again.
THEOREM SettledForGood == Spec => SettledStays
<1>1. ASSUME OutboxInv, [Next]_vars
      PROVE  \A i \in Invocations : status[i] \in Settled => status'[i] = status[i]
  <2>1. status \in [Invocations -> {"absent", "PENDING", "PROCESSING"} \union Settled]
    BY <1>1 DEF OutboxInv, TypeOK
  <2> QED
    BY <1>1, <2>1, EveryStepIsARowStep DEF RowStep, Claimed, Finished, Settled
<1> QED
  BY <1>1, OutboxInvariant, PTL DEF Spec, SettledStays

\* Only the holder of the latest claim on a row takes it back or acknowledges it;
\* a worker whose lease was taken over changes nothing.
THEOREM LatestClaimSettles == Spec => OnlyTheOwnerSettles
<1>1. ASSUME OutboxInv, [Next]_vars
      PROVE  \A i \in Invocations :
               (status[i] = "PROCESSING" /\ status'[i] \in {"PENDING", "DELIVERED"})
               => \E w \in Workers : /\ current[w] = [id |-> i, attempt |-> attempts[i]]
                                     /\ current'[w] = NoClaim
  <2> SUFFICES ASSUME NEW i \in Invocations,
                      status[i] = "PROCESSING", status'[i] \in {"PENDING", "DELIVERED"}
               PROVE  \E w \in Workers :
                        /\ current[w] = [id |-> i, attempt |-> attempts[i]]
                        /\ current'[w] = NoClaim
    OBVIOUS
  <2>1. /\ status \in [Invocations -> {"absent", "PENDING", "PROCESSING"} \union Settled]
        /\ current \in [Workers -> Claim \union {NoClaim}]
    BY <1>1 DEF OutboxInv, TypeOK
  <2>2. ~ UNCHANGED status
    BY <1>1
  <2>3. ASSUME NEW w \in Workers, MarkDelivered(w) \/ MarkFailure(w)
        PROVE  /\ current[w] = [id |-> i, attempt |-> attempts[i]]
               /\ current'[w] = NoClaim
    <3>1. Owns(current[w])
      BY <2>2, <2>3 DEF MarkDelivered, MarkFailure, row
    <3>2. i = current[w].id
      BY <1>1, <2>1, <2>3, FinishEffect
    <3>3. current[w] \in Claim
      BY <1>1, <2>3, ClaimsTyped DEF OutboxInv, MarkDelivered, MarkFailure
    <3>4. current[w] = [id |-> i, attempt |-> attempts[i]]
      BY <3>1, <3>2, <3>3 DEF Owns, Claim
    <3> QED
      BY <2>1, <2>3, <3>4 DEF MarkDelivered, MarkFailure, Finish
  <2>4. ~ \E w \in Workers : ClaimBatch(w)
    BY <1>1, ClaimStep DEF Claimed
  <2>5. ~ \E j \in Invocations : Record(j)
    BY <1>1, <2>1 DEF Record
  <2>6. CASE \E w \in Workers : Work(w)
    BY <2>2, <2>3, <2>4, <2>6 DEF Work, Load, LoadFails, Start, Export, ExportFails, row
  <2> QED
    BY <1>1, <2>2, <2>5, <2>6 DEF Next, Abandon, LateExport, Tick, vars, row
<1> QED
  BY <1>1, OutboxInvariant, PTL DEF Spec, OnlyTheOwnerSettles

---------------------------------------------------------------------------
(* Implementation of DeliveryIntent. *)

IntentState == [i \in Invocations |-> IntentOf(i)]

\* Every step is a step of DeliveryIntent or leaves its variables alone.
LEMMA IntentStep ==
  ASSUME OutboxInv, OutboxInv', [Next]_vars
  PROVE  [Intent!Next]_(Intent!vars)
<1>1. /\ status \in [Invocations -> {"absent", "PENDING", "PROCESSING"} \union Settled]
      /\ status' \in [Invocations -> {"absent", "PENDING", "PROCESSING"} \union Settled]
  BY DEF OutboxInv, TypeOK
<1>2. ASSUME NEW i \in Invocations
      PROVE  /\ status[i] = "absent" => IntentState[i] = "none"
             /\ status[i] \in {"PENDING", "PROCESSING"} => IntentState[i] = "owed"
             /\ status[i] = "DELIVERED" => IntentState[i] = "delivered"
             /\ status[i] = "DEAD" => IntentState[i] = "dead"
             /\ status'[i] = "absent" => IntentState'[i] = "none"
             /\ status'[i] \in {"PENDING", "PROCESSING"} => IntentState'[i] = "owed"
             /\ status'[i] = "DELIVERED" => IntentState'[i] = "delivered"
             /\ status'[i] = "DEAD" => IntentState'[i] = "dead"
  BY DEF IntentState, IntentOf
<1>3. /\ IntentState = [i \in Invocations |-> IntentState[i]]
      /\ IntentState' = [i \in Invocations |-> IntentState'[i]]
  BY DEF IntentState
<1>4. /\ IntentState \in [Invocations -> {"none", "owed", "delivered", "dead"}]
      /\ IntentState' \in [Invocations -> {"none", "owed", "delivered", "dead"}]
  BY <1>1, <1>2, <1>3 DEF Settled
\* A step that moves one row and its image.
<1>5. ASSUME NEW i \in Invocations, NEW to,
             status' = [status EXCEPT ![i] = to]
      PROVE  IntentState' = [IntentState EXCEPT ![i] = IntentState'[i]]
  <2>1. \A j \in Invocations \ {i} : IntentState'[j] = IntentState[j]
    BY <1>1, <1>2, <1>5 DEF Settled
  <2> QED
    BY <1>4, <2>1
<1>6. CASE UNCHANGED <<status, attempts, destination>>
  BY <1>6 DEF Intent!vars, IntentOf
<1>7. ASSUME NEW i \in Invocations, status[i] = "absent",
             status' = [status EXCEPT ![i] = "PENDING"],
             UNCHANGED <<attempts, destination>>
      PROVE  Intent!Owe(i)
  <2>1. IntentState[i] = "none" /\ IntentState'[i] = "owed"
    BY <1>1, <1>2, <1>7
  <2> QED
    BY <1>5, <1>7, <2>1 DEF Intent!Owe, Intent!Become, IntentState
<1>8. ASSUME NEW i \in Invocations, attempts[i] > 0,
             destination' = destination \union {i}, UNCHANGED <<status, attempts>>
      PROVE  Intent!Receive(i)
  BY <1>8 DEF Intent!Receive, IntentOf
<1>9. ASSUME NEW i \in Invocations, NEW to \in Settled \union {"PENDING"},
             Finished(i, to)
      PROVE  [Intent!Next]_(Intent!vars)
  <2>1. IntentState[i] = "owed"
    BY <1>2, <1>9 DEF Finished
  <2>2. CASE to = "DELIVERED"
    <3>1. IntentState'[i] = "delivered"
      BY <1>1, <1>2, <1>9, <2>2 DEF Finished
    <3>2. Intent!Deliver(i)
      BY <1>5, <1>9, <2>1, <2>2, <3>1 DEF Finished, Intent!Deliver, Intent!Become,
         IntentState
    <3> QED
      BY <3>2 DEF Intent!Next
  <2>3. CASE to = "DEAD"
    <3>1. IntentState'[i] = "dead"
      BY <1>1, <1>2, <1>9, <2>3 DEF Finished
    <3>2. IntentState' = [j \in Invocations |->
                            IF j \in {i} THEN "dead" ELSE IntentState[j]]
      BY <1>4, <1>5, <1>9, <3>1 DEF Finished
    <3>3. attempts' = [j \in Invocations |->
                         IF j \in {} THEN attempts[j] + 1 ELSE attempts[j]]
      BY <1>9 DEF Finished, OutboxInv, TypeOK
    <3>4. Intent!Attempt({}, {i})
      BY <1>9, <2>1, <2>3, <3>2, <3>3 DEF Finished, Intent!Attempt, IntentState
    <3> QED
      BY <3>4 DEF Intent!Next
  <2>4. CASE to = "PENDING"
    <3>1. IntentState'[i] = "owed"
      BY <1>1, <1>2, <1>9, <2>4 DEF Finished
    <3>2. IntentState' = [IntentState EXCEPT ![i] = IntentState[i]]
      BY <1>5, <1>9, <2>1, <3>1 DEF Finished
    <3>3. IntentState' = IntentState
      BY <1>4, <3>2
    <3> QED
      BY <1>9, <3>3 DEF Finished, Intent!vars, IntentState
  <2> QED
    BY <2>2, <2>3, <2>4 DEF Settled
<1>10. ASSUME NEW taken \in SUBSET Invocations, NEW dead \in SUBSET Invocations,
              Claimed(taken, dead)
       PROVE  Intent!Attempt(taken, dead)
  <2>1. \A i \in taken \union dead : IntentState[i] = "owed"
    BY <1>2, <1>10 DEF Claimed
  <2>2. \A i \in Invocations :
          IntentState'[i] = IF i \in dead THEN "dead" ELSE IntentState[i]
    BY <1>1, <1>2, <1>10 DEF Claimed, Settled
  <2>3. IntentState' = [i \in Invocations |->
                          IF i \in dead THEN "dead" ELSE IntentState[i]]
    BY <1>3, <2>2
  <2> QED
    BY <1>10, <2>1, <2>3 DEF Claimed, Intent!Attempt, IntentState
<1> QED
  BY <1>6, <1>7, <1>8, <1>9, <1>10, EveryStepIsARowStep DEF RowStep, Intent!Next

\* The outbox with all its workers, clocks and faults implements DeliveryIntent.
THEOREM OutboxKeepsIntent == Spec => KeepsIntent
<1>1. Init => Intent!Init
  BY DEF Init, Intent!Init, IntentOf
<1> QED
  BY <1>1, IntentStep, OutboxInvariant, PTL DEF Spec, KeepsIntent, Intent!Spec
=============================================================================
