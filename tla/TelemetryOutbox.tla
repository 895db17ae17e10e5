--------------------------- MODULE TelemetryOutbox ---------------------------
(***************************************************************************)
(* Delivery of the invocation ledger: every recorded invocation owes one   *)
(* delivery, kept as an outbox row that leased workers claim in batches,   *)
(* export one by one and settle.  Workers crash, are cancelled or outlive  *)
(* their lease, so a row may be exported by several of them; a claim is    *)
(* fenced by the attempt number it was taken with.                         *)
(*                                                                         *)
(* Each action is one database transaction or one exporter call.  Time is  *)
(* kept as what is left of it: wait[i] counts down to available_at of a    *)
(* PENDING row and to locked_until of a PROCESSING one.                    *)
(***************************************************************************)
EXTENDS Integers, FiniteSets

CONSTANTS
  Invocations,  \* the ids of the invocations that may be recorded
  Workers,
  MaxAttempts,  \* claims of a row before it is given up
  BatchSize,    \* rows a worker claims at a time
  Lease,        \* ticks a claim lasts
  BaseBackoff,  \* ticks to wait after the first failure
  MaxBackoff,   \* ticks to wait at most
  Skew,         \* worker |-> ticks its clock is ahead of the slowest clock
  NoClaim       \* the absence of a claim

\* min(base * 2 ** (attempt - 1), maximum)
Backoff(attempt) ==
  IF BaseBackoff * 2^(attempt - 1) < MaxBackoff
  THEN BaseBackoff * 2^(attempt - 1)
  ELSE MaxBackoff

Claim == [id : Invocations, attempt : Nat \ {0}]

ASSUME LimitsAssumption ==
  /\ MaxAttempts \in Nat \ {0} /\ BatchSize \in Nat \ {0} /\ Lease \in Nat \ {0}
  /\ \A n \in 1..MaxAttempts : Backoff(n) \in Nat \ {0}
  /\ Skew \in [Workers -> Nat]
  /\ NoClaim \notin Claim

VARIABLES
  status,       \* telemetry_outbox.status, or "absent"
  attempts,     \* telemetry_outbox.attempts
  wait,         \* ticks left to available_at or locked_until
  held,         \* the claims of each worker's batch it has not started on
  current,      \* the claim each worker is working on, or NoClaim
  step,         \* where it is with that claim
  adrift,       \* invocations whose export outlived its cancelled worker
  destination,  \* invocations the destination has received
  exports       \* how often each invocation was sent to the destination

row == <<status, attempts, wait>>
batch == <<held, current, step>>
outside == <<adrift, destination, exports>>
vars == <<row, batch, outside>>

Steps == {"idle", "exporting", "exported", "failed"}
Settled == {"DELIVERED", "DEAD"}

Init ==
  /\ status = [i \in Invocations |-> "absent"]
  /\ attempts = [i \in Invocations |-> 0]
  /\ wait = [i \in Invocations |-> 0]
  /\ held = [w \in Workers |-> {}]
  /\ current = [w \in Workers |-> NoClaim]
  /\ step = [w \in Workers |-> "idle"]
  /\ adrift = {} /\ destination = {}
  /\ exports = [i \in Invocations |-> 0]

\* The ledger entry and its outbox row are inserted in one transaction.
Record(i) ==
  /\ status[i] = "absent"
  /\ status' = [status EXCEPT ![i] = "PENDING"]
  /\ UNCHANGED <<attempts, wait, batch, outside>>

---------------------------------------------------------------------------
(* Claiming. *)

\* Mistaken: expired leases are not looked for.
DueOnlyPending(w) == {i \in Invocations : status[i] = "PENDING" /\ wait[i] <= Skew[w]}

\* What the clock of a worker shows as due: pending rows, and expired leases.
Due(w) == {i \in Invocations : status[i] \in {"PENDING", "PROCESSING"}
                               /\ wait[i] <= Skew[w]}

NextAttempt(i) == attempts[i] + 1

Exhausted(i) == status[i] = "PROCESSING" /\ attempts[i] >= MaxAttempts

\* A batch is any of the due rows up to the limit: SKIP LOCKED passes over rows
\* other transactions hold, whatever the order asked for.  An expired lease of
\* the last attempt is not tried again.
ClaimBatch(w) ==
  /\ step[w] = "idle" /\ held[w] = {}
  /\ \E rows \in (SUBSET Due(w)) \ {{}} :
       LET dead == {i \in rows : Exhausted(i)}
           taken == rows \ dead
       IN /\ Cardinality(rows) <= BatchSize
          /\ status' = [i \in Invocations |-> IF i \in dead THEN "DEAD"
                                              ELSE IF i \in taken THEN "PROCESSING"
                                              ELSE status[i]]
          /\ attempts' = [i \in Invocations |->
                            IF i \in taken THEN NextAttempt(i) ELSE attempts[i]]
          /\ wait' = [i \in Invocations |-> IF i \in dead THEN 0
                                            ELSE IF i \in taken THEN Lease + Skew[w]
                                            ELSE wait[i]]
          /\ held' = [held EXCEPT ![w] =
                        {[id |-> i, attempt |-> NextAttempt(i)] : i \in taken}]
  /\ UNCHANGED <<current, step, outside>>

---------------------------------------------------------------------------
(* Working through the batch. *)

\* Mistaken: half of the fence.
OwnsByStatus(c) == status[c.id] = "PROCESSING"

Owns(c) == status[c.id] = "PROCESSING" /\ attempts[c.id] = c.attempt

Start(w, c, to) ==
  /\ step[w] = "idle" /\ c \in held[w]
  /\ held' = [held EXCEPT ![w] = @ \ {c}]
  /\ current' = [current EXCEPT ![w] = c]
  /\ step' = [step EXCEPT ![w] = to]
  /\ UNCHANGED <<row, outside>>

\* The worker checks that the claim is still its own before it exports.
Load(w, c) == Owns(c) /\ Start(w, c, "exporting")

\* It is not, or the row or its ledger entry cannot be read or is not intact.
LoadFails(w, c) == Start(w, c, "failed")

Sent(i) == /\ destination' = destination \union {i}
           /\ exports' = [exports EXCEPT ![i] = @ + 1]

Export(w) ==
  /\ step[w] = "exporting"
  /\ Sent(current[w].id)
  /\ step' = [step EXCEPT ![w] = "exported"]
  /\ UNCHANGED <<row, held, current, adrift>>

\* An exporter that raises may have reached the destination all the same.
ExportFails(w) ==
  /\ step[w] = "exporting"
  /\ Sent(current[w].id) \/ UNCHANGED <<destination, exports>>
  /\ step' = [step EXCEPT ![w] = "failed"]
  /\ UNCHANGED <<row, held, current, adrift>>

Finish(w) ==
  /\ current' = [current EXCEPT ![w] = NoClaim]
  /\ step' = [step EXCEPT ![w] = "idle"]
  /\ UNCHANGED <<held, outside>>

Settle(i, to) ==
  /\ status' = [status EXCEPT ![i] = to]
  /\ wait' = [wait EXCEPT ![i] = 0]
  /\ UNCHANGED attempts

MarkDelivered(w) ==
  /\ step[w] = "exported"
  /\ IF Owns(current[w]) THEN Settle(current[w].id, "DELIVERED") ELSE UNCHANGED row
  /\ Finish(w)

Retry(w, c) ==
  /\ status' = [status EXCEPT ![c.id] = "PENDING"]
  /\ wait' = [wait EXCEPT ![c.id] = Backoff(c.attempt) + Skew[w]]
  /\ UNCHANGED attempts

\* Mistaken: the last attempt is never made.
MarkFailureGivesUpEarly(w) ==
  /\ step[w] = "failed"
  /\ LET c == current[w]
     IN IF ~ Owns(c) THEN UNCHANGED row
        ELSE IF c.attempt >= MaxAttempts - 1 THEN Settle(c.id, "DEAD")
        ELSE Retry(w, c)
  /\ Finish(w)

MarkFailure(w) ==
  /\ step[w] = "failed"
  /\ LET c == current[w]
     IN IF ~ Owns(c) THEN UNCHANGED row
        ELSE IF c.attempt >= MaxAttempts THEN Settle(c.id, "DEAD")
        ELSE Retry(w, c)
  /\ Finish(w)

---------------------------------------------------------------------------
(* Faults and time. *)

\* The worker is cancelled, its process dies, or a transaction that settles a
\* row fails: the rest of the batch is dropped and left to its lease.  An export
\* that runs in a thread of its own goes on after a cancellation.
Abandon(w) ==
  /\ step[w] # "idle" \/ held[w] # {}
  /\ held' = [held EXCEPT ![w] = {}]
  /\ current' = [current EXCEPT ![w] = NoClaim]
  /\ step' = [step EXCEPT ![w] = "idle"]
  /\ \/ step[w] = "exporting" /\ adrift' = adrift \union {current[w]}
     \/ UNCHANGED adrift
  /\ UNCHANGED <<row, destination, exports>>

LateExport(c) ==
  /\ c \in adrift
  /\ adrift' = adrift \ {c}
  /\ Sent(c.id)
  /\ UNCHANGED <<row, batch>>

Tick ==
  /\ \E i \in Invocations : wait[i] > 0
  /\ wait' = [i \in Invocations |-> IF wait[i] > 0 THEN wait[i] - 1 ELSE 0]
  /\ UNCHANGED <<status, attempts, batch, outside>>

---------------------------------------------------------------------------
Work(w) ==
  \/ ClaimBatch(w)
  \/ \E c \in held[w] : Load(w, c) \/ LoadFails(w, c)
  \/ Export(w) \/ ExportFails(w) \/ MarkDelivered(w) \/ MarkFailure(w)

Next ==
  \/ \E i \in Invocations : Record(i)
  \/ \E w \in Workers : Work(w) \/ Abandon(w)
  \/ \E c \in adrift : LateExport(c)
  \/ Tick

Spec == Init /\ [][Next]_vars

\* Each worker polls and works through its batches, and time passes; nothing
\* makes an export succeed or a worker stay up.
FairSpec == Spec /\ WF_vars(Tick) /\ \A w \in Workers : WF_vars(Work(w))

---------------------------------------------------------------------------
(* Properties. *)

TypeOK ==
  /\ status \in [Invocations -> {"absent", "PENDING", "PROCESSING"} \union Settled]
  /\ attempts \in [Invocations -> Nat]
  /\ wait \in [Invocations -> Nat]
  /\ held \in [Workers -> SUBSET Claim]
  /\ current \in [Workers -> Claim \union {NoClaim}]
  /\ step \in [Workers -> Steps]
  /\ \A w \in Workers : (step[w] = "idle") <=> (current[w] = NoClaim)
  /\ adrift \in SUBSET Claim
  /\ destination \in SUBSET Invocations
  /\ exports \in [Invocations -> Nat]

ClaimsOf(w) == held[w] \union ({current[w]} \ {NoClaim})

\* However many workers still hold a claim on a row, their claims carry different
\* attempts and so at most one of them can settle it.
OneOwner ==
  \A v, w \in Workers : \A c \in ClaimsOf(v) :
    v # w => c \notin ClaimsOf(w)

\* A delivery is acknowledged only if the destination has the invocation: not on
\* the word of a worker that lost its lease, failed or was cancelled.
DeliveredWasReceived ==
  \A i \in Invocations : status[i] = "DELIVERED" => i \in destination

\* A row is given up only after all its attempts, and never claimed more often.
NeverGivenUpEarly ==
  \A i \in Invocations :
    /\ attempts[i] <= MaxAttempts
    /\ status[i] = "DEAD" => attempts[i] = MaxAttempts

\* The duplicates a destination may see are bounded by the attempts, stragglers
\* of cancelled and superseded workers included.
ExportsBounded == \A i \in Invocations : exports[i] <= attempts[i]

\* A settled row is never opened again by a worker that comes late.
SettledStays ==
  [][\A i \in Invocations : status[i] \in Settled => status'[i] = status[i]]_vars

\* Only the holder of the latest claim takes a row back or acknowledges it: a
\* worker whose lease was taken over changes nothing any more.
OnlyTheOwnerSettles ==
  [][\A i \in Invocations :
       (status[i] = "PROCESSING" /\ status'[i] \in {"PENDING", "DELIVERED"})
       => \E w \in Workers : /\ current[w] = [id |-> i, attempt |-> attempts[i]]
                             /\ current'[w] = NoClaim]_vars

\* The rows keep the promise of DeliveryIntent.
IntentOf(i) == CASE status[i] = "absent" -> "none"
                 [] status[i] \in {"PENDING", "PROCESSING"} -> "owed"
                 [] status[i] = "DELIVERED" -> "delivered"
                 [] status[i] = "DEAD" -> "dead"

Intent == INSTANCE DeliveryIntent
            WITH state <- [i \in Invocations |-> IntentOf(i)],
                 tries <- attempts, received <- destination
KeepsIntent == Intent!Spec

\* Every recorded invocation is settled in the end, whatever fails.
EventuallySettled ==
  \A i \in Invocations : (status[i] # "absent") ~> (status[i] \in Settled)
=============================================================================
