--------------------------- MODULE DeliveryIntent ---------------------------
(***************************************************************************)
(* What the telemetry outbox promises of an invocation, however many       *)
(* workers are involved: a delivery owed is tried a bounded number of      *)
(* times, every receipt belongs to a try, it is called delivered only once *)
(* received and dead only once all tries are used, and then for good.      *)
(***************************************************************************)
EXTENDS Naturals

CONSTANTS Invocations, MaxAttempts

VARIABLES
  state,    \* "none", "owed", "delivered" or "dead"
  tries,    \* how often the delivery was attempted
  received  \* the invocations the destination has

vars == <<state, tries, received>>

Init ==
  /\ state = [i \in Invocations |-> "none"]
  /\ tries = [i \in Invocations |-> 0]
  /\ received = {}

Become(i, from, to) ==
  /\ state[i] = from
  /\ state' = [state EXCEPT ![i] = to]
  /\ UNCHANGED <<tries, received>>

Owe(i) == Become(i, "none", "owed")
Deliver(i) == i \in received /\ Become(i, "owed", "delivered")

\* Several deliveries are tried, and several given up, at once.
Attempt(tried, dead) ==
  /\ \A i \in tried \union dead : state[i] = "owed"
  /\ \A i \in tried : tries[i] < MaxAttempts
  /\ \A i \in dead : tries[i] = MaxAttempts
  /\ tries' = [i \in Invocations |-> IF i \in tried THEN tries[i] + 1 ELSE tries[i]]
  /\ state' = [i \in Invocations |-> IF i \in dead THEN "dead" ELSE state[i]]
  /\ UNCHANGED received

Receive(i) ==
  /\ tries[i] > 0
  /\ received' = received \union {i}
  /\ UNCHANGED <<state, tries>>

Next ==
  \/ \E i \in Invocations : Owe(i) \/ Deliver(i) \/ Receive(i)
  \/ \E tried, dead \in SUBSET Invocations : Attempt(tried, dead)

Spec == Init /\ [][Next]_vars
=============================================================================
