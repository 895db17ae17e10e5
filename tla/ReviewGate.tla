----------------------------- MODULE ReviewGate -----------------------------
(***************************************************************************)
(* What a full review promises, whatever its stages: a report is published *)
(* once, at the moment the run is released, and only when no claim is open *)
(* any more; a run waits for humans exactly while claims are open, and     *)
(* they only get fewer; released and stopped runs never change again.      *)
(***************************************************************************)
CONSTANT Claims

VARIABLES
  phase,     \* "working", "waiting" for humans, "released" or "stopped"
  open,      \* the claims that block a report
  published  \* the claim sets of the reports published, in order

vars == <<phase, open, published>>

Init == phase = "working" /\ open = {} /\ published = <<>>

\* Agents find claims, the audit settles or keeps them.
Work ==
  /\ phase = "working"
  /\ open' \in SUBSET Claims
  /\ UNCHANGED <<phase, published>>

Park ==
  /\ phase = "working" /\ phase' = "waiting"
  /\ open' \in (SUBSET Claims) \ {{}}
  /\ UNCHANGED published

Settle ==
  /\ phase = "waiting"
  /\ open' \in (SUBSET open) \ {{}}
  /\ UNCHANGED <<phase, published>>

Release ==
  /\ phase \in {"working", "waiting"} /\ phase' = "released"
  /\ open' = {}
  /\ \E report \in SUBSET Claims : published' = <<report>>

Stop ==
  /\ phase = "working" /\ phase' = "stopped"
  /\ UNCHANGED <<open, published>>

Next == Work \/ Park \/ Settle \/ Release \/ Stop
Spec == Init /\ [][Next]_vars
=============================================================================
