----------------------------- MODULE MCGroundedQA -----------------------------
(* Small instances of GroundedQA. *)
EXTENDS GroundedQA

CONSTANTS c1, c2, k1, q1, q2

TwoCallers == {c1, c2}
OneKey == {k1}
TwoRequests == {q1, q2}
=============================================================================
