------------------------- MODULE MCEntailmentReview -------------------------
(* A small instance of EntailmentReview for TLC.                            *)
EXTENDS EntailmentReview, TLC

CONSTANTS c1, c2

\* Two ways to fill a worksheet that agree with themselves and differ on both
\* claims, by a label and by an abstention, and one with a row left open.
MCFillings ==
    {(c1 :> "ENTAILED" @@ c2 :> "ENTAILED"), (c1 :> "CONTRADICTED" @@ c2 :> "SKIP"),
     (c1 :> "CONFLICT" @@ c2 :> None)}

\* Runs, people, seeds and slots are told apart only by equality.
MCSymmetry == Permutations(Runs) \cup Permutations(People) \cup Permutations(Slots)
=============================================================================
