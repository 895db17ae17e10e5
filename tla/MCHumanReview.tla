--------------------------- MODULE MCHumanReview ---------------------------
(* Small instances of HumanReview. *)
EXTENDS HumanReview, TLC

CONSTANTS r1, r2, k1, k2, c1, c2

TwoReviewers == {r1, r2}
OneReviewer == {r1}
NoReviewers == {}
TwoKeys == {k1, k2}
OneKey == {k1}
TwoClaims == {c1, c2}
OneClaim == {c1}

\* Clients of one kind, keys and claims are interchangeable in safety runs.
Interchangeable ==
  Permutations({k1, k2}) \union Permutations({c1, c2}) \union Permutations({r1, r2})

\* The review runs are kept to Supervisor runs without failing agents; the run
\* of the Supervisor alone has all the others.
PlainRun == \A p \in Producers : artifacts[p] \in {"none", "OK"}

\* ... whose task returns, or is cancelled at most.
Uninterrupted == task \in Active \union {"returned"}
CancelledAtMost == Uninterrupted \/ task = "cancelled"
=============================================================================
