--------------------------- MODULE MCIndexPipeline ---------------------------
(* Small instances of IndexPipeline. *)
EXTENDS IndexPipeline, TLC

CONSTANTS r1, r2, c1, c2, l1, d1, a1, a2, w1, f1

TwoRuns == {r1, r2}
TwoConfigs == {c1, c2}
OneLeaf == {l1}
NoSummary == {}
OneSummary == {d1}
OneLoader == {a1}
TwoLoaders == {a1, a2}
OneWorker == {w1}
OneSnapshot == {f1}

Alike == Permutations(Runs) \union Permutations(Configs)
=============================================================================
