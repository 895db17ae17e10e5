--------------------------- MODULE MCDemoBootstrap ---------------------------
(* One asset that two cases share, as the frozen manifest has two.           *)
EXTENDS DemoBootstrap, TLC
CONSTANTS k1, k2, a1, s1, m1
MCCorpora == <<<<k1, a1>>, <<k2, a1>>>>
MCFinals == <<a1>>
MCSections == a1 :> {s1}
MCSummaries == a1 :> {m1}
Profile(external, allowed) ==
  [local |-> TRUE, complete |-> TRUE, external |-> external, allowed |-> allowed]
MCProfiles == {Profile({}, FALSE), Profile({"embedding"}, FALSE)}
=============================================================================
