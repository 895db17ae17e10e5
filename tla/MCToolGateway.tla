---------------------------- MODULE MCToolGateway ----------------------------
(* A small instance of ToolGateway for TLC: a stage whose agent lets errors  *)
(* out and one whose agent catches them.                                     *)
EXTENDS ToolGateway, TLC

CONSTANTS r1, r2

MCStages == <<"financial", "risk">>
MCMaxCallsOf == (r1 :> 2 @@ r2 :> 1)
\* r2 is a run of production, or one whose session cannot hold a ledger.
MCSinks == (r1 :> {"FAIL_CLOSED"} @@ r2 :> {"FAIL_CLOSED", "EVENTS"})
=============================================================================
