------------------------------ MODULE MCPrTest ------------------------------
(* Two requests; somebody works on a branch of their own.                     *)
EXTENDS PrTest, TLC

CONSTANTS p1, p2

MCPRs == {p1, p2}
MCInitial == ("master" :> {"m"}) @@ ("work" :> {"m", "w"})
=============================================================================
