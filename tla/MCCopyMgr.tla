------------------------------ MODULE MCCopyMgr ------------------------------
(* Two source trees whose files go to one directory.                          *)
EXTENDS CopyMgr, TLC

CONSTANTS band, fork, run

MCSCs == {band, fork}
MCBinary == [sc \in MCSCs |-> run]
MCSteps == <<"bin", "configs">>
MCNames == {"x", "y"}
MCDirs == {"bin", "configs", "scripts"}
MCFits == ("bin" :> {"x"}) @@ ("configs" :> {"y"}) @@ ("scripts" :> {"x", "y"})
MCTrees == { MCDirs \X MCNames,
             {<<"bin", "x">>, <<"configs", "y">>, <<"scripts", "x">>},
             {<<"bin", "x">>, <<"bin", "y">>, <<"scripts", "y">>},
             {<<"configs", "y">>} }
=============================================================================
