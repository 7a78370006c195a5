------------------------------ MODULE MCCleanup ------------------------------
(* Two source files and a text file in a core directory and next to it.       *)
EXTENDS Cleanup

CONSTANTS main, side, list, core, tree

MCFiles == {main, side, list}
MCSources == {main, side}
MCOwn == [f \in MCFiles |-> 2]
MCDirs == {core, tree}
MCUnder == (core :> MCFiles) @@ (tree :> {main})
MCCoreUnder == [d \in {core} |-> {main, list}]

Line(n) == <<n, NoTail>>
Lines == {Line(0), Line(1), Line(2), Line(3), <<1, Tab>>, <<2, Spaces>>}

(* Everything short, and some longer texts with blocks that overlap.          *)
MCTexts ==
    UNION {[1 .. n -> Lines] : n \in 0 .. 4}
    \union { <<Line(2), Line(1), Line(0), Line(3), Line(2), Line(1)>>,
             <<Line(1), Line(1), Line(0), Line(3), Line(2), Line(3)>>,
             <<Line(3), Line(1), Line(0), Line(3), Line(3), Line(1), Line(3)>>,
             <<Line(2), Line(0), Line(3), Line(1), Line(0), Line(1), Line(3), Line(1)>>,
             <<BlankLine, Line(2), BlankLine, BlankLine, Line(1), BlankLine>> }

MCBeginnings ==
    {[f \in MCFiles |-> CASE f = main -> text
                         [] f = side -> <<Line(3), Line(1)>>
                         [] OTHER -> <<<<0, Tab>>>>] : text \in MCTexts}
=============================================================================
