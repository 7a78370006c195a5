------------------------------- MODULE MCConfig -------------------------------
(* Config with two threads and files with repeated, unknown, logging and      *)
(* broken lines.                                                              *)
EXTENDS Config, TLC

CONSTANTS t1, t2, a, b, log

MCLoaders == {t1, t2}
MCNames == {a, b, log}
MCLogNames == {log}

Line(n, v) == [name |-> n, value |-> v]

MCFiles ==
    { <<>>,
      <<Line(a, 1), Line(b, 1)>>,
      <<Line(a, 2), Junk, Line(a, 3)>>,
      <<Line(b, 2), Line(log, 1)>>,
      <<Line(a, 4), Broken>> }
Symmetry == Permutations(MCLoaders)
=============================================================================
