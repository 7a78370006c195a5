---------------------------- MODULE MCFileChannel ----------------------------
(* FileChannel with two accounts and file names with stamps of three moments. *)
EXTENDS FileChannel

CONSTANTS o1, o2

MCOptions == {o1, o2}
MCFiles == {[opt |-> None, stamps |-> s] : s \in Stampings}
=============================================================================
