----------------------------- MODULE LogRetention -----------------------------
(***************************************************************************)
(* FileChannel::ClearOldFiles (common/Logging/FileChannel.cpp): when a     *)
(* channel with timestamped file names is created it lists the log files   *)
(* of earlier runs, sorts them by the date in their names, and removes     *)
(* the ones that are too many or too old, one by one.                      *)
(*                                                                         *)
(* Removing a file may throw, and the program may die, which ends the loop *)
(* half way; a later run of the program starts it again, at a later time   *)
(* and with newer files.  FileChannel extends this module by the channel   *)
(* that writes the files.                                                  *)
(***************************************************************************)
EXTENDS Integers, FiniteSets

CONSTANTS Files,        \* the names that match the pattern of the channel
          MaxCount,     \* _maxCount
          PurgeAge,     \* _purgeAge
          MaxDate       \* bound: the clock

ASSUME RetentionAssumption ==
    /\ IsFiniteSet(Files)
    /\ MaxCount \in Nat \ {0}
    /\ PurgeAge \in Nat
    /\ MaxDate \in Nat

VARIABLES date,         \* GetFileCreationDate of every name
          present,      \* the files that exist
          clock,        \* GetEpochTime
          order,        \* logFiles, sorted
          count,        \* logFiles.size()
          i,            \* the position of the loop
          filesCount,   \* filesCount
          limit,        \* deleteBeforeTime
          pc            \* "idle", "loop", "done" or "thrown"

listing == <<order, count, limit>>
vars == <<date, present, clock, listing, i, filesCount, pc>>

Dates == 0 .. MaxDate

(* Plausible bug: the comparison of std::ranges::sort is inverted. *)
IsSortedDown(o, n) == \A j, k \in 1 .. n : j < k => date[o[j]] >= date[o[k]]

(* logFiles lists exactly the files of S, by date; std::ranges::sort promises *)
(* nothing about the order of equal dates.                                    *)
IsSorted(o, n) == \A j, k \in 1 .. n : j < k => date[o[j]] <= date[o[k]]

Lists(o, n, S) ==
    /\ {o[j] : j \in 1 .. n} = S
    /\ \A j, k \in 1 .. n : o[j] = o[k] => j = k

Init ==
    /\ date \in [Files -> Dates]
    /\ present = {}
    /\ clock = 0
    /\ count = 0 /\ order \in [1 .. count -> Files]
    /\ limit = 0
    /\ i = 1
    /\ filesCount = 0
    /\ pc = "idle"

(* Runs of the program leave files; their dates are not after the clock. *)
NewFile(f) ==
    /\ pc # "loop"
    /\ date[f] <= clock
    /\ present' = present \union {f}
    /\ pc' = "idle"
    /\ UNCHANGED <<date, clock, listing, i, filesCount>>

Tick ==
    /\ clock < MaxDate
    /\ clock' = clock + 1
    /\ UNCHANGED <<date, present, listing, i, filesCount, pc>>

Start ==
    /\ pc # "loop"
    /\ count' = Cardinality(present)
    /\ order' \in [1 .. count' -> Files]
    /\ Lists(order', count', present)
    /\ IsSorted(order', count')
    /\ limit' = clock - PurgeAge
    /\ i' = 1
    /\ filesCount' = count'
    /\ pc' = "loop"
    /\ UNCHANGED <<date, present, clock>>

TooMany == filesCount > MaxCount

(* Plausible bug: the age is not compared. *)
NeverTooOld(f) == FALSE

TooOld(f) == date[f] < limit

Remove(f) ==
    /\ present' = present \ {f}
    /\ filesCount' = IF TooMany THEN filesCount - 1 ELSE filesCount

Step ==
    /\ pc = "loop" /\ i <= count
    /\ IF TooMany \/ TooOld(order[i])
       THEN Remove(order[i])
       ELSE UNCHANGED <<present, filesCount>>
    /\ i' = i + 1
    /\ UNCHANGED <<date, clock, listing, pc>>

(* fs::remove throws, or the process dies. *)
Throw ==
    /\ pc = "loop"
    /\ pc' = "thrown"
    /\ UNCHANGED <<date, present, clock, listing, i, filesCount>>

Finish ==
    /\ pc = "loop" /\ i > count
    /\ pc' = "done"
    /\ UNCHANGED <<date, present, clock, listing, i, filesCount>>

Next ==
    \/ \E f \in Files : NewFile(f)
    \/ Tick
    \/ Start
    \/ Step
    \/ Throw
    \/ Finish

Spec == Init /\ [][Next]_vars
-----------------------------------------------------------------------------
Listed == {order[j] : j \in 1 .. count}

Excess == count - MaxCount

TypeOK ==
    /\ date \in [Files -> Dates] /\ present \subseteq Files /\ clock \in Dates
    /\ count \in Nat /\ order \in [1 .. count -> Files]
    /\ i \in 1 .. count + 1
    /\ filesCount \in 0 .. count
    /\ limit \in Int
    /\ pc \in {"idle", "loop", "done", "thrown"}

(* While files are being removed, and when a removal has thrown, no file is   *)
(* left that is older than a removed one: a loop that stops half way has lost *)
(* only the oldest logs (FileChannel.cpp:280-296).                            *)
OldestGoFirst ==
    pc # "idle" =>
        \A f \in Listed \ present : \A g \in Listed \intersect present : date[f] <= date[g]

(* A loop that went through has left no file that is too old, and none of the *)
(* files beyond the MaxCount newest ones; and it has kept the rest, although  *)
(* filesCount is not decremented in both branches (FileChannel.cpp:287-296).  *)
ExactlyTheRestIsKept ==
    pc = "done" =>
        \A j \in 1 .. count :
            order[j] \in present <=> (j > Excess /\ date[order[j]] >= limit)
=============================================================================
