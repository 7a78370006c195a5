----------------------------- MODULE ProgressBar -----------------------------
(***************************************************************************)
(* The progress bar of the console (common/Progress/ProgressBar.cpp) over  *)
(* a bar of the library indicators.  Updates that come too soon after the  *)
(* last one drawn are collected and drawn with a later one.                *)
(*                                                                         *)
(* A bar is a record: size and min are what it was made with (MaxProgress  *)
(* and MinProgress), progress is what is drawn, unprinted what has been    *)
(* collected (_unprintProgress), fresh says that nothing was drawn yet     *)
(* (_lastUpdateTime is 0), full that it is completed.                      *)
(***************************************************************************)
EXTENDS Integers

(* Init hands `current' to the library as MinProgress.  That is after the     *)
(* constructor of the library's bar, the only place where progress is set     *)
(* from it: the bar starts at 0 whatever `current' is.                        *)
NewBar(size, current) ==
    [size |-> size, min |-> current, progress |-> 0, unprinted |-> 0,
     fresh |-> TRUE, full |-> FALSE]

(* Plausible bug: the update that reaches the end is not drawn at once. *)
PastEnd(bar) == bar.progress + bar.unprinted > bar.size

ReachesEnd(bar) == bar.progress + bar.unprinted >= bar.size

(* The time of a tick has passed (due) or not; the first update is drawn.     *)
CanPrintProgress(bar, due) == ReachesEnd(bar) \/ bar.fresh \/ due

(* set_progress draws, and completes a bar that is at its maximum.  The time  *)
(* of the drawing is not taken when the end is what caused it.                *)
Drawn(bar) ==
    LET now == bar.progress + bar.unprinted
    IN  [bar EXCEPT !.progress = now, !.unprinted = 0,
                    !.fresh = bar.fresh /\ ReachesEnd(bar),
                    !.full = now >= bar.size]

(* Update without an argument counts one, like one with 0. *)
SaveUnprintProgress(bar, n) ==
    [bar EXCEPT !.unprinted = @ + IF n > 0 THEN n ELSE 1]

Update(bar, n, due) ==
    LET counted == SaveUnprintProgress(bar, n)
    IN  IF bar.full THEN bar
        ELSE IF CanPrintProgress(counted, due) THEN Drawn(counted) ELSE counted

(* Stop completes the bar where it is; what was collected is not drawn.       *)
Stop(bar) == [bar EXCEPT !.full = TRUE]
=============================================================================
