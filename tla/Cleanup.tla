------------------------------- MODULE Cleanup -------------------------------
(***************************************************************************)
(* The Cleanup program (app/Cleanup): the user picks a method and a        *)
(* directory, the program collects the files below it and rewrites them    *)
(* one by one.                                                             *)
(*                                                                         *)
(* A file is a sequence of lines, each ended by a newline.  A line is a    *)
(* pair: what it says, and what stands at its end (nothing, a tab or       *)
(* spaces, or that there are only blanks in it, if any).  0 is any line    *)
(* without #include; the other numbers are include lines in the order in   *)
(* which std::sort puts them.  No line ends with the text of another one.  *)
(***************************************************************************)
EXTENDS Integers, Sequences, FiniteSets, TLC, SequencesExt

CONSTANTS Files,
          Own,          \* what the include of a file's own header says
          Beginnings,   \* the texts that the files may have at the beginning
          Dirs,         \* the directories the user may name
          Under,        \* the files in a directory and below
          CoreDirs,     \* the directories with src/ and modules/
          CoreUnder,    \* the files in src/ and modules/ of a core directory
          Sources       \* the files that end with .cpp or .h

NoTail == 0
Tab == 1
Spaces == 2
Blanks == 3

ASSUME CleanupAssumption ==
    \A b \in Beginnings : b \in [Files -> Seq(Nat \X {NoTail, Tab, Spaces, Blanks})]

VARIABLES disk,         \* the text of every file
          path,         \* _path, or {} when it is empty
          storage,      \* _localeFileStorage
          todo,         \* the part of it the loop has not reached
          method,
          pc,           \* "menu", "path", "confirm" or "work"
          broken        \* the last write of a file broke off

vars == <<disk, path, storage, todo, method, pc, broken>>

Methods == {"RemoveWhitespace", "ReplaceTabs", "SortIncludes",
            "CheckSameIncludes", "CheckUsingIncludesCount"}
OfIncludes == {"SortIncludes", "CheckSameIncludes"}

IsInclude(line) == line[1] # 0
Other == <<0, NoTail>>
BlankLine == <<0, Blanks>>
Before(k, l) == k[1] < l[1] \/ (k[1] = l[1] /\ k[2] < l[2])

Init ==
    /\ disk \in Beginnings
    /\ path = {}
    /\ storage = {} /\ todo = {}
    /\ method = "CheckUsingIncludesCount"
    /\ pc = "menu"
    /\ broken = FALSE

-----------------------------------------------------------------------------
(* What the methods make of the text of a file.                            *)

(* The expression takes the spaces at the end of a line, and blank lines over *)
(* the end of a line: one of several is left, and none at the end of the file.*)
Trimmed(line) == IF line[2] = Spaces THEN <<line[1], NoTail>> ELSE line

EndsBlank(text) == text # <<>> /\ Last(text) = BlankLine

Trimming(out, line) ==
    IF line = BlankLine /\ EndsBlank(out) THEN out ELSE Append(out, Trimmed(line))

WithoutTails(text) ==
    LET short == FoldLeft(Trimming, <<>>, text)
    IN  IF EndsBlank(short) THEN Front(short) ELSE short

WithoutTabs(text) ==
    [i \in DOMAIN text |->
        IF text[i][2] = Tab THEN <<text[i][1], Spaces>> ELSE text[i]]

(* Poco::replaceInPlace: every occurrence, from the left. *)
ReplaceInPlace(text, r) ==
    LET end(i) == i + Len(r.from) - 1
        From[i \in 1 .. Len(text) + 1] ==
            IF i > Len(text) THEN <<>>
            ELSE IF end(i) <= Len(text) /\ SubSeq(text, i, end(i)) = r.from
                 THEN r.to \o From[end(i) + 1]
                 ELSE <<text[i]>> \o From[i + 1]
    IN  From[1]

(* The entries of _toReplace, an unordered_map, are applied in any order.   *)
Replaced(text, toReplace) ==
    {FoldLeft(ReplaceInPlace, text, order) : order \in SetToSeqs(toReplace)}

(* std::sort.  Lines that are equal cannot be told apart, so that it does not *)
(* matter which comes first.                                                  *)
Inserted(sorted, line) ==
    LET place == CHOOSE n \in 0 .. Len(sorted) :
                    /\ \A i \in 1 .. n : ~Before(line, sorted[i])
                    /\ \A i \in n + 1 .. Len(sorted) : Before(line, sorted[i])
    IN  InsertAt(sorted, place + 1, line)

StdSort(includes) == FoldLeft(Inserted, <<>>, includes)

LastOwn(f, includes) == SelectLastInSeq(includes, LAMBDA line : line[1] = Own[f])

(* Plausible bug: the loop does not skip the include that is in front already. *)
SortedWithCopy(f, includes) ==
    LET own == LastOwn(f, includes)
    IN  IF own = 0 THEN StdSort(includes) ELSE <<includes[own]>> \o StdSort(includes)

Skipping(first, out, line) == IF line = first THEN out ELSE Append(out, line)

(* What the includes of a block are to become: sorted, with the include of  *)
(* the file's own header in front and without its copies.                    *)
Sorted(f, includes) ==
    LET own == LastOwn(f, includes)
        first == includes[own]
    IN  IF own = 0 THEN StdSort(includes)
        ELSE FoldLeft(LAMBDA out, line : Skipping(first, out, line),
                      <<first>>, StdSort(includes))

(* One pass over the lines.  scan holds _includes, _includesUniqueue,        *)
(* _toReplace and isEnd.                                                     *)
FirstScan == [includes |-> <<>>, unique |-> <<>>, toReplace |-> {}, isEnd |-> FALSE]

AnInclude(scan, line) ==
    [scan EXCEPT !.isEnd = FALSE,
                 !.includes = Append(@, line),
                 !.unique = IF Contains(@, line) THEN @ ELSE Append(@, line)]

(* Plausible bug: only one of the two lists is cleared. *)
ClearedHalf(scan) == [scan EXCEPT !.includes = <<>>]

Cleared(scan) == [scan EXCEPT !.includes = <<>>, !.unique = <<>>]

(* The first line without an include after some with.  A single include, and *)
(* includes that are as they should be, are not cleared and count with the   *)
(* next block; std::sort has sorted them by then.                            *)
EndOfBlock(m, f, scan) ==
    LET wanted == IF m = "SortIncludes" THEN Sorted(f, scan.includes) ELSE scan.unique
        ended == [scan EXCEPT !.isEnd = TRUE]
    IN  IF Len(scan.includes) < 2 THEN ended
        ELSE IF wanted # scan.includes
        THEN Cleared([ended EXCEPT !.toReplace =
                          @ \union {[from |-> scan.includes, to |-> wanted]}])
        ELSE IF m = "SortIncludes"
        THEN [ended EXCEPT !.includes = StdSort(@)]
        ELSE ended

NextLine(m, f, scan, line) ==
    IF IsInclude(line) THEN AnInclude(scan, line)
    ELSE IF scan.isEnd THEN scan
    ELSE EndOfBlock(m, f, scan)

Scanned(m, f, text) ==
    FoldLeft(LAMBDA scan, line : NextLine(m, f, scan, line), FirstScan, Append(text, Other))

(* The texts that a method may write for a file with this text. *)
Results(m, f, text) ==
    CASE m = "RemoveWhitespace" -> {WithoutTails(text)}
      [] m = "ReplaceTabs" -> {WithoutTabs(text)}
      [] OTHER -> Replaced(text, Scanned(m, f, text).toReplace)

-----------------------------------------------------------------------------
(* The dialog.                                                             *)

(* Plausible bug: the list of an earlier run is kept. *)
KeepsFiles == path' = {} /\ UNCHANGED storage

CleanPath == path' = {} /\ storage' = {}

(* Every method begins with SendPathInfo. *)
Select(m) ==
    /\ pc = "menu"
    /\ method' = m
    /\ CleanPath
    /\ pc' = "path"
    /\ UNCHANGED <<disk, todo, broken>>

(* SetPath refuses what is not a directory, and the user is asked again. *)
WrongPath ==
    /\ pc = "path"
    /\ CleanPath
    /\ UNCHANGED <<disk, todo, method, pc, broken>>

(* CheckUsingIncludesCount does not look for a core directory. *)
Searched(m, d) ==
    IF d \in CoreDirs /\ m # "CheckUsingIncludesCount" THEN CoreUnder[d] ELSE Under[d]

Extensions(m) ==
    IF m \in {"RemoveWhitespace", "ReplaceTabs"} THEN Files ELSE Sources

FillFileList(d) ==
    /\ pc = "path"
    /\ path' = {d}
    /\ storage' = storage \union (Searched(method, d) \intersect Extensions(method))
    /\ pc' = IF storage' = {} THEN "menu" ELSE "confirm"
    /\ UNCHANGED <<disk, todo, method, broken>>

(* "Start cleanup?" *)
Confirm(yes) ==
    /\ pc = "confirm"
    /\ pc' = IF yes /\ method # "CheckUsingIncludesCount" THEN "work" ELSE "menu"
    /\ todo' = IF pc' = "work" THEN storage ELSE {}
    /\ UNCHANGED <<disk, path, storage, method, broken>>

Turn(f) ==
    /\ todo' = todo \ {f}
    /\ pc' = IF todo' = {} THEN "menu" ELSE pc
    /\ UNCHANGED <<path, storage>>

(* One turn of the loop.  A file that cannot be read or opened stays as it is. *)
CleanFile(f) ==
    /\ pc = "work"
    /\ f \in todo
    /\ \E text \in Results(method, f, disk[f]) \union {disk[f]} :
           disk' = [disk EXCEPT ![f] = text]
    /\ broken' = FALSE
    /\ Turn(f)
    /\ UNCHANGED method

(* The file is emptied when it is opened: a write that fails, which nobody     *)
(* looks at, or a program that ends before it is closed, leaves the first      *)
(* lines of the new text.  (A line that is cut itself is left out.)            *)
WriteBreaksOff(f) ==
    /\ pc = "work"
    /\ f \in todo
    /\ \E text \in Results(method, f, disk[f]) \ {disk[f]} :
           \E n \in 0 .. Len(text) - 1 :
              disk' = [disk EXCEPT ![f] = SubSeq(text, 1, n)]
    /\ broken' = TRUE
    /\ \/ Turn(f)
       \/ pc' = "menu" /\ todo' = {} /\ CleanPath
    /\ UNCHANGED method

Next ==
    \/ \E m \in Methods : Select(m)
    \/ WrongPath
    \/ \E d \in Dirs : FillFileList(d)
    \/ \E yes \in BOOLEAN : Confirm(yes)
    \/ \E f \in Files : CleanFile(f) \/ WriteBreaksOff(f)

Spec == Init /\ [][Next]_vars

-----------------------------------------------------------------------------
Includes(text) == {i \in DOMAIN text : IsInclude(text[i])}
Others(text) == DOMAIN text \ Includes(text)

(* p leads from the lines without an include of a text to those of another:   *)
(* they are the same lines in the same order.                                 *)
Follows(p, old, new) ==
    /\ \A k \in Others(old) : new[p[k]] = old[k]
    /\ \A k, l \in Others(old) : k < l => p[k] < p[l]
    /\ \A n \in Others(new) : \E k \in Others(old) : p[k] = n

(* The include at i of the old text and the one at j of the new one stand      *)
(* between the same other lines.                                              *)
InSameBlock(p, old, i, j) == \A k \in Others(old) : k < i <=> p[k] < j

SameBlocks(old, new) ==
    \E p \in [Others(old) -> Others(new)] :
        /\ Follows(p, old, new)
        /\ \A i \in Includes(old) : \E j \in Includes(new) :
              new[j] = old[i] /\ InSameBlock(p, old, i, j)
        /\ \A j \in Includes(new) : \E i \in Includes(old) :
              new[j] = old[i] /\ InSameBlock(p, old, i, j)

(* Sorting the includes and removing equal ones moves no include across       *)
(* another line (an #if or an #else), takes none away altogether and leaves    *)
(* every other line where it is, unless the write breaks off.                 *)
IncludesStay ==
    [][\A f \in Files :
          method \in OfIncludes /\ ~broken' => SameBlocks(disk[f], disk'[f])]_vars

(* How far a text is from being sorted: own header first, then by order.    *)
Rank(f, line) == IF line[1] = Own[f] THEN <<0, line[2]>> ELSE <<line[1], line[2]>>

Closer(f, new, old) ==
    \/ Len(new) < Len(old)
    \/ /\ Len(new) = Len(old)
       /\ \E i \in DOMAIN new :
              /\ Before(Rank(f, new[i]), Rank(f, old[i]))
              /\ \A j \in 1 .. i - 1 : new[j] = old[j]

OwnIncludes(f) == {line \in ToSet(disk[f]) : line[1] = Own[f]}

(* Sorting and removing equal includes settle: each time a file is rewritten  *)
(* it gets shorter or nearer to its order, even if the write breaks off, so   *)
(* repeating them cannot go on for ever -- unless it has two different        *)
(* includes of a header of its name.                                          *)
RewritingSettles ==
    [][\A f \in Files :
          method \in OfIncludes /\ disk'[f] # disk[f] /\ Cardinality(OwnIncludes(f)) < 2
          => Closer(f, disk'[f], disk[f])]_vars

(* What is rewritten lies in the directory the user named in this run, in     *)
(* src/ or modules/ if it is a core directory, and has the right extension.   *)
RewritesOnlyTheChosen ==
    [][\A f \in Files : disk'[f] # disk[f] =>
          \E d \in path : f \in Searched(method, d) \intersect Extensions(method)]_vars
=============================================================================
