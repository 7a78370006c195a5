------------------------------- MODULE CopyMgr -------------------------------
(***************************************************************************)
(* The SourceCopy program (app/SourceCopy/CopyMgr.cpp): it copies what a   *)
(* build left in a source tree into the directory the servers run from.    *)
(* Three steps copy the files that are newer (binaries, and two            *)
(* directories of configurations), and the last one replaces the scripts.  *)
(*                                                                         *)
(* A source tree and a binary directory are functions from places          *)
(* <<directory, name>> to files; {} stands for a missing one.  A file      *)
(* knows where it comes from and when it was built.                        *)
(***************************************************************************)
EXTENDS Integers, Sequences, FiniteSets

CONSTANTS SCs,          \* the entries of the configuration
          Binary,       \* the binary directory of each of them
          Steps,        \* the directories of the CopyFiles calls, in order
          Scripts,      \* the directory of CopyScripts
          Names,
          Fits,         \* the names with one of the extensions of a step
          Trees,        \* the places that have a file after a build
          KeepsTime,    \* copy_file gives the copy the time of the original
          MaxBuilds     \* bound: builds

VARIABLES source,       \* what is in the source trees
          binary,       \* what is in the binary directories
          subdirs,      \* the directories that exist in the binary directories
          clock,
          selected,     \* _selectedSC
          step,         \* the index of the call; Len(Steps) + 1 is CopyScripts
          storage,      \* _localeFileStorage
          todo,         \* the part of it the loop has not reached
          trouble,      \* this run met an error, or the user refused something
          pc            \* "off", "done", "fill", "copy", "scripts" or "clear"

trees == <<source, binary, subdirs>>
files == <<storage, todo>>
vars == <<trees, clock, selected, step, files, trouble, pc>>

Dirs == {Steps[i] : i \in DOMAIN Steps} \union {Scripts}
Places == Dirs \X Names

(* The scripts have a directory of their own. *)
ASSUME CopyAssumption ==
    /\ Steps \in Seq(Dirs) /\ Steps # <<>>
    /\ \A i \in DOMAIN Steps : Steps[i] # Scripts
    /\ KeepsTime \in BOOLEAN
Bins == {Binary[sc] : sc \in SCs}
Missing == {}

(* What a copy that broke off leaves. *)
Partial(p) == {[place |-> p, built |-> 0, time |-> clock]}

In(tree, d) == {p \in Places : p[1] = d /\ tree[p] # Missing}
Fitting(tree, d) == {p \in In(tree, d) : p[2] \in Fits[d]}

Dir == IF step <= Len(Steps) THEN Steps[step] ELSE Scripts
From == source[selected]
To == binary[Binary[selected]]

Init ==
    /\ source = [sc \in SCs |-> [p \in Places |-> Missing]]
    /\ binary = [b \in Bins |-> [p \in Places |-> Missing]]
    /\ subdirs \in [Bins -> {D \in SUBSET Dirs : Steps[1] \in D}]
    /\ clock = 0
    /\ selected = CHOOSE sc \in SCs : TRUE
    /\ step = 1
    /\ storage = {} /\ todo = {}
    /\ trouble = FALSE
    /\ pc = "off"

(* The user builds another state of a source tree: some places get new files, *)
(* others become empty.  Nothing is built while the program runs.             *)
Build(sc, places) ==
    /\ pc \in {"off", "done"}
    /\ clock < MaxBuilds
    /\ clock' = clock + 1
    /\ source' = [source EXCEPT ![sc] =
           [p \in Places |-> IF p \in places
                             THEN {[place |-> p, built |-> clock', time |-> clock']}
                             ELSE Missing]]
    /\ pc' = "off"
    /\ UNCHANGED <<binary, subdirs, selected, step, files, trouble>>

(* Load and SendBaseInfo: a new process, an entry is selected and confirmed.  *)
Start(sc) ==
    /\ pc \in {"off", "done"}
    /\ selected' = sc
    /\ step' = 1
    /\ storage' = {} /\ todo' = {}
    /\ trouble' = FALSE
    /\ pc' = "fill"
    /\ UNCHANGED <<trees, clock>>

NextStep ==
    /\ step' = IF step <= Len(Steps) THEN step + 1 ELSE step
    /\ pc' = IF step < Len(Steps) THEN "fill"
             ELSE IF step = Len(Steps) THEN "scripts"
             ELSE "done"

(* Plausible bug: what the list holds from the step before is not cleared. *)
AddsFiles(S) == storage' = storage \union S

FillFileList(S) == storage' = S

(* The files of the source directory are listed, and the directory they go to *)
(* is there, or is created if the user agrees and it can be.                   *)
Fill(created) ==
    /\ pc = "fill"
    /\ FillFileList(Fitting(From, Dir))
    /\ todo' = storage'
    /\ \/ /\ storage' = {} \/ Dir \in subdirs[Binary[selected]]
          /\ UNCHANGED <<subdirs, trouble>>
       \/ /\ storage' # {} /\ Dir \notin subdirs[Binary[selected]]
          /\ IF created THEN subdirs' = [subdirs EXCEPT ![Binary[selected]] = @ \union {Dir}]
                        ELSE UNCHANGED subdirs
          /\ trouble' = (trouble \/ ~created)
    /\ IF storage' # {} /\ Dir \in subdirs'[Binary[selected]]
       THEN pc' = "copy" /\ UNCHANGED step
       ELSE NextStep
    /\ UNCHANGED <<source, binary, clock, selected>>

(* FillFileList returned false or threw: "Skip this step". *)
SkipStep ==
    /\ pc \in {"fill", "scripts"}
    /\ storage' = {} /\ todo' = {}
    /\ trouble' = TRUE
    /\ NextStep
    /\ UNCHANGED <<trees, clock, selected>>

(* copy_options::update_existing *)
IsNewer(p, q) ==
    To[q] = Missing \/ \E f \in From[p], g \in To[q] : f.time > g.time

Copied(p) == {[f EXCEPT !.time = IF KeepsTime THEN @ ELSE clock] : f \in From[p]}

(* One turn of the loop over the files; q is binaryDir + fileName.  Copying    *)
(* may throw before it begins or in the middle.                               *)
CopyFile(p) ==
    /\ pc = "copy"
    /\ p \in todo
    /\ todo' = todo \ {p}
    /\ LET q == <<Dir, p[2]>>
       IN  \/ /\ binary' = IF IsNewer(p, q)
                            THEN [binary EXCEPT ![Binary[selected]][q] = Copied(p)]
                            ELSE binary
             /\ UNCHANGED trouble
          \/ /\ binary' \in {binary, [binary EXCEPT ![Binary[selected]][q] = Partial(q)]}
             /\ trouble' = TRUE
    /\ IF todo' = {} THEN NextStep ELSE UNCHANGED <<step, pc>>
    /\ UNCHANGED <<source, subdirs, clock, selected, storage>>

-----------------------------------------------------------------------------
(* CopyScripts                                                             *)

(* Plausible bug: only what will be replaced anyway is removed. *)
InBoth == {p \in Fitting(To, Scripts) : From[p] # Missing}

(* ClearBinaryDir removes every script, whatever the source tree holds. *)
Cleared == Fitting(To, Scripts)

(* A source tree without a directory for scripts is left alone (SkipStep); if *)
(* the directory is there, what the binary directory has is removed first.    *)
(* If that cannot be listed, nothing is, and the copying goes on.             *)
ClearScripts ==
    /\ pc = "scripts"
    /\ \/ FillFileList(Cleared) /\ UNCHANGED trouble
       \/ FillFileList({}) /\ trouble' = TRUE
    /\ todo' = storage'
    /\ pc' = "clear"
    /\ UNCHANGED <<trees, clock, selected, step>>

RemoveScript(p) ==
    /\ pc = "clear"
    /\ p \in todo
    /\ binary' = [binary EXCEPT ![Binary[selected]][p] = Missing]
    /\ todo' = todo \ {p}
    /\ UNCHANGED <<source, subdirs, clock, selected, step, storage, trouble, pc>>

(* fs::remove throws: the macro around the message catches it, and goes on.   *)
RemoveThrows ==
    /\ pc = "clear"
    /\ todo # {}
    /\ todo' = {}
    /\ trouble' = TRUE
    /\ UNCHANGED <<trees, clock, selected, step, storage, pc>>

(* fs::is_empty: with nothing in the source directory this was all. *)
ScriptsCleared ==
    /\ pc = "clear"
    /\ todo = {}
    /\ pc' = IF In(From, Scripts) = {} THEN "done" ELSE "fill"
    /\ UNCHANGED <<trees, clock, selected, step, files, trouble>>

(* The program is closed, or ends with an exception nobody catches. *)
Crash ==
    /\ pc \notin {"off", "done"}
    /\ IF pc = "copy"
       THEN \E p \in todo : binary' \in
                {binary, [binary EXCEPT ![Binary[selected]][<<Dir, p[2]>>] = Partial(p)]}
       ELSE UNCHANGED binary
    /\ pc' = "off"
    /\ step' = 1
    /\ storage' = {} /\ todo' = {}
    /\ trouble' = FALSE
    /\ UNCHANGED <<source, subdirs, clock, selected>>

Next ==
    \/ \E sc \in SCs, places \in Trees : Build(sc, places)
    \/ \E sc \in SCs : Start(sc)
    \/ \E created \in BOOLEAN : Fill(created)
    \/ SkipStep
    \/ \E p \in Places : CopyFile(p) \/ RemoveScript(p)
    \/ ClearScripts
    \/ RemoveThrows
    \/ ScriptsCleared
    \/ Crash

Spec == Init /\ [][Next]_vars

-----------------------------------------------------------------------------
(* Whatever was interrupted before, a run without trouble brings the binary   *)
(* directory up to date: no file of the first steps is of an older build than *)
(* the one in the source tree, and the scripts are those of the source tree,  *)
(* without the ones it no longer has.  A file that an earlier copy broke off  *)
(* counts as new, because its time is.                                        *)
UpToDate ==
    \A i \in DOMAIN Steps : \A p \in Fitting(From, Steps[i]) :
        To[p] # Missing /\ \A f \in From[p], g \in To[p] : g.built >= f.built \/ g.built = 0

ScriptsMirrored ==
    /\ Fitting(To, Scripts) = Fitting(From, Scripts)
    /\ \A p \in Fitting(From, Scripts) : \A f \in From[p], g \in To[p] : f.built = g.built

DoneMeansCopied == pc = "done" /\ ~trouble => UpToDate /\ ScriptsMirrored

(* A file is only ever copied to the directory of the same name, although all *)
(* steps share one list of files.                                             *)
EachFileInItsPlace ==
    \A b \in Bins, p \in Places : \A f \in binary[b][p] : f.place = p
=============================================================================
