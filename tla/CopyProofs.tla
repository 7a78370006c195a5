------------------------------ MODULE CopyProofs ------------------------------
(***************************************************************************)
(* Proofs about the SourceCopy program, for any number of entries, steps,  *)
(* files and builds.                                                       *)
(***************************************************************************)
EXTENDS CopyMgr, TLAPS

File == [place : Places, built : Nat, time : Nat]

(* What a place of a tree holds was made for this place. *)
InPlace(tree) == \A p \in Places : \A f \in tree[p] : f.place = p

Kinds ==
    /\ source \in [SCs -> [Places -> SUBSET File]]
    /\ binary \in [Bins -> [Places -> SUBSET File]]
    /\ subdirs = [b \in Bins |-> subdirs[b]]
    /\ clock \in Nat
    /\ pc # "off" => selected \in SCs

(* The list holds only files of the current step while they are copied, and   *)
(* only scripts while they are removed, although all share it.                *)
ListOfStep ==
    /\ pc = "copy" => \A p \in todo : p \in Places /\ p[1] = Dir
    /\ pc = "clear" => todo \subseteq Places

IInv ==
    /\ Kinds
    /\ ListOfStep
    /\ \A sc \in SCs : InPlace(source[sc])
    /\ \A b \in Bins : InPlace(binary[b])
-----------------------------------------------------------------------------
LEMMA BinaryOf == \A sc \in SCs : Binary[sc] \in Bins
BY DEF Bins

LEMMA InitHolds == Init => IInv
<1> SUFFICES ASSUME Init
             PROVE  IInv
  OBVIOUS
<1>1. Kinds /\ ListOfStep
  BY DEF Init, Kinds, ListOfStep, Missing
<1>2. (\A sc \in SCs : InPlace(source[sc])) /\ (\A b \in Bins : InPlace(binary[b]))
  BY DEF Init, InPlace, Missing
<1> QED
  BY <1>1, <1>2 DEF IInv

LEMMA PlaceOfStep ==
    ASSUME NEW p \in Places, p[1] = Dir
    PROVE  <<Dir, p[2]>> = p
BY DEF Places

LEMMA NextStepEnds == NextStep => pc' \in {"fill", "scripts", "done"}
BY DEF NextStep

(* A place of the selected binary directory gets what is made for it. *)
LEMMA PutKeepsIInv ==
    ASSUME IInv, pc # "off", NEW p \in Places, NEW S \in SUBSET File,
           \A f \in S : f.place = p,
           binary' = [binary EXCEPT ![Binary[selected]][p] = S]
    PROVE  /\ binary' \in [Bins -> [Places -> SUBSET File]]
           /\ \A b \in Bins : InPlace(binary'[b])
<1> DEFINE to == Binary[selected]
<1>1. to \in Bins /\ binary \in [Bins -> [Places -> SUBSET File]]
  BY BinaryOf DEF IInv, Kinds
<1> HIDE DEF to
<1>2. binary' = [binary EXCEPT ![to] = [binary[to] EXCEPT ![p] = S]]
  BY <1>1 DEF to
<1>3. [binary[to] EXCEPT ![p] = S] \in [Places -> SUBSET File]
  BY <1>1
<1>4. binary' \in [Bins -> [Places -> SUBSET File]]
  BY <1>1, <1>2, <1>3
<1>5. ASSUME NEW b \in Bins, NEW q \in Places, NEW f \in binary'[b][q]
      PROVE  f.place = q
  <2>1. CASE b = to /\ q = p
    BY <1>1, <1>2, <1>3, <1>5, <2>1
  <2>2. CASE ~(b = to /\ q = p)
    <3>1. f \in binary[b][q]
      BY <1>1, <1>2, <1>3, <1>5, <2>2
    <3> QED
      BY <3>1, <1>5 DEF IInv, InPlace
  <2> QED
    BY <2>1, <2>2
<1> QED
  BY <1>4, <1>5 DEF InPlace

LEMMA PartialIsAFile ==
    ASSUME clock \in Nat, NEW p \in Places
    PROVE  Partial(p) \in SUBSET File /\ \A f \in Partial(p) : f.place = p
BY DEF Partial, File

LEMMA CopiedAreFiles ==
    ASSUME IInv, pc # "off", NEW p \in Places
    PROVE  Copied(p) \in SUBSET File /\ \A f \in Copied(p) : f.place = p
<1>1. From \in [Places -> SUBSET File] /\ InPlace(From) /\ clock \in Nat
  BY DEF IInv, Kinds, From
<1>2. ASSUME NEW f \in From[p], NEW t \in Nat
      PROVE  [f EXCEPT !.time = t] \in File /\ [f EXCEPT !.time = t].place = p
  <2>1. f \in File /\ f.place = p
    BY <1>1, <1>2 DEF InPlace
  <2> QED
    BY <2>1 DEF File
<1>3. ASSUME NEW f \in From[p]
      PROVE  (IF KeepsTime THEN f.time ELSE clock) \in Nat
  <2>1. f \in File
    BY <1>1, <1>3
  <2> QED
    BY <1>1, <2>1 DEF File
<1>4. ASSUME NEW g \in Copied(p)
      PROVE  g \in File /\ g.place = p
  <2>1. PICK f \in From[p] : g = [f EXCEPT !.time = IF KeepsTime THEN f.time ELSE clock]
    <3>1. Copied(p) = {[f EXCEPT !.time = IF KeepsTime THEN f.time ELSE clock] : f \in From[p]}
      BY DEF Copied
    <3> QED
      BY <1>4, <3>1, Zenon
  <2> QED
    BY <1>2, <1>3, <2>1
<1> QED
  BY <1>4

(* A step that leaves the trees and the selected entry alone. *)
LEMMA QuietStepKeepsIInv ==
    ASSUME IInv, UNCHANGED <<source, binary, clock>>, ListOfStep',
           pc' # "off" => selected' \in SCs, subdirs' = [b \in Bins |-> subdirs'[b]]
    PROVE  IInv'
BY DEF IInv, Kinds, InPlace

LEMMA BuildKeepsIInv ==
    ASSUME IInv, NEW sc \in SCs, NEW places \in Trees, Build(sc, places)
    PROVE  IInv'
<1> DEFINE tree == [p \in Places |-> IF p \in places
                        THEN {[place |-> p, built |-> clock', time |-> clock']} ELSE Missing]
<1>1. /\ clock' \in Nat /\ clock' = clock + 1 /\ source' = [source EXCEPT ![sc] = tree]
      /\ pc' = "off" /\ UNCHANGED <<binary, subdirs>>
  BY DEF Build, IInv, Kinds
<1>2. tree \in [Places -> SUBSET File] /\ InPlace(tree)
  BY <1>1 DEF File, InPlace, Missing
<1> HIDE DEF tree
<1>3. source' \in [SCs -> [Places -> SUBSET File]]
  BY <1>1, <1>2 DEF IInv, Kinds
<1>4. ASSUME NEW s \in SCs
      PROVE  InPlace(source'[s])
  <2>1. source'[s] = IF s = sc THEN tree ELSE source[s]
    BY <1>1 DEF IInv, Kinds
  <2> QED
    BY <1>2, <2>1 DEF IInv
<1> QED
  BY <1>1, <1>3, <1>4 DEF IInv, Kinds, ListOfStep, InPlace

LEMMA FillKeepsIInv ==
    ASSUME IInv, NEW created \in BOOLEAN, Fill(created)
    PROVE  IInv'
<1>1. /\ UNCHANGED <<source, binary, clock, selected>> /\ selected \in SCs
      /\ todo' = Fitting(From, Dir)
      /\ (pc' = "copy" /\ step' = step) \/ pc' \in {"fill", "scripts", "done"}
  BY NextStepEnds DEF Fill, FillFileList, IInv, Kinds
<1>2. \A p \in todo' : p \in Places /\ p[1] = Dir
  BY <1>1 DEF Fitting, In
<1>3. ListOfStep'
  BY <1>1, <1>2 DEF ListOfStep, Dir
<1>4. subdirs' = [b \in Bins |-> subdirs'[b]]
  <2>1. subdirs = [b \in Bins |-> subdirs[b]]
    BY DEF IInv, Kinds
  <2>2. \/ subdirs' = subdirs
        \/ subdirs' = [subdirs EXCEPT ![Binary[selected]] = @ \union {Dir}]
    BY DEF Fill
  <2> QED
    BY <2>1, <2>2
<1> QED
  BY <1>1, <1>3, <1>4, QuietStepKeepsIInv

LEMMA CopyFileKeepsIInv ==
    ASSUME IInv, NEW p \in Places, CopyFile(p)
    PROVE  IInv'
<1>1. /\ pc = "copy" /\ p \in todo /\ todo' = todo \ {p}
      /\ UNCHANGED <<source, subdirs, clock, selected>> /\ selected \in SCs
      /\ (pc' = "copy" /\ step' = step) \/ pc' \in {"fill", "scripts", "done"}
  BY NextStepEnds DEF CopyFile, IInv, Kinds
<1>2. <<Dir, p[2]>> = p
  BY <1>1, PlaceOfStep DEF IInv, ListOfStep
<1>3. \/ binary' = binary
      \/ binary' = [binary EXCEPT ![Binary[selected]][p] = Copied(p)]
      \/ binary' = [binary EXCEPT ![Binary[selected]][p] = Partial(p)]
  BY <1>2 DEF CopyFile
<1>4. /\ binary' \in [Bins -> [Places -> SUBSET File]]
      /\ \A b \in Bins : InPlace(binary'[b])
  <2>1. CASE binary' = binary
    BY <2>1 DEF IInv, Kinds
  <2>2. CASE binary' = [binary EXCEPT ![Binary[selected]][p] = Copied(p)]
    BY <1>1, <2>2, CopiedAreFiles, PutKeepsIInv
  <2>3. CASE binary' = [binary EXCEPT ![Binary[selected]][p] = Partial(p)]
    <3>1. clock \in Nat
      BY DEF IInv, Kinds
    <3> QED
      BY <1>1, <2>3, <3>1, PartialIsAFile, PutKeepsIInv
  <2> QED
    BY <1>3, <2>1, <2>2, <2>3
<1>5. ListOfStep'
  BY <1>1 DEF IInv, ListOfStep, Dir
<1> QED
  BY <1>1, <1>4, <1>5 DEF IInv, Kinds, InPlace

LEMMA RemoveScriptKeepsIInv ==
    ASSUME IInv, NEW p \in Places, RemoveScript(p)
    PROVE  IInv'
<1>1. /\ pc = "clear" /\ pc' = "clear" /\ todo' = todo \ {p}
      /\ binary' = [binary EXCEPT ![Binary[selected]][p] = Missing]
      /\ UNCHANGED <<source, subdirs, clock, selected>> /\ selected \in SCs
  BY DEF RemoveScript, IInv, Kinds
<1>2. /\ binary' \in [Bins -> [Places -> SUBSET File]]
      /\ \A b \in Bins : InPlace(binary'[b])
  <2>1. Missing \in SUBSET File /\ \A f \in Missing : f.place = p
    BY DEF Missing
  <2> QED
    BY <1>1, <2>1, PutKeepsIInv
<1>3. ListOfStep'
  BY <1>1 DEF IInv, ListOfStep
<1> QED
  BY <1>1, <1>2, <1>3 DEF IInv, Kinds, InPlace

LEMMA CrashKeepsIInv ==
    ASSUME IInv, Crash
    PROVE  IInv'
<1>1. /\ pc # "off" /\ pc' = "off" /\ UNCHANGED <<source, subdirs, clock>>
  BY DEF Crash
<1>2. /\ binary' \in [Bins -> [Places -> SUBSET File]]
      /\ \A b \in Bins : InPlace(binary'[b])
  <2>1. CASE binary' = binary
    BY <2>1 DEF IInv, Kinds
  <2>2. CASE pc = "copy" /\ binary' # binary
    <3>1. PICK p \in todo :
             binary' = [binary EXCEPT ![Binary[selected]][<<Dir, p[2]>>] = Partial(p)]
      BY <2>2 DEF Crash
    <3>2. p \in Places /\ <<Dir, p[2]>> = p /\ clock \in Nat
      BY <2>2, PlaceOfStep DEF IInv, ListOfStep, Kinds
    <3> QED
      BY <1>1, <3>1, <3>2, PartialIsAFile, PutKeepsIInv
  <2> QED
    BY <2>1, <2>2 DEF Crash
<1> QED
  BY <1>1, <1>2 DEF IInv, Kinds, ListOfStep, InPlace

LEMMA StepKeepsIInv == IInv /\ [Next]_vars => IInv'
<1> SUFFICES ASSUME IInv, [Next]_vars
             PROVE  IInv'
  OBVIOUS
<1>0. subdirs = [b \in Bins |-> subdirs[b]]
  BY DEF IInv, Kinds
<1>1. ASSUME NEW sc \in SCs, Start(sc)
      PROVE  IInv'
  BY <1>0, <1>1, QuietStepKeepsIInv DEF Start, trees, ListOfStep
<1>2. CASE SkipStep
  <2>1. pc' \in {"fill", "scripts", "done"} /\ selected' = selected /\ selected \in SCs
    BY <1>2, NextStepEnds DEF SkipStep, IInv, Kinds
  <2> QED
    BY <1>0, <1>2, <2>1, QuietStepKeepsIInv DEF SkipStep, trees, ListOfStep
<1>3. CASE ClearScripts
  <2>1. todo' \subseteq Places /\ pc' = "clear" /\ selected' = selected /\ selected \in SCs
    BY <1>3 DEF ClearScripts, FillFileList, Cleared, Fitting, In, IInv, Kinds
  <2> QED
    BY <1>0, <1>3, <2>1, QuietStepKeepsIInv DEF ClearScripts, trees, ListOfStep
<1>4. CASE RemoveThrows \/ ScriptsCleared
  <2>1. /\ pc' \in {"clear", "done", "fill"} /\ selected' = selected /\ selected \in SCs
        /\ todo' = {}
    BY <1>4 DEF RemoveThrows, ScriptsCleared, files, IInv, Kinds
  <2> QED
    BY <1>0, <1>4, <2>1, QuietStepKeepsIInv DEF RemoveThrows, ScriptsCleared, trees, ListOfStep
<1>5. CASE UNCHANGED vars
  <2>1. ListOfStep'
    BY <1>5 DEF IInv, ListOfStep, Dir, vars, files
  <2> QED
    BY <1>0, <1>5, <2>1, QuietStepKeepsIInv DEF vars, trees, IInv, Kinds
<1> QED
  BY <1>1, <1>2, <1>3, <1>4, <1>5, BuildKeepsIInv, FillKeepsIInv, CopyFileKeepsIInv,
     RemoveScriptKeepsIInv, CrashKeepsIInv DEF Next
-----------------------------------------------------------------------------
(* However many entries, steps and files there are, and whatever is refused,  *)
(* fails or breaks off: a file only ever lands in the directory it was built  *)
(* for, although every step fills and walks the same list                     *)
(* (CopyMgr.cpp:288-325, 377-388).                                            *)
THEOREM FilesStayInPlace == Spec => []EachFileInItsPlace
<1>1. Init => IInv
  BY InitHolds
<1>2. IInv /\ [Next]_vars => IInv'
  BY StepKeepsIInv
<1>3. IInv => EachFileInItsPlace
  BY DEF IInv, InPlace, EachFileInItsPlace
<1> QED
  BY <1>1, <1>2, <1>3, PTL DEF Spec
-----------------------------------------------------------------------------
(* What a run without trouble has done so far.                             *)

(* A tree holds one file for a place, with the time of its build; a copy has  *)
(* this time, too, unless it broke off.                                       *)
Genuine ==
    /\ \A sc \in SCs, p \in Places : \A f, g \in source[sc][p] : f = g /\ f.built = f.time
    /\ \A b \in Bins, p \in Places : \A g \in binary[b][p] : g.built = 0 \/ g.built = g.time

(* A place of the binary directory that needs no copy. *)
Current(p) ==
    To[p] # Missing /\ \A f \in From[p], g \in To[p] : g.built >= f.built \/ g.built = 0

StepDone(k) == \A p \in Fitting(From, Steps[k]) : Current(p)

AtScripts == step = Len(Steps) + 1

(* Of the scripts, those and only those that are no longer to do are there.   *)
MirroredBut(S) ==
    /\ \A p \in Places : p \in Fitting(To, Scripts) <=> p \in Fitting(From, Scripts) \ S
    /\ \A p \in Fitting(To, Scripts) : \A f \in From[p], g \in To[p] : f.built = g.built

Progress ==
    pc # "off" /\ ~trouble =>
      /\ step \in 1 .. Len(Steps) + 1
      /\ pc \in {"fill", "copy", "scripts", "clear", "done"}
      /\ \A k \in 1 .. step - 1 : StepDone(k)
      /\ pc = "fill" /\ AtScripts => Fitting(To, Scripts) = {}
      /\ pc = "copy" =>
            /\ todo \subseteq Fitting(From, Dir)
            /\ \A p \in Fitting(From, Dir) \ todo : Current(p)
            /\ AtScripts => MirroredBut(todo)
      /\ pc = "scripts" => AtScripts
      /\ pc = "clear" => /\ AtScripts
                         /\ Fitting(To, Scripts) \subseteq todo
                         /\ \A p \in todo : p[1] = Scripts
      /\ pc = "done" => AtScripts /\ MirroredBut({})

JInv == Genuine /\ Progress
-----------------------------------------------------------------------------
LEMMA StepsAre ==
    /\ Len(Steps) \in Nat /\ Len(Steps) > 0
    /\ \A k \in 1 .. Len(Steps) : Steps[k] # Scripts
    /\ step \in 1 .. Len(Steps) => Dir = Steps[step]
    /\ AtScripts => Dir = Scripts
BY CopyAssumption DEF Dir, AtScripts

LEMMA InitIsGenuine == Init => JInv
BY DEF Init, JInv, Genuine, Progress, Missing

(* What a put changes, seen from the selected entry. *)
LEMMA ToAfterPut ==
    ASSUME IInv, pc # "off", NEW p \in Places, NEW S, selected' = selected,
           binary' = [binary EXCEPT ![Binary[selected]][p] = S]
    PROVE  \A q \in Places : To'[q] = IF q = p THEN S ELSE To[q]
<1>1. Binary[selected] \in Bins /\ binary \in [Bins -> [Places -> SUBSET File]]
  BY BinaryOf DEF IInv, Kinds
<1> QED
  BY <1>1 DEF To

(* Copies are as genuine as their originals where copy_file keeps the time. *)
LEMMA PutKeepsGenuine ==
    ASSUME IInv, Genuine, pc # "off", NEW p \in Places, NEW S, UNCHANGED source,
           \A g \in S : g.built = 0 \/ g.built = g.time,
           binary' = [binary EXCEPT ![Binary[selected]][p] = S]
    PROVE  Genuine'
<1>1. Binary[selected] \in Bins /\ binary \in [Bins -> [Places -> SUBSET File]]
  BY BinaryOf DEF IInv, Kinds
<1>2. \A b \in Bins, q \in Places :
         binary'[b][q] = IF b = Binary[selected] /\ q = p THEN S ELSE binary[b][q]
  BY <1>1
<1>3. ASSUME NEW b \in Bins, NEW q \in Places, NEW g \in binary'[b][q]
      PROVE  g.built = 0 \/ g.built = g.time
  <2>1. g \in S \/ g \in binary[b][q]
    BY <1>2, <1>3
  <2> QED
    BY <2>1 DEF Genuine
<1> QED
  BY <1>3 DEF Genuine

LEMMA CopiesAreGenuine ==
    ASSUME KeepsTime, IInv, Genuine, pc # "off", NEW p \in Places
    PROVE  /\ Copied(p) = From[p]
           /\ \A g \in Copied(p) : g.built = g.time
<1>1. From[p] \in SUBSET File /\ \A f \in From[p] : f.built = f.time
  BY DEF IInv, Kinds, From, Genuine
<1>2. \A f \in From[p] : [f EXCEPT !.time = f.time] = f
  BY <1>1 DEF File
<1>3. Copied(p) = From[p]
  BY <1>2 DEF Copied
<1> QED
  BY <1>1, <1>3

(* After an undisturbed copy the place needs none. *)
LEMMA CopiedIsCurrent ==
    ASSUME KeepsTime, IInv, Genuine, pc # "off", NEW p \in Places, From[p] # Missing,
           UNCHANGED <<source, selected>>,
           To'[p] = IF IsNewer(p, p) THEN Copied(p) ELSE To[p]
    PROVE  Current(p)'
<1>1. From' = From
  BY DEF From
<1>2. From[p] \in SUBSET File /\ \A f, g \in From[p] : f = g /\ f.built = f.time
  BY DEF IInv, Kinds, From, Genuine
<1>3. To[p] \in SUBSET File /\ \A g \in To[p] : g.built = 0 \/ g.built = g.time
  BY BinaryOf DEF IInv, Kinds, To, Genuine
<1>4. \A f \in File : f.built \in Nat /\ f.time \in Nat
  BY DEF File
<1>5. CASE IsNewer(p, p)
  <2>1. To'[p] = From[p]
    BY <1>5, CopiesAreGenuine
  <2>2. \A f, g \in From[p] : g.built >= f.built
    BY <1>2, <1>4
  <2> QED
    BY <1>1, <2>1, <2>2 DEF Current
<1>6. CASE ~IsNewer(p, p)
  <2>1. To'[p] = To[p] /\ To[p] # Missing /\ \A f \in From[p], g \in To[p] : ~(f.time > g.time)
    BY <1>6 DEF IsNewer
  <2>2. \A f \in From[p], g \in To[p] : g.built >= f.built \/ g.built = 0
    BY <1>2, <1>3, <1>4, <2>1
  <2> QED
    BY <1>1, <2>1, <2>2 DEF Current
<1> QED
  BY <1>5, <1>6

(* Finished steps stay finished while other places change. *)
LEMMA StaysDone ==
    ASSUME NEW k \in 1 .. Len(Steps), StepDone(k), UNCHANGED <<source, selected>>,
           \A q \in Places : q[1] = Steps[k] => To'[q] = To[q] \/ Current(q)'
    PROVE  StepDone(k)'
<1>1. From' = From
  BY DEF From
<1>2. ASSUME NEW q \in Fitting(From, Steps[k])
      PROVE  Current(q)'
  <2>1. q \in Places /\ q[1] = Steps[k] /\ Current(q)
    BY <1>2 DEF Fitting, In, StepDone
  <2>2. CASE To'[q] = To[q]
    BY <1>1, <2>1, <2>2 DEF Current
  <2> QED
    BY <2>1, <2>2
<1> QED
  BY <1>1, <1>2 DEF StepDone, Fitting, In

(* A step that leaves the trees and the selected entry alone. *)
LEMMA QuietStepStaysDone ==
    ASSUME UNCHANGED <<source, binary, selected>>
    PROVE  /\ \A k \in 1 .. Len(Steps) : StepDone(k) => StepDone(k)'
           /\ To' = To /\ From' = From
           /\ \A d \in Dirs : Fitting(To, d)' = Fitting(To, d)
                              /\ Fitting(From, d)' = Fitting(From, d)
           /\ \A p \in Places : Current(p)' = Current(p)
           /\ Genuine => Genuine'
BY DEF StepDone, Fitting, In, Current, To, From, Genuine

(* NextStep after a step that is done. *)
LEMMA NextStepKeepsProgress ==
    ASSUME NextStep, NEW now \in 1 .. Len(Steps) + 1, step = now,
           \A k \in 1 .. now - 1 : StepDone(k)',
           now <= Len(Steps) => StepDone(now)',
           AtScripts => MirroredBut({})'
    PROVE  Progress'
<1>1. Len(Steps) \in Nat /\ Len(Steps) > 0
  BY StepsAre
<1>2. CASE step < Len(Steps)
  <2>1. step' = step + 1 /\ pc' = "fill" /\ step' \in 1 .. Len(Steps)
    BY <1>1, <1>2 DEF NextStep
  <2>2. \A k \in 1 .. step' - 1 : StepDone(k)'
    <3>1. \A k \in 1 .. step' - 1 : k \in 1 .. now - 1 \/ (k = now /\ now <= Len(Steps))
      BY <1>1, <1>2, <2>1
    <3> QED
      BY <3>1
  <2>3. ~AtScripts'
    BY <1>1, <2>1 DEF AtScripts
  <2> QED
    BY <1>1, <2>1, <2>2, <2>3 DEF Progress
<1>3. CASE step = Len(Steps)
  <2>1. step' = step + 1 /\ pc' = "scripts" /\ step' = Len(Steps) + 1
    BY <1>1, <1>3 DEF NextStep
  <2>2. \A k \in 1 .. step' - 1 : StepDone(k)'
    <3>1. \A k \in 1 .. step' - 1 : k \in 1 .. now - 1 \/ (k = now /\ now <= Len(Steps))
      BY <1>1, <1>3, <2>1
    <3> QED
      BY <3>1
  <2> QED
    BY <1>1, <2>1, <2>2 DEF Progress, AtScripts
<1>4. CASE step = Len(Steps) + 1
  <2>1. step' = step /\ pc' = "done"
    BY <1>1, <1>4 DEF NextStep
  <2>2. MirroredBut({})'
    BY <1>4 DEF AtScripts
  <2> QED
    BY <1>1, <1>4, <2>1, <2>2 DEF Progress, AtScripts
<1> QED
  BY <1>1, <1>2, <1>3, <1>4

LEMMA BuildKeepsJInv ==
    ASSUME IInv, JInv, NEW sc \in SCs, NEW places \in Trees, Build(sc, places)
    PROVE  JInv'
<1> DEFINE tree == [p \in Places |-> IF p \in places
                        THEN {[place |-> p, built |-> clock', time |-> clock']} ELSE Missing]
<1>1. source' = [source EXCEPT ![sc] = tree] /\ pc' = "off" /\ UNCHANGED binary
  BY DEF Build
<1>2. \A p \in Places : \A f, g \in tree[p] : f = g /\ f.built = f.time
  BY DEF Missing
<1> HIDE DEF tree
<1>3. \A s \in SCs : source'[s] = IF s = sc THEN tree ELSE source[s]
  BY <1>1 DEF IInv, Kinds
<1>4. ASSUME NEW s \in SCs, NEW p \in Places, NEW f \in source'[s][p], NEW g \in source'[s][p]
      PROVE  f = g /\ f.built = f.time
  <2>1. CASE s = sc
    BY <1>2, <1>3, <1>4, <2>1
  <2>2. CASE s # sc
    BY <1>3, <1>4, <2>2 DEF JInv, Genuine
  <2> QED
    BY <2>1, <2>2
<1> QED
  BY <1>1, <1>4 DEF JInv, Genuine, Progress

LEMMA StartKeepsJInv ==
    ASSUME IInv, JInv, NEW sc \in SCs, Start(sc)
    PROVE  JInv'
<1>1. step' = 1 /\ pc' = "fill" /\ UNCHANGED <<source, binary>>
  BY DEF Start, trees
<1>2. Genuine'
  BY <1>1 DEF JInv, Genuine
<1>3. Progress'
  <2>1. step' \in 1 .. Len(Steps) + 1 /\ ~AtScripts' /\ 1 .. step' - 1 = {}
    BY <1>1, StepsAre DEF AtScripts
  <2> QED
    BY <1>1, <2>1 DEF Progress
<1> QED
  BY <1>2, <1>3 DEF JInv

LEMMA FillKeepsJInv ==
    ASSUME IInv, JInv, NEW created \in BOOLEAN, Fill(created)
    PROVE  JInv'
<1>1. /\ pc = "fill" /\ UNCHANGED <<source, binary, selected>>
      /\ storage' = Fitting(From, Dir) /\ todo' = storage'
  BY DEF Fill, FillFileList
<1>2. Genuine'
  BY <1>1 DEF JInv, Genuine
<1>3. CASE trouble'
  BY <1>2, <1>3 DEF JInv, Progress
<1>4. CASE ~trouble'
  <2>1. ~trouble /\ (storage' = {} \/ Dir \in subdirs'[Binary[selected]])
    <3>1. CASE /\ storage' = {} \/ Dir \in subdirs[Binary[selected]]
               /\ UNCHANGED <<subdirs, trouble>>
      BY <1>4, <3>1
    <3>2. CASE /\ subdirs' = IF created
                             THEN [subdirs EXCEPT ![Binary[selected]] = @ \union {Dir}]
                             ELSE subdirs
               /\ trouble' = (trouble \/ ~created)
      <4>1. ~trouble /\ created
        BY <1>4, <3>2
      <4>2. Binary[selected] \in Bins /\ subdirs = [b \in Bins |-> subdirs[b]]
        BY <1>1, BinaryOf DEF IInv, Kinds
      <4> QED
        BY <3>2, <4>1, <4>2
    <3> QED
      BY <3>1, <3>2 DEF Fill
  <2>2. /\ step \in 1 .. Len(Steps) + 1
        /\ \A k \in 1 .. step - 1 : StepDone(k)
        /\ AtScripts => Fitting(To, Scripts) = {}
    BY <1>1, <2>1 DEF JInv, Progress
  <2>3. /\ \A k \in 1 .. step - 1 : StepDone(k)'
        /\ To' = To /\ From' = From
    <3>1. \A k \in 1 .. step - 1 : k \in 1 .. Len(Steps)
      BY <2>2, StepsAre
    <3> QED
      BY <1>1, <2>2, <3>1, QuietStepStaysDone
  <2>4. CASE pc' = "copy" /\ step' = step
    <3>1. Dir' = Dir
      BY <2>4 DEF Dir
    <3>2. todo' = Fitting(From, Dir)' /\ (AtScripts' <=> AtScripts)
      BY <1>1, <2>3, <2>4, <3>1 DEF Fitting, In, AtScripts
    <3>3. AtScripts => MirroredBut(todo)'
      <4>1. ASSUME AtScripts
            PROVE  MirroredBut(todo)'
        <5>1. Fitting(To, Scripts)' = {} /\ todo' = Fitting(From, Scripts)'
          BY <2>2, <2>3, <3>1, <3>2, <4>1, StepsAre DEF Fitting, In
        <5> QED
          BY <5>1 DEF MirroredBut
      <4> QED
        BY <4>1
    <3> QED
      BY <1>2, <2>2, <2>3, <2>4, <3>2, <3>3 DEF JInv, Progress
  <2>5. CASE NextStep /\ storage' = {}
    <3>1. Fitting(From, Dir) = {}
      BY <1>1, <2>5
    <3>2. ASSUME NEW now \in 1 .. Len(Steps) + 1, step = now
          PROVE  Progress'
      <4>1. now <= Len(Steps) => StepDone(now)'
        <5>1. ASSUME now <= Len(Steps)
              PROVE  Fitting(From, Steps[now]) = {}
          BY <3>1, <3>2, <5>1 DEF Dir
        <5> QED
          BY <2>3, <5>1 DEF StepDone, Fitting, In
      <4>2. AtScripts => MirroredBut({})'
        <5>1. ASSUME AtScripts
              PROVE  MirroredBut({})'
          <6>1. Fitting(To, Scripts)' = {} /\ Fitting(From, Scripts)' = {}
            BY <2>2, <2>3, <3>1, <5>1, StepsAre DEF Fitting, In
          <6> QED
            BY <6>1 DEF MirroredBut
        <5> QED
          BY <5>1
      <4> QED
        BY <2>3, <2>5, <3>2, <4>1, <4>2, NextStepKeepsProgress
    <3> QED
      BY <1>2, <2>2, <3>2 DEF JInv
  <2> QED
    BY <2>1, <2>4, <2>5 DEF Fill
<1> QED
  BY <1>3, <1>4

(* What a broken copy leaves is of no build. *)
LEMMA PartialIsGenuine ==
    ASSUME NEW p
    PROVE  \A g \in Partial(p) : g.built = 0 \/ g.built = g.time
BY DEF Partial

LEMMA CopyFileKeepsGenuine ==
    ASSUME KeepsTime, IInv, Genuine, NEW p \in Places, CopyFile(p)
    PROVE  Genuine'
<1>1. pc = "copy" /\ UNCHANGED source /\ <<Dir, p[2]>> = p
  BY PlaceOfStep DEF CopyFile, IInv, ListOfStep
<1>2. \/ binary' = binary
      \/ binary' = [binary EXCEPT ![Binary[selected]][p] = Copied(p)]
      \/ binary' = [binary EXCEPT ![Binary[selected]][p] = Partial(p)]
  BY <1>1 DEF CopyFile
<1>3. CASE binary' = binary
  BY <1>1, <1>3 DEF Genuine
<1>4. CASE binary' = [binary EXCEPT ![Binary[selected]][p] = Copied(p)]
  <2>1. \A g \in Copied(p) : g.built = 0 \/ g.built = g.time
    BY <1>1, CopiesAreGenuine
  <2> QED
    BY <1>1, <1>4, <2>1, PutKeepsGenuine
<1>5. CASE binary' = [binary EXCEPT ![Binary[selected]][p] = Partial(p)]
  BY <1>1, <1>5, PartialIsGenuine, PutKeepsGenuine
<1> QED
  BY <1>2, <1>3, <1>4, <1>5

LEMMA CrashKeepsGenuine ==
    ASSUME IInv, Genuine, Crash
    PROVE  Genuine'
<1>1. pc # "off" /\ UNCHANGED source
  BY DEF Crash
<1>2. CASE binary' = binary
  BY <1>1, <1>2 DEF Genuine
<1>3. CASE pc = "copy" /\ binary' # binary
  <2>1. PICK p \in todo :
           binary' = [binary EXCEPT ![Binary[selected]][<<Dir, p[2]>>] = Partial(p)]
    BY <1>3 DEF Crash
  <2>2. p \in Places /\ <<Dir, p[2]>> = p
    BY <1>3, PlaceOfStep DEF IInv, ListOfStep
  <2> QED
    BY <1>1, <2>1, <2>2, PartialIsGenuine, PutKeepsGenuine
<1> QED
  BY <1>2, <1>3 DEF Crash

(* A script that is copied was not there before, so it is copied as it is. *)
LEMMA CopyFileKeepsMirror ==
    ASSUME KeepsTime, IInv, Genuine, NEW p \in todo, pc = "copy",
           UNCHANGED <<source, selected>>, AtScripts, MirroredBut(todo),
           p \in Fitting(From, Scripts), todo' = todo \ {p},
           \A q \in Places : To'[q] = IF q = p /\ IsNewer(p, p) THEN Copied(p) ELSE To[q]
    PROVE  MirroredBut(todo)'
<1>1. p \in Places /\ p[1] = Scripts /\ p[2] \in Fits[Scripts] /\ From[p] # Missing
  BY DEF Fitting, In
<1>2. To[p] = Missing
  BY <1>1 DEF MirroredBut, Fitting, In
<1>3. From' = From /\ Copied(p) = From[p]
  BY <1>1, CopiesAreGenuine DEF From
<1>4. \A q \in Places : To'[q] = IF q = p THEN From[p] ELSE To[q]
  BY <1>2, <1>3 DEF IsNewer
<1>5. \A q \in Places : q \in Fitting(To, Scripts)' <=> q = p \/ q \in Fitting(To, Scripts)
  BY <1>1, <1>4 DEF Fitting, In
<1>6. \A q \in Places : q \in Fitting(From, Scripts)' <=> q \in Fitting(From, Scripts)
  BY <1>3 DEF Fitting, In
<1>7. \A q \in Places :
         q \in Fitting(To, Scripts)' <=> q \in Fitting(From, Scripts)' \ todo'
  BY <1>5, <1>6 DEF MirroredBut
<1>8. \A f, g \in From[p] : f = g
  BY <1>1 DEF IInv, Kinds, From, Genuine
<1>9. ASSUME NEW q \in Fitting(To, Scripts)', NEW f \in From'[q], NEW g \in To'[q]
      PROVE  f.built = g.built
  <2>1. q \in Places
    BY <1>9 DEF Fitting, In
  <2>2. CASE q = p
    BY <1>3, <1>4, <1>8, <1>9, <2>1, <2>2
  <2>3. CASE q # p
    BY <1>3, <1>4, <1>5, <1>9, <2>1, <2>3 DEF MirroredBut
  <2> QED
    BY <2>2, <2>3
<1> QED
  BY <1>7, <1>9 DEF MirroredBut

LEMMA CopyFileKeepsJInv ==
    ASSUME KeepsTime, IInv, JInv, NEW p \in Places, CopyFile(p)
    PROVE  JInv'
<1>1. /\ pc = "copy" /\ p \in todo /\ todo' = todo \ {p} /\ UNCHANGED <<source, selected>>
      /\ <<Dir, p[2]>> = p
  BY PlaceOfStep DEF CopyFile, IInv, ListOfStep
<1>2. Genuine'
  BY CopyFileKeepsGenuine DEF JInv
<1>3. CASE trouble'
  BY <1>2, <1>3 DEF JInv, Progress
<1>4. CASE ~trouble'
  <2>1. /\ ~trouble
        /\ binary' = IF IsNewer(p, p) THEN [binary EXCEPT ![Binary[selected]][p] = Copied(p)]
                                      ELSE binary
    BY <1>1, <1>4 DEF CopyFile
  <2>2. \A q \in Places : To'[q] = IF q = p /\ IsNewer(p, p) THEN Copied(p) ELSE To[q]
    <3>1. CASE IsNewer(p, p)
      BY <1>1, <2>1, <3>1, ToAfterPut
    <3>2. CASE ~IsNewer(p, p)
      BY <1>1, <2>1, <3>2 DEF To
    <3> QED
      BY <3>1, <3>2
  <2>3. /\ step \in 1 .. Len(Steps) + 1
        /\ \A k \in 1 .. step - 1 : StepDone(k)
        /\ todo \subseteq Fitting(From, Dir)
        /\ \A q \in Fitting(From, Dir) \ todo : Current(q)
        /\ AtScripts => MirroredBut(todo)
    BY <1>1, <2>1 DEF JInv, Progress
  <2>4. From[p] # Missing /\ From' = From
    BY <1>1, <2>3 DEF Fitting, In, From
  <2>5. Current(p)'
    BY <1>1, <2>2, <2>4, CopiedIsCurrent DEF JInv
  <2>6. \A k \in 1 .. step - 1 : StepDone(k)'
    <3>1. \A k \in 1 .. step - 1 : k \in 1 .. Len(Steps)
      BY <2>3, StepsAre
    <3>2. \A q \in Places : To'[q] = To[q] \/ Current(q)'
      BY <2>2, <2>5
    <3> QED
      BY <1>1, <2>3, <3>1, <3>2, StaysDone
  <2>7. \A q \in Fitting(From, Dir) \ todo' : Current(q)'
    <3>1. ASSUME NEW q \in Fitting(From, Dir) \ todo'
          PROVE  Current(q)'
      <4>1. CASE q = p
        BY <2>5, <4>1
      <4>2. CASE q # p
        <5>1. q \in Places /\ Current(q)
          BY <1>1, <2>3, <3>1, <4>2 DEF Fitting, In
        <5>2. To'[q] = To[q]
          BY <2>2, <4>2, <5>1
        <5> QED
          BY <2>4, <5>1, <5>2 DEF Current
      <4> QED
        BY <4>1, <4>2
    <3> QED
      BY <3>1
  <2>8. AtScripts => MirroredBut(todo)'
    <3>1. ASSUME AtScripts
          PROVE  MirroredBut(todo)'
      <4>1. p \in Fitting(From, Scripts)
        BY <1>1, <2>3, <3>1, StepsAre
      <4> QED
        BY <1>1, <2>2, <2>3, <3>1, <4>1, CopyFileKeepsMirror DEF JInv
    <3> QED
      BY <3>1
  <2>9. CASE todo' = {} /\ NextStep
    <3>1. ASSUME NEW now \in 1 .. Len(Steps) + 1, step = now
          PROVE  Progress'
      <4>1. now <= Len(Steps) => StepDone(now)'
        <5>1. ASSUME now <= Len(Steps)
              PROVE  StepDone(now)'
          <6>1. Fitting(From, Dir) = Fitting(From, Steps[now])'
            BY <2>4, <3>1, <5>1 DEF Fitting, In, Dir
          <6> QED
            BY <2>7, <2>9, <6>1 DEF StepDone
        <5> QED
          BY <5>1
      <4>2. AtScripts => MirroredBut({})'
        BY <2>8, <2>9 DEF MirroredBut
      <4> QED
        BY <2>6, <2>9, <3>1, <4>1, <4>2, NextStepKeepsProgress
    <3> QED
      BY <1>2, <2>3, <3>1 DEF JInv
  <2>10. CASE todo' # {} /\ UNCHANGED <<step, pc>>
    <3>1. Dir' = Dir /\ (AtScripts' <=> AtScripts)
      BY <2>10 DEF Dir, AtScripts
    <3>2. Fitting(From, Dir)' = Fitting(From, Dir)
      BY <2>4, <3>1 DEF Fitting, In
    <3>3. todo' \subseteq Fitting(From, Dir)'
      BY <1>1, <2>3, <3>2
    <3>4. \A q \in Fitting(From, Dir)' \ todo' : Current(q)'
      BY <2>7, <3>2
    <3> QED
      BY <1>1, <1>2, <2>3, <2>6, <2>8, <2>10, <3>1, <3>3, <3>4 DEF JInv, Progress
  <2> QED
    BY <2>9, <2>10 DEF CopyFile
<1> QED
  BY <1>3, <1>4

LEMMA RemoveScriptKeepsJInv ==
    ASSUME IInv, JInv, NEW p \in Places, RemoveScript(p)
    PROVE  JInv'
<1>1. /\ pc = "clear" /\ p \in todo /\ todo' = todo \ {p}
      /\ binary' = [binary EXCEPT ![Binary[selected]][p] = Missing]
      /\ UNCHANGED <<source, selected, step, trouble, pc>>
  BY DEF RemoveScript
<1>2. Genuine'
  BY <1>1, PutKeepsGenuine DEF JInv, Missing
<1>3. CASE trouble
  BY <1>1, <1>2, <1>3 DEF JInv, Progress
<1>4. CASE ~trouble
  <2>1. /\ step \in 1 .. Len(Steps) + 1 /\ AtScripts
        /\ \A k \in 1 .. step - 1 : StepDone(k)
        /\ Fitting(To, Scripts) \subseteq todo
        /\ \A q \in todo : q[1] = Scripts
    BY <1>1, <1>4 DEF JInv, Progress
  <2>2. \A q \in Places : To'[q] = IF q = p THEN Missing ELSE To[q]
    BY <1>1, ToAfterPut
  <2>3. \A k \in 1 .. step - 1 : StepDone(k)'
    <3>1. ASSUME NEW k \in 1 .. step - 1
          PROVE  StepDone(k)'
      <4>1. k \in 1 .. Len(Steps) /\ Steps[k] # p[1]
        BY <1>1, <2>1, <3>1, StepsAre
      <4>2. \A q \in Places : q[1] = Steps[k] => To'[q] = To[q] \/ Current(q)'
        BY <2>2, <4>1
      <4> QED
        BY <1>1, <2>1, <3>1, <4>1, <4>2, StaysDone
    <3> QED
      BY <3>1
  <2>4. Fitting(To, Scripts)' \subseteq todo'
    BY <1>1, <2>1, <2>2 DEF Fitting, In
  <2>5. AtScripts'
    BY <1>1, <2>1 DEF AtScripts
  <2> QED
    BY <1>1, <1>2, <2>1, <2>3, <2>4, <2>5 DEF JInv, Progress
<1> QED
  BY <1>3, <1>4

LEMMA ClearingKeepsJInv ==
    ASSUME IInv, JInv, ClearScripts \/ ScriptsCleared
    PROVE  JInv'
<1>1. /\ UNCHANGED <<source, binary, selected, step>> /\ pc \in {"scripts", "clear"}
      /\ pc' \in {"clear", "fill", "done"}
      /\ ~trouble' => UNCHANGED trouble
  BY DEF ClearScripts, ScriptsCleared, trees
<1>2. Genuine' /\ To' = To /\ From' = From /\ (AtScripts' <=> AtScripts)
  BY <1>1, QuietStepStaysDone DEF JInv, AtScripts
<1>3. CASE trouble'
  BY <1>1, <1>2, <1>3 DEF JInv, Progress
<1>4. CASE ~trouble'
  <2>1. /\ step \in 1 .. Len(Steps) + 1 /\ AtScripts
        /\ \A k \in 1 .. step - 1 : StepDone(k)
    BY <1>1, <1>4 DEF JInv, Progress
  <2>2. \A k \in 1 .. step' - 1 : StepDone(k)'
    <3>1. \A k \in 1 .. step - 1 : k \in 1 .. Len(Steps)
      BY <2>1, StepsAre
    <3> QED
      BY <1>1, <2>1, <3>1, QuietStepStaysDone
  <2>3. CASE ClearScripts
    <3>1. /\ pc' = "clear" /\ todo' = Fitting(To, Scripts)
          /\ \A q \in Fitting(To, Scripts) : q[1] = Scripts
      BY <1>4, <2>3 DEF ClearScripts, FillFileList, Cleared, Fitting, In
    <3>2. Fitting(To, Scripts)' = Fitting(To, Scripts)
      BY <1>2 DEF Fitting, In
    <3> QED
      BY <1>1, <1>2, <2>1, <2>2, <3>1, <3>2 DEF JInv, Progress
  <2>4. CASE ScriptsCleared
    <3>1. /\ pc = "clear" /\ todo = {}
          /\ pc' = IF In(From, Scripts) = {} THEN "done" ELSE "fill"
      BY <2>4 DEF ScriptsCleared
    <3>2. Fitting(To, Scripts)' = {}
      <4>1. Fitting(To, Scripts) = {}
        BY <1>1, <1>4, <3>1 DEF JInv, Progress
      <4> QED
        BY <1>2, <4>1 DEF Fitting, In
    <3>3. CASE pc' = "done"
      <4>1. Fitting(From, Scripts)' = {}
        BY <1>2, <3>1, <3>3 DEF Fitting, In
      <4>2. MirroredBut({})'
        BY <3>2, <4>1 DEF MirroredBut
      <4> QED
        BY <1>1, <1>2, <2>1, <2>2, <3>3, <4>2 DEF JInv, Progress
    <3>4. CASE pc' = "fill"
      BY <1>1, <1>2, <2>1, <2>2, <3>2, <3>4 DEF JInv, Progress
    <3> QED
      BY <3>1, <3>3, <3>4
  <2> QED
    BY <2>3, <2>4
<1> QED
  BY <1>3, <1>4

LEMMA StepKeepsJInv ==
    ASSUME KeepsTime, IInv, JInv, [Next]_vars
    PROVE  JInv'
<1>1. CASE SkipStep \/ RemoveThrows
  BY <1>1 DEF SkipStep, RemoveThrows, trees, JInv, Genuine, Progress
<1>2. CASE Crash
  BY <1>2, CrashKeepsGenuine DEF Crash, JInv, Progress
<1>3. CASE UNCHANGED vars
  <2>1. /\ UNCHANGED <<source, binary, clock, selected, step, todo, trouble, pc>>
        /\ To' = To /\ From' = From /\ Dir' = Dir /\ (AtScripts' <=> AtScripts)
    BY <1>3 DEF vars, trees, files, To, From, Dir, AtScripts
  <2>2. Genuine'
    BY <2>1 DEF JInv, Genuine
  <2>3. Progress'
    BY <2>1 DEF JInv, Progress, StepDone, Current, MirroredBut, Fitting, In
  <2> QED
    BY <2>2, <2>3 DEF JInv
<1> QED
  BY <1>1, <1>2, <1>3, BuildKeepsJInv, StartKeepsJInv, FillKeepsJInv, CopyFileKeepsJInv,
     RemoveScriptKeepsJInv, ClearingKeepsJInv DEF Next

(* Where a copy keeps the time of its original, a run that met no trouble has *)
(* brought the binary directory up to date, whatever earlier runs left        *)
(* unfinished: every file that fits a step is of the newest build, or is what *)
(* a broken copy left, and the scripts are those of the source tree           *)
(* (CopyMgr.cpp:288-414, 433-538).                                            *)
THEOREM DoneIsUpToDate ==
    ASSUME KeepsTime
    PROVE  Spec => []DoneMeansCopied
<1>1. Init => IInv /\ JInv
  BY InitHolds, InitIsGenuine
<1>2. IInv /\ JInv /\ [Next]_vars => IInv' /\ JInv'
  BY StepKeepsIInv, StepKeepsJInv
<1>3. IInv /\ JInv => DoneMeansCopied
  <2> SUFFICES ASSUME IInv, JInv, pc = "done", ~trouble
               PROVE  UpToDate /\ ScriptsMirrored
    BY DEF DoneMeansCopied
  <2>1. /\ AtScripts /\ MirroredBut({}) /\ Len(Steps) \in Nat
        /\ \A k \in 1 .. step - 1 : StepDone(k)
    BY StepsAre DEF JInv, Progress
  <2>2. UpToDate
    <3>1. DOMAIN Steps = 1 .. Len(Steps) /\ step - 1 = Len(Steps)
      BY <2>1, CopyAssumption DEF AtScripts
    <3> QED
      BY <2>1, <3>1 DEF UpToDate, StepDone, Current
  <2>3. ScriptsMirrored
    <3>1. Fitting(To, Scripts) = Fitting(From, Scripts)
      <4>1. \A d \in Dirs : Fitting(To, d) \subseteq Places /\ Fitting(From, d) \subseteq Places
        BY DEF Fitting, In
      <4>2. Scripts \in Dirs
        BY DEF Dirs
      <4> QED
        BY <2>1, <4>1, <4>2 DEF MirroredBut
    <3> QED
      BY <2>1, <3>1 DEF ScriptsMirrored, MirroredBut
  <2> QED
    BY <2>2, <2>3
<1> QED
  BY <1>1, <1>2, <1>3, PTL DEF Spec
=============================================================================
