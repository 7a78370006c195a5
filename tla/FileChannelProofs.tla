-------------------------- MODULE FileChannelProofs --------------------------
(***************************************************************************)
(* Proofs about FileChannel for any options, writes and runs: first what   *)
(* ClearOldFiles removes (LogRetention), for any number of files, any      *)
(* dates, any limits and however often a removal throws, then the channel  *)
(* around it.                                                              *)
(***************************************************************************)
EXTENDS FileChannel, FiniteSetTheorems, SequenceTheorems, TLAPS

(* What the loop has done before i: which files are gone, and filesCount.     *)
SoFar ==
    pc # "idle" =>
        /\ Lists(order, count, Listed) /\ IsSorted(order, count)
        /\ filesCount = IF i <= Excess THEN count - (i - 1)
                        ELSE IF Excess > 0 THEN MaxCount ELSE count
        /\ \A j \in 1 .. count :
              order[j] \in present <=> (j >= i \/ (j > Excess /\ date[order[j]] >= limit))
        /\ pc = "done" => i > count

IInv == TypeOK /\ SoFar

LEMMA InitHolds == Init => IInv
BY FS_EmptySet, RetentionAssumption DEF Init, IInv, TypeOK, SoFar, Dates

(* The number of files that are listed is a number. *)
LEMMA CountIsNat ==
    ASSUME NEW S \in SUBSET Files
    PROVE  Cardinality(S) \in Nat
BY FS_Subset, FS_CardinalityType, RetentionAssumption

(* The loop starts with everything listed and nothing removed. *)
LEMMA StartKeeps == IInv /\ Start => IInv'
<1> SUFFICES ASSUME IInv, Start PROVE IInv'
  OBVIOUS
<1> USE DEF IInv, Start
<1>1. /\ count' \in Nat /\ order' \in [1 .. count' -> Files] /\ i' = 1 /\ pc' = "loop"
      /\ filesCount' = count' /\ present' = present /\ date' = date
  BY CountIsNat DEF TypeOK
<1>2. TypeOK'
  BY <1>1, RetentionAssumption DEF TypeOK, Dates
<1>3. Listed' = present
  BY DEF Lists, Listed
<1>4. Lists(order, count, Listed)' /\ IsSorted(order, count)'
  BY <1>3 DEF Lists, IsSorted, Listed
<1>5. \A j \in 1 .. count' : order'[j] \in present'
  BY <1>1, <1>3 DEF Listed
<1>6. SoFar'
  BY <1>1, <1>4, <1>5, RetentionAssumption DEF SoFar, Excess
<1> QED
  BY <1>2, <1>6

(* One turn of the loop: the file at i is removed exactly if it is one too    *)
(* many, or the count is settled and it is too old.                           *)
LEMMA StepKeeps == IInv /\ Step => IInv'
<1> SUFFICES ASSUME IInv, Step PROVE IInv'
  OBVIOUS
<1>1. /\ pc = "loop" /\ pc' = "loop" /\ i \in 1 .. count /\ i' = i + 1
      /\ count' = count /\ order' = order /\ limit' = limit /\ date' = date /\ clock' = clock
  BY DEF Step, IInv, TypeOK, listing
<1>2. /\ count \in Nat /\ MaxCount \in Nat /\ MaxCount > 0 /\ filesCount \in 0 .. count /\ limit \in Int
      /\ \A j \in 1 .. count : order[j] \in Files /\ date[order[j]] \in Int
  BY RetentionAssumption DEF IInv, TypeOK, Dates
<1>3. TooMany <=> i <= Excess
  BY <1>1, <1>2 DEF IInv, SoFar, TooMany, Excess
<1>4. /\ present' = IF i <= Excess \/ date[order[i]] < limit THEN present \ {order[i]} ELSE present
      /\ filesCount' = IF i <= Excess THEN filesCount - 1 ELSE filesCount
  BY <1>3 DEF Step, Remove, TooOld
<1>5. TypeOK'
  BY <1>1, <1>2, <1>3, <1>4 DEF IInv, TypeOK, TooMany
<1>6. filesCount' = IF i' <= Excess' THEN count' - (i' - 1)
                    ELSE IF Excess' > 0 THEN MaxCount ELSE count'
  BY <1>1, <1>2, <1>4 DEF IInv, SoFar, Excess
<1>7. ASSUME NEW j \in 1 .. count
      PROVE  order[j] \in present' <=> (j >= i' \/ (j > Excess /\ date[order[j]] >= limit))
  <2>1. order[j] \in present <=> (j >= i \/ (j > Excess /\ date[order[j]] >= limit))
    BY <1>1 DEF IInv, SoFar
  <2>2. order[j] = order[i] => j = i
    BY <1>1 DEF IInv, SoFar, Lists
  <2>3. CASE j = i
    BY <2>1, <2>3, <1>1, <1>2, <1>4 DEF Excess
  <2>4. CASE j # i
    <3>1. order[j] \in present' <=> order[j] \in present
      BY <2>2, <2>4, <1>4
    <3> QED
      BY <3>1, <2>1, <2>4, <1>1, <1>2
  <2> QED
    BY <2>3, <2>4
<1>8. SoFar'
  BY <1>1, <1>6, <1>7 DEF IInv, SoFar, Lists, IsSorted, Listed, Excess
<1> QED
  BY <1>5, <1>8 DEF IInv

LEMMA NextKeeps == IInv /\ [Next]_vars => IInv'
<1> SUFFICES ASSUME IInv, [Next]_vars PROVE IInv'
  OBVIOUS
<1>1. ASSUME NEW f \in Files, NewFile(f) PROVE IInv'
  BY <1>1 DEF IInv, NewFile, TypeOK, SoFar, listing
<1>2. CASE Tick
  <2>1. TypeOK'
    BY <1>2, RetentionAssumption DEF IInv, Tick, TypeOK, listing, Dates
  <2>2. SoFar'
    BY <1>2 DEF IInv, Tick, SoFar, Lists, IsSorted, Listed, Excess, listing
  <2> QED
    BY <2>1, <2>2 DEF IInv
<1>3. CASE Start
  BY <1>3, StartKeeps
<1>4. CASE Step
  BY <1>4, StepKeeps
<1>5. CASE Throw
  BY <1>5 DEF IInv, Throw, TypeOK, SoFar, Lists, IsSorted, Listed, Excess, listing
<1>6. CASE Finish
  BY <1>6 DEF IInv, Finish, TypeOK, SoFar, Lists, IsSorted, Listed, Excess, listing
<1>7. CASE UNCHANGED vars
  BY <1>7 DEF IInv, vars, TypeOK, SoFar, Lists, IsSorted, Listed, Excess, listing
<1> QED
  BY <1>1, <1>2, <1>3, <1>4, <1>5, <1>6, <1>7 DEF Next

THEOREM LoopIsTracked == Spec => []IInv
BY InitHolds, NextKeeps, PTL DEF Spec

(* A removed file is at least as old as every file that is left, in the       *)
(* middle of the loop and after a removal that threw.                         *)
THEOREM RemovedAreOldest == Spec => []OldestGoFirst
<1>1. IInv => OldestGoFirst
  <2> SUFFICES ASSUME IInv, pc # "idle",
                      NEW f \in Listed \ present, NEW g \in Listed \intersect present
               PROVE  date[f] <= date[g]
    BY DEF OldestGoFirst
  <2>1. PICK j \in 1 .. count : f = order[j]
    BY DEF Listed
  <2>2. PICK k \in 1 .. count : g = order[k]
    BY DEF Listed
  <2>3. /\ count \in Nat /\ MaxCount \in Nat /\ i \in Nat /\ limit \in Int
        /\ date[order[j]] \in Int /\ date[order[k]] \in Int
    BY <2>1, <2>2, RetentionAssumption DEF IInv, TypeOK, Dates
  <2>4. ~(j >= i \/ (j > Excess /\ date[order[j]] >= limit))
    BY <2>1 DEF IInv, SoFar
  <2>5. k >= i \/ (k > Excess /\ date[order[k]] >= limit)
    BY <2>2 DEF IInv, SoFar
  <2>6. j < k => date[order[j]] <= date[order[k]]
    BY DEF IInv, SoFar, IsSorted
  <2>7. k < j => date[order[k]] <= date[order[j]]
    BY DEF IInv, SoFar, IsSorted
  <2>8. j # k
    BY <2>4, <2>5
  <2>9. CASE j < k
    BY <2>1, <2>2, <2>6, <2>9
  <2>10. CASE k < j
    BY <2>3, <2>4, <2>5, <2>7, <2>10 DEF Excess
  <2> QED
    BY <2>3, <2>8, <2>9, <2>10
<1> QED
  BY <1>1, LoopIsTracked, PTL

(* A loop that went through keeps exactly the files that are among the        *)
(* MaxCount newest and not too old.                                           *)
THEOREM RestIsKept == Spec => []ExactlyTheRestIsKept
<1>1. IInv => ExactlyTheRestIsKept
  <2> SUFFICES ASSUME IInv, pc = "done", NEW j \in 1 .. count
               PROVE  order[j] \in present <=> (j > Excess /\ date[order[j]] >= limit)
    BY DEF ExactlyTheRestIsKept
  <2>1. i > count /\ count \in Nat /\ i \in Nat
    BY DEF IInv, SoFar, TypeOK
  <2> QED
    BY <2>1 DEF IInv, SoFar
<1> QED
  BY <1>1, LoopIsTracked, PTL

(* The variables of the loop keep their types. *)
THEOREM TypeCorrect == Spec => []TypeOK
BY LoopIsTracked, PTL DEF IInv
-----------------------------------------------------------------------------
(* The lines of messages, and the names that files may have. *)
Line == [text : Nat, opt : Options \union {None}]
Names == [opt : Options \union {None, "{}"}, stamps : Seq(Dates)]

(* The texts of a sequence of lines. *)
Texts(s) == {s[k].text : k \in DOMAIN s}

(* How many messages there were when the last run began. *)
Begun == IF runs = <<>> THEN 0 ELSE runs[Len(runs)]

(* The types of the channel's variables. *)
ChannelTypeOK ==
    /\ dynamic \in BOOLEAN /\ append \in BOOLEAN /\ flush \in BOOLEAN /\ stamp \in BOOLEAN
    /\ clears \in BOOLEAN /\ (clears => ~dynamic)
    /\ program \in {"off", "starting", "running"}
    /\ stream \in {"none", "open", "bad", "dead"}
    /\ name \in Names
    /\ buffer \in Seq(Line)
    /\ disk \in [DOMAIN disk -> Seq(Line)]
    /\ writes \in Nat

LEMMA SomeStamps == MaxStamps \in Nat \ {0} /\ 1 \in 1 .. MaxStamps
<1>1. MaxStamps \in Nat \ {0}
  BY FileChannelAssumption
<1> QED
  BY <1>1

(* What the state of the program says of the others: files are only removed   *)
(* in the constructor, and a stream and its buffer end with the run.          *)
Stages ==
    /\ pc = "loop" <=> program = "starting"
    /\ program # "running" => stream = "none"
    /\ stream \in {"none", "dead"} \/ dynamic => buffer = <<>>
    /\ stream = "open" /\ flush => buffer = <<>>

(* Dates are read from names, and no name holds a moment that is to come.     *)
StampsArePast ==
    /\ \A f \in Files : date[f] = FileCreationDate(f)
    /\ \A k \in 1 .. Len(name.stamps) : name.stamps[k] <= clock

(* Messages are counted, and so are those that came before a run.             *)
Numbered ==
    /\ runs \in Seq(Nat) /\ Begun \in 0 .. writes
    /\ \A j \in DOMAIN runs : runs[j] <= Begun
    /\ accepted \subseteq 1 .. writes
    /\ \A f \in DOMAIN disk : Texts(disk[f]) \subseteq 1 .. writes
    /\ Texts(buffer) \subseteq 1 .. writes

(* Where a static channel has what it accepted in this run: nowhere before it *)
(* opens its file, then in the file and the buffer, as long as something may  *)
(* still be written behind it.                                                *)
Kept ==
    ~dynamic =>
        /\ program # "off" /\ stream = "none" => \A m \in accepted : m <= Begun
        /\ stream = "open" \/ buffer # <<>> =>
              \A m \in accepted : m > Begun => m \in Texts(Lines(name)) \union Texts(buffer)
        /\ \A m \in Texts(buffer) : m > Begun

(* The name of a channel with a static name: stamped once, when it opens.     *)
NameFollowsStream ==
    ~dynamic =>
        /\ name.opt = None
        /\ program # "off" /\ stream = "none" => name.stamps = <<>>
        /\ stream # "none" => Len(name.stamps) = IF stamp THEN 1 ELSE 0
        /\ stream \in {"open", "bad"} => name \in DOMAIN disk

(* The files of the directory are those that ClearOldFiles will find.         *)
FilesAreFound ==
    /\ present = DOMAIN disk \intersect Files
    /\ pc = "loop" => present \subseteq Listed
    /\ clears /\ stamp => DOMAIN disk \subseteq Files
    /\ clears /\ ~stamp => DOMAIN disk \subseteq {Template}

(* The file of this run is the only one beyond MaxCount. *)
Counted ==
    /\ IsFiniteSet(DOMAIN disk)
    /\ clears =>
          /\ Cardinality(DOMAIN disk) <= MaxCount + 1
          /\ program = "running" /\ stream \in {"none", "dead"} =>
                Cardinality(DOMAIN disk) <= MaxCount

-----------------------------------------------------------------------------
(* What a file holds, and what putting lines into it changes.                 *)
LEMMA LinesTyped ==
    ASSUME ChannelTypeOK, NEW f
    PROVE  /\ Lines(f) \in Seq(Line)
           /\ Opened(f) \in Seq(Line)
BY EmptySeq DEF ChannelTypeOK, Lines, Opened

LEMMA PutIs ==
    ASSUME ChannelTypeOK, NEW f, NEW lines \in Seq(Line), disk' = Put(f, lines)
    PROVE  /\ DOMAIN disk' = DOMAIN disk \union {f}
           /\ disk'[f] = lines
           /\ \A g \in DOMAIN disk : g # f => disk'[g] = disk[g]
           /\ disk' \in [DOMAIN disk' -> Seq(Line)]
BY DEF Put, ChannelTypeOK

(* The line of a message, and the lines of the file that it is written after. *)
NextLine(o) == [text |-> writes + 1, opt |-> o]

Old(f) == IF stream = "open" THEN Lines(f) ELSE Opened(f)

LEMMA NextLineTyped ==
    ASSUME ChannelTypeOK, NEW o \in Options \union {None}
    PROVE  NextLine(o) \in Line
BY DEF ChannelTypeOK, NextLine, Line

LEMMA OldTyped ==
    ASSUME ChannelTypeOK, NEW f
    PROVE  Old(f) \in Seq(Line)
BY LinesTyped DEF Old

(* A message leaves everything as it is, apart from the name and a stream     *)
(* that could not be opened, or its line goes to the file, to the buffer, or  *)
(* is lost.                                                                   *)
NothingWritten ==
    /\ Fails
    /\ stream' = stream \/ (stream = "none" /\ stream' = "dead")
    /\ ~dynamic => stream' # "none"

WrittenToFile(o) ==
    /\ disk' = Put(name', Old(name') \o <<NextLine(o)>>)
    /\ buffer' = buffer
    /\ accepted' = accepted \union {writes + 1}
    /\ IF dynamic THEN stream' = stream ELSE flush /\ stream' = "open"

LostByDynamic(o) ==
    /\ dynamic
    /\ disk' = Put(name', Old(name'))
    /\ accepted' = accepted \union {writes + 1}
    /\ buffer' = buffer /\ stream' = stream

WrittenToBuffer(o) ==
    /\ ~dynamic /\ ~flush
    /\ disk' = Put(name', Old(name'))
    /\ buffer' = Append(buffer, NextLine(o))
    /\ accepted' = accepted \union {writes + 1}
    /\ stream' = "open"

StreamFails(o) ==
    /\ ~dynamic
    /\ disk' = Put(name', Old(name'))
    /\ buffer' \in {<<>>, Append(buffer, NextLine(o))}
    /\ stream' = "bad"
    /\ accepted' = accepted

LineGoes(o) ==
    /\ stream \in {"none", "open"}
    /\ dynamic => stream = "none"
    /\ WrittenToFile(o) \/ LostByDynamic(o) \/ WrittenToBuffer(o) \/ StreamFails(o)

NameAfter(o) ==
    IF dynamic THEN name' \in {name, Formatted(o), Stamped(Formatted(o))}
    ELSE name' = IF stream = "none" THEN Stamped(name) ELSE name

LEMMA WriteEffect ==
    ASSUME ChannelTypeOK, NEW o \in Options \union {None}, Write(o)
    PROVE  (NothingWritten \/ LineGoes(o)) /\ NameAfter(o)
<1> DEFINE line == NextLine(o)
<1>0. line.text = writes + 1 /\ line.opt = o
  BY DEF NextLine
<1>1. CASE dynamic /\ (o = None \/ stream # "none")
  BY <1>1 DEF Write, WriteDynamic, NothingWritten, NameAfter
<1>2. CASE dynamic /\ o # None /\ stream = "none"
  <2>1. WriteDynamic(line)
    BY <1>2 DEF Write, NextLine
  <2>2. name' = Stamped(Formatted(o))
    BY <1>0, <1>2, <2>1 DEF WriteDynamic
  <2>3. Opened(name') = Old(name') /\ Old(name') \o <<>> = Old(name')
    BY <1>2, OldTyped DEF Old
  <2>4. \/ stream' = "dead" /\ Fails
        \/ /\ \E written \in {<<line>>, <<>>} : disk' = Put(name', Opened(name') \o written)
           /\ accepted' = accepted \union {writes + 1}
           /\ UNCHANGED <<stream, buffer>>
    BY <1>0, <1>2, <2>1, <2>2 DEF WriteDynamic, FailedStream
  <2>5. CASE stream' = "dead" /\ Fails
    BY <1>2, <2>2, <2>5 DEF NothingWritten, NameAfter
  <2>6. CASE /\ disk' = Put(name', Opened(name') \o <<line>>)
             /\ accepted' = accepted \union {writes + 1}
             /\ UNCHANGED <<stream, buffer>>
    BY <1>2, <2>2, <2>3, <2>6 DEF LineGoes, WrittenToFile, NameAfter
  <2>7. CASE /\ disk' = Put(name', Opened(name') \o <<>>)
             /\ accepted' = accepted \union {writes + 1}
             /\ UNCHANGED <<stream, buffer>>
    BY <1>2, <2>2, <2>3, <2>7 DEF LineGoes, LostByDynamic, NameAfter
  <2> QED
    BY <2>4, <2>5, <2>6, <2>7
<1>3. CASE ~dynamic
  <2>1. WriteStatic(line)
    BY <1>3 DEF Write, NextLine
  <2>2. NameAfter(o)
    BY <1>3, <2>1 DEF WriteStatic, NameAfter
  <2>3. \/ NothingWritten
        \/ /\ stream \in {"none", "open"}
           /\ PutLine(line, name', Old(name'))
    BY <2>1 DEF WriteStatic, NothingWritten, Old, FailedStream
  <2>4. ASSUME stream \in {"none", "open"}, PutLine(line, name', Old(name'))
        PROVE  LineGoes(o)
    BY <1>0, <1>3, <2>4
       DEF PutLine, Accepts, AfterFailure, LineGoes, WrittenToFile, WrittenToBuffer, StreamFails
  <2> QED
    BY <2>2, <2>3, <2>4
<1> QED
  BY <1>1, <1>2, <1>3
-----------------------------------------------------------------------------
(* What a stamp and an option change in a name. *)
LEMMA StampIs ==
    ASSUME TypeOK, NEW n \in Names
    PROVE  /\ Stamped(n) \in Names
           /\ Stamped(n).opt = n.opt
           /\ Stamped(n).stamps = IF stamp THEN Append(n.stamps, clock) ELSE n.stamps
<1>1. clock \in Dates
  BY DEF TypeOK
<1>2. n.stamps \in Seq(Dates) /\ n.opt \in Options \union {None, "{}"}
  BY DEF Names
<1>3. Append(n.stamps, clock) \in Seq(Dates)
  BY <1>1, <1>2, AppendProperties
<1> QED
  BY <1>2, <1>3 DEF Stamped, Names

LEMMA FormattedIs ==
    ASSUME ChannelTypeOK, NEW o \in Options \union {None}
    PROVE  Formatted(o) \in Names /\ Formatted(o).stamps = name.stamps
BY DEF ChannelTypeOK, Formatted, Names

LEMMA NameTyped ==
    ASSUME TypeOK, ChannelTypeOK, NEW o \in Options \union {None}, NameAfter(o)
    PROVE  /\ name' \in Names
           /\ name'.stamps = name.stamps \/ name'.stamps = Append(name.stamps, clock)
<1>1. name \in Names
  BY DEF ChannelTypeOK
<1> QED
  BY <1>1, StampIs, FormattedIs DEF NameAfter

LEMMA TemplateTyped ==
    ASSUME ChannelTypeOK
    PROVE  Template \in Names /\ Template.stamps = <<>> /\ (~dynamic => Template.opt = None)
BY EmptySeq DEF Template, Names, ChannelTypeOK

(* The buffer and the disk after a message. *)
LEMMA WrittenTyped ==
    ASSUME ChannelTypeOK, NEW o \in Options \union {None}, LineGoes(o)
    PROVE  disk' \in [DOMAIN disk' -> Seq(Line)] /\ buffer' \in Seq(Line)
<1>1. NextLine(o) \in Line /\ buffer \in Seq(Line) /\ Old(name') \in Seq(Line)
  BY NextLineTyped, OldTyped DEF ChannelTypeOK
<1>2. /\ Append(buffer, NextLine(o)) \in Seq(Line) /\ <<>> \in Seq(Line)
      /\ Old(name') \o <<NextLine(o)>> \in Seq(Line)
  <2>1. <<NextLine(o)>> \in Seq(Line)
    BY <1>1
  <2> QED
    BY <1>1, <2>1, EmptySeq, AppendProperties, ConcatProperties
<1>3. CASE WrittenToFile(o)
  BY <1>1, <1>2, <1>3, PutIs DEF WrittenToFile
<1>4. CASE LostByDynamic(o)
  BY <1>1, <1>4, PutIs DEF LostByDynamic
<1>5. CASE WrittenToBuffer(o)
  BY <1>1, <1>2, <1>5, PutIs DEF WrittenToBuffer
<1>6. CASE StreamFails(o)
  BY <1>1, <1>2, <1>6, PutIs DEF StreamFails
<1> QED
  BY <1>3, <1>4, <1>5, <1>6 DEF LineGoes

(* The buffer that is written: the end of a run, or a full buffer. *)
LEMMA DrainedTyped ==
    ASSUME ChannelTypeOK, disk' \in {disk, Drained}
    PROVE  disk' \in [DOMAIN disk' -> Seq(Line)]
<1>1. buffer \in Seq(Line) /\ Lines(name) \in Seq(Line)
  BY LinesTyped DEF ChannelTypeOK
<1>2. Lines(name) \o buffer \in Seq(Line)
  BY <1>1, ConcatProperties
<1> QED
  BY <1>2, PutIs DEF Drained, ChannelTypeOK

LEMMA ChannelTypeIsKept ==
    ASSUME TypeOK, ChannelTypeOK, [ChannelNext]_allVars
    PROVE  ChannelTypeOK'
<1>1. ASSUME UNCHANGED <<config, output, writes>>,
             program' \in {"off", "starting", "running"},
             disk' \in [DOMAIN disk' -> Seq(Line)]
      PROVE  ChannelTypeOK'
  BY <1>1 DEF ChannelTypeOK, config, output
<1>2. CASE Construct
  BY <1>2, TemplateTyped DEF Construct, ChannelTypeOK, config
<1>3. CASE ClearStep
  <2>1. disk' = [f \in DOMAIN disk \ (present \ present') |-> disk[f]]
    BY <1>3 DEF ClearStep
  <2>2. disk' \in [DOMAIN disk' -> Seq(Line)]
    BY <2>1 DEF ChannelTypeOK
  <2> QED
    BY <1>1, <1>3, <2>2 DEF ClearStep, ChannelTypeOK
<1>4. CASE ClearThrows
  BY <1>1, <1>4 DEF ClearThrows, ChannelTypeOK
<1>5. CASE Constructed
  BY <1>1, <1>5 DEF Constructed, ChannelTypeOK
<1>6. ASSUME NEW o \in Options \union {None}, Write(o) PROVE ChannelTypeOK'
  <2>1. /\ (NothingWritten \/ LineGoes(o)) /\ NameAfter(o)
        /\ UNCHANGED <<config, program>> /\ writes' = writes + 1
    BY <1>6, WriteEffect DEF Write
  <2>2. disk' \in [DOMAIN disk' -> Seq(Line)] /\ buffer' \in Seq(Line)
    BY <2>1, WrittenTyped DEF NothingWritten, Fails, ChannelTypeOK
  <2>3. stream' \in {"none", "open", "bad", "dead"}
    BY <2>1 DEF NothingWritten, LineGoes, WrittenToFile, LostByDynamic, WrittenToBuffer,
                StreamFails, ChannelTypeOK
  <2>4. name' \in Names
    BY <2>1, NameTyped
  <2> QED
    BY <2>1, <2>2, <2>3, <2>4 DEF ChannelTypeOK, config
<1>7. CASE BufferFull
  BY <1>7, DrainedTyped, EmptySeq DEF BufferFull, ChannelTypeOK, config
<1>8. CASE EndOfRun
  BY <1>8, DrainedTyped, EmptySeq DEF EndOfRun, ChannelTypeOK, config
<1>9. CASE UNCHANGED channelVars
  BY <1>1, <1>9 DEF channelVars, ChannelTypeOK
<1> QED
  BY <1>2, <1>3, <1>4, <1>5, <1>6, <1>7, <1>8, <1>9 DEF ChannelNext, allVars
-----------------------------------------------------------------------------
(* The state of the program, of the stream and of the loop go together.       *)
LEMMA StagesAreKept ==
    ASSUME ChannelTypeOK, Stages, [ChannelNext]_allVars
    PROVE  Stages'
<1>1. CASE Construct
  BY <1>1 DEF Construct, Start, Stages, config, output, retentionVars, vars, listing
<1>2. CASE ClearStep
  BY <1>2 DEF ClearStep, Step, Stages, config, output, listing
<1>3. CASE ClearThrows
  BY <1>3 DEF ClearThrows, Throw, Stages, config, output, listing
<1>4. CASE Constructed
  BY <1>4 DEF Constructed, Finish, Stages, config, output, listing
<1>5. ASSUME NEW o \in Options \union {None}, Write(o) PROVE Stages'
  <2>1. /\ NothingWritten \/ LineGoes(o)
        /\ UNCHANGED <<config, program>> /\ program = "running"
        /\ pc' # "loop"
    BY <1>5, WriteEffect DEF Write, Running, Appears, Stages
  <2>2. CASE NothingWritten
    BY <2>1, <2>2 DEF NothingWritten, Fails, Stages, config
  <2>3. CASE LineGoes(o)
    BY <2>1, <2>3 DEF LineGoes, WrittenToFile, LostByDynamic, WrittenToBuffer, StreamFails,
                      Stages, config, ChannelTypeOK
  <2> QED
    BY <2>1, <2>2, <2>3
<1>6. CASE BufferFull
  BY <1>6 DEF BufferFull, Stages, config, retentionVars, vars, listing
<1>7. CASE EndOfRun
  BY <1>7 DEF EndOfRun, Running, Stages, config, retentionVars, vars, listing
<1>8. CASE Tick /\ UNCHANGED channelVars
  BY <1>8 DEF Tick, Stages, channelVars, config, output, listing
<1>9. CASE UNCHANGED allVars
  BY <1>9 DEF allVars, Stages, channelVars, retentionVars, vars, config, output, listing
<1> QED
  BY <1>1, <1>2, <1>3, <1>4, <1>5, <1>6, <1>7, <1>8, <1>9 DEF ChannelNext

(* A stamp is the moment at which it is made. *)
LEMMA StampsStayPast ==
    ASSUME TypeOK, ChannelTypeOK, StampsArePast, [ChannelNext]_allVars
    PROVE  StampsArePast'
<1>1. name.stamps \in Seq(Dates) /\ clock \in Nat
  <2>1. name.stamps \in Seq(Dates)
    BY DEF ChannelTypeOK, Names
  <2>2. clock \in Nat
    BY RetentionAssumption DEF TypeOK, Dates
  <2> QED
    BY <2>1, <2>2
<1>2. \A d \in Dates : d \in Nat
  BY RetentionAssumption DEF Dates
<1>3. \A k \in 1 .. Len(name.stamps) : name.stamps[k] \in Nat
  BY <1>1, <1>2, ElementOfSeq
<1>4. ASSUME UNCHANGED <<name, date>>, clock' \in {clock, clock + 1} PROVE StampsArePast'
  BY <1>1, <1>3, <1>4 DEF StampsArePast
<1>5. CASE Construct
  <2>1. Len(name'.stamps) = 0
    BY <1>5, TemplateTyped DEF Construct
  <2>2. UNCHANGED <<date, clock>>
    BY <1>5 DEF Construct, Start, retentionVars, vars
  <2> QED
    BY <2>1, <2>2 DEF StampsArePast
<1>6. CASE ClearStep
  BY <1>4, <1>6 DEF ClearStep, Step, output
<1>7. CASE ClearThrows
  BY <1>4, <1>7 DEF ClearThrows, Throw, output
<1>8. CASE Constructed
  BY <1>4, <1>8 DEF Constructed, Finish, output
<1>9. ASSUME NEW o \in Options \union {None}, Write(o) PROVE StampsArePast'
  <2>1. NameAfter(o) /\ UNCHANGED <<date, clock>>
    BY <1>9, WriteEffect DEF Write, Appears
  <2>2. name'.stamps = name.stamps \/ name'.stamps = Append(name.stamps, clock)
    BY <2>1, NameTyped
  <2>3. CASE name'.stamps = Append(name.stamps, clock)
    <3>1. clock \in Dates
      BY DEF TypeOK
    <3>2. ASSUME NEW k \in 1 .. Len(name'.stamps) PROVE name'.stamps[k] <= clock
      BY <1>1, <2>3, <3>1, <3>2, AppendProperties DEF StampsArePast
    <3> QED
      BY <2>1, <3>2 DEF StampsArePast
  <2> QED
    BY <2>1, <2>2, <2>3 DEF StampsArePast
<1>10. CASE BufferFull
  BY <1>4, <1>10 DEF BufferFull, retentionVars, vars
<1>11. CASE EndOfRun
  BY <1>4, <1>11 DEF EndOfRun, retentionVars, vars
<1>12. CASE Tick /\ UNCHANGED channelVars
  <2>1. UNCHANGED <<name, date>> /\ clock' = clock + 1
    BY <1>12 DEF Tick, channelVars, output
  <2> QED
    BY <1>4, <2>1
<1>13. CASE UNCHANGED allVars
  BY <1>4, <1>13 DEF allVars, channelVars, retentionVars, vars, output
<1> QED
  BY <1>5, <1>6, <1>7, <1>8, <1>9, <1>10, <1>11, <1>12, <1>13 DEF ChannelNext

(* A message adds its file to the disk, and no other. *)
LEMMA WriteAddsOneFile ==
    ASSUME ChannelTypeOK, NEW o \in Options \union {None}, Write(o)
    PROVE  /\ DOMAIN disk \subseteq DOMAIN disk'
           /\ DOMAIN disk' \subseteq DOMAIN disk \union {name'}
<1>1. NothingWritten \/ LineGoes(o)
  BY WriteEffect
<1>2. CASE NothingWritten
  BY <1>2 DEF NothingWritten, Fails
<1>3. CASE LineGoes(o)
  BY <1>3 DEF LineGoes, WrittenToFile, LostByDynamic, WrittenToBuffer, StreamFails, Put
<1> QED
  BY <1>1, <1>2, <1>3

(* Every step of the channel is a step of LogRetention, or none. *)
LEMMA StepRefines ==
    ASSUME TypeOK, ChannelTypeOK, Stages, StampsArePast, StampsArePast', [ChannelNext]_allVars
    PROVE  [Next]_vars
<1>1. CASE Construct
  BY <1>1 DEF Construct, Next, retentionVars
<1>2. CASE ClearStep \/ ClearThrows \/ Constructed
  BY <1>2 DEF ClearStep, ClearThrows, Constructed, Next
<1>3. ASSUME NEW o \in Options \union {None}, Write(o) PROVE [Next]_vars
  <2> DEFINE new == (DOMAIN disk' \ DOMAIN disk) \intersect Files
  <2>1. /\ present' = present \union new
        /\ pc' = IF new = {} THEN pc ELSE "idle"
        /\ UNCHANGED <<date, clock, listing, i, filesCount>>
        /\ pc # "loop"
    BY <1>3 DEF Write, Appears, Running, Stages
  <2>2. new \subseteq {name'} \intersect Files
    BY <1>3, WriteAddsOneFile
  <2> HIDE DEF new
  <2>3. CASE new = {}
    BY <2>1, <2>3 DEF vars
  <2>4. CASE new # {}
    <3>1. new = {name'} /\ name' \in Files
      BY <2>2, <2>4
    <3>2. PICK n \in 1 .. MaxStamps : \E s \in [1 .. n -> Dates] : name' = [opt |-> None, stamps |-> s]
      BY <3>1, FileChannelAssumption DEF Stampings
    <3>3. name'.stamps \in [1 .. n -> Dates] /\ n >= 1 /\ n \in Nat
      <4>1. PICK s \in [1 .. n -> Dates] : name' = [opt |-> None, stamps |-> s]
        BY <3>2
      <4>2. name'.stamps = s
        BY <4>1
      <4> QED
        BY <4>1, <4>2, SomeStamps
    <3>4. date[name'] <= clock
      <4>1. 1 \in 1 .. Len(name'.stamps)
        BY <3>3
      <4>2. name'.stamps[1] <= clock' /\ clock' = clock
        BY <2>1, <4>1 DEF StampsArePast
      <4> QED
        BY <2>1, <3>1, <4>2 DEF StampsArePast, FileCreationDate
    <3>5. NewFile(name')
      BY <2>1, <2>4, <3>1, <3>4 DEF NewFile
    <3> QED
      BY <3>1, <3>5 DEF Next
  <2> QED
    BY <2>3, <2>4
<1>4. CASE BufferFull \/ EndOfRun
  BY <1>4 DEF BufferFull, EndOfRun, retentionVars
<1>5. CASE Tick
  BY <1>5 DEF Next
<1>6. CASE UNCHANGED allVars
  BY <1>6 DEF allVars, retentionVars
<1> QED
  BY <1>1, <1>2, <1>3, <1>4, <1>5, <1>6 DEF ChannelNext

(* The part of the invariant that the refinement needs. *)
Shape == IInv /\ ChannelTypeOK /\ Stages /\ StampsArePast

LEMMA ShapeAtStart == ChannelInit => Shape
<1> SUFFICES ASSUME ChannelInit PROVE Shape
  OBVIOUS
<1>1. IInv
  BY InitHolds DEF ChannelInit
<1>2. Template \in Names /\ Len(Template.stamps) = 0
  BY EmptySeq DEF Template, Names, ChannelInit
<1>3. ChannelTypeOK
  BY <1>2, EmptySeq DEF ChannelInit, ChannelTypeOK
<1>4. Stages
  BY DEF ChannelInit, Init, Stages
<1>5. StampsArePast
  BY <1>2 DEF ChannelInit, StampsArePast
<1> QED
  BY <1>1, <1>3, <1>4, <1>5 DEF Shape

LEMMA ShapeIsKept == Shape /\ [ChannelNext]_allVars => Shape' /\ [Next]_vars
<1> SUFFICES ASSUME Shape, [ChannelNext]_allVars PROVE Shape' /\ [Next]_vars
  OBVIOUS
<1>1. ChannelTypeOK' /\ Stages' /\ StampsArePast'
  BY ChannelTypeIsKept, StagesAreKept, StampsStayPast DEF Shape, IInv
<1>2. [Next]_vars
  BY <1>1, StepRefines DEF Shape, IInv
<1>3. IInv'
  BY <1>2, NextKeeps DEF Shape
<1> QED
  BY <1>1, <1>2, <1>3 DEF Shape

(* Every write and every end of a run is a new file for LogRetention, or      *)
(* nothing.                                                                   *)
LEMMA ChannelIsADirectory == ChannelSpec => Spec
<1>1. ChannelInit => Init
  BY DEF ChannelInit
<1>2. ChannelSpec => []Shape
  BY ShapeAtStart, ShapeIsKept, PTL DEF ChannelSpec
<1> QED
  BY <1>1, <1>2, ShapeIsKept, PTL DEF ChannelSpec, Spec

(* So what is proved of the loop holds in the life of the channel, whatever   *)
(* it writes: a removed file is at least as old as every one that is left     *)
(* (FileChannel.cpp:280-296).                                                 *)
THEOREM ChannelRemovesOldest == ChannelSpec => []OldestGoFirst
BY ChannelIsADirectory, RemovedAreOldest, PTL

(* And a constructor that went through has kept exactly the files that are    *)
(* among the MaxCount newest and not too old (FileChannel.cpp:287-296).       *)
THEOREM ChannelKeepsTheRest == ChannelSpec => []ExactlyTheRestIsKept
BY ChannelIsADirectory, RestIsKept, PTL
-----------------------------------------------------------------------------
(* A file whose lines are only added to keeps its texts.                      *)
LEMMA TextsStay ==
    ASSUME ChannelTypeOK, NEW f, NEW tail \in Seq(Line), disk' = Put(f, Lines(f) \o tail)
    PROVE  /\ TextsIn(DOMAIN disk) \subseteq TextsIn(DOMAIN disk)'
           /\ \A k \in 1 .. Len(tail) : tail[k].text \in TextsIn(DOMAIN disk)'
<1>1. /\ Lines(f) \in Seq(Line) /\ Lines(f) \o tail \in Seq(Line)
      /\ Len(Lines(f)) \in Nat /\ Len(tail) \in Nat
      /\ Len(Lines(f) \o tail) = Len(Lines(f)) + Len(tail)
      /\ \A k \in 1 .. Len(Lines(f)) + Len(tail) :
            (Lines(f) \o tail)[k] = IF k <= Len(Lines(f)) THEN Lines(f)[k]
                                    ELSE tail[k - Len(Lines(f))]
  BY LinesTyped, ConcatProperties
<1>2. /\ DOMAIN disk' = DOMAIN disk \union {f} /\ disk'[f] = Lines(f) \o tail
      /\ \A g \in DOMAIN disk : g # f => disk'[g] = disk[g]
  BY <1>1, PutIs
<1>3. DOMAIN disk'[f] = 1 .. Len(Lines(f)) + Len(tail)
  BY <1>1, <1>2
<1>4. ASSUME NEW g \in DOMAIN disk, NEW k \in DOMAIN disk[g]
      PROVE  k \in DOMAIN disk'[g] /\ disk'[g][k] = disk[g][k]
  <2>1. CASE g = f
    <3>1. disk[g] = Lines(f) /\ DOMAIN Lines(f) = 1 .. Len(Lines(f))
      BY <1>1, <2>1 DEF Lines
    <3> QED
      BY <1>1, <1>2, <1>3, <2>1, <3>1
  <2> QED
    BY <1>2, <2>1
<1>5. TextsIn(DOMAIN disk) \subseteq TextsIn(DOMAIN disk)'
  BY <1>2, <1>4 DEF TextsIn
<1>6. ASSUME NEW k \in 1 .. Len(tail) PROVE tail[k].text \in TextsIn(DOMAIN disk)'
  <2>1. /\ Len(Lines(f)) + k \in DOMAIN disk'[f]
        /\ disk'[f][Len(Lines(f)) + k] = tail[k]
    BY <1>1, <1>2, <1>3
  <2> QED
    BY <1>2, <2>1 DEF TextsIn
<1> QED
  BY <1>5, <1>6

LEMMA DrainedTextsStay ==
    ASSUME ChannelTypeOK, disk' \in {disk, Drained}
    PROVE  TextsIn(DOMAIN disk) \subseteq TextsIn(DOMAIN disk)'
<1>1. CASE disk' = disk
  BY <1>1 DEF TextsIn
<1>2. CASE disk' = Put(name, Lines(name) \o buffer)
  BY <1>2, TextsStay DEF ChannelTypeOK
<1> QED
  BY <1>1, <1>2 DEF Drained

(* A message to a static, flushing and appending channel. *)
LEMMA WriteIsDurable ==
    ASSUME ChannelTypeOK, ~dynamic, flush, append,
           NEW o \in Options \union {None}, Write(o)
    PROVE  /\ TextsIn(DOMAIN disk) \subseteq TextsIn(DOMAIN disk)'
           /\ accepted' \subseteq accepted \union TextsIn(DOMAIN disk)'
<1>1. NothingWritten \/ LineGoes(o)
  BY WriteEffect
<1>2. CASE NothingWritten
  BY <1>2 DEF NothingWritten, Fails, TextsIn
<1>3. CASE LineGoes(o)
  <2>1. Old(name') = Lines(name') /\ Lines(name') \in Seq(Line)
    BY LinesTyped DEF Old, Opened
  <2>2. CASE WrittenToFile(o)
    <3> DEFINE tail == <<NextLine(o)>>
    <3>1. NextLine(o) \in Line
      BY NextLineTyped
    <3>2. tail \in Seq(Line) /\ Len(tail) = 1 /\ tail[1].text = writes + 1
      BY <3>1 DEF NextLine
    <3>3. disk' = Put(name', Lines(name') \o tail) /\ accepted' = accepted \union {writes + 1}
      BY <2>1, <2>2 DEF WrittenToFile
    <3> HIDE DEF tail
    <3>4. /\ TextsIn(DOMAIN disk) \subseteq TextsIn(DOMAIN disk)'
          /\ \A k \in 1 .. Len(tail) : tail[k].text \in TextsIn(DOMAIN disk)'
      BY <3>2, <3>3, TextsStay
    <3>5. tail[1].text \in TextsIn(DOMAIN disk)'
      BY <3>2, <3>4
    <3> QED
      BY <3>2, <3>3, <3>4, <3>5
  <2>3. CASE StreamFails(o)
    <3>1. <<>> \in Seq(Line) /\ Lines(name') \o <<>> = Lines(name')
      BY <2>1
    <3>2. disk' = Put(name', Lines(name') \o <<>>) /\ accepted' = accepted
      BY <2>1, <2>3, <3>1 DEF StreamFails
    <3>3. TextsIn(DOMAIN disk) \subseteq TextsIn(DOMAIN disk)'
      BY <3>1, <3>2, TextsStay
    <3> QED
      BY <3>2, <3>3
  <2> QED
    BY <1>3, <2>2, <2>3 DEF LineGoes, LostByDynamic, WrittenToBuffer
<1> QED
  BY <1>1, <1>2, <1>3

(* What a flushing, appending channel has accepted stays on the disk, for any *)
(* number of messages and runs, whatever fails (FileChannel.cpp:213-220,      *)
(* 230, 253-297).                                                             *)
THEOREM AcceptedStays == ChannelSpec => []AcceptedIsDurable
<1>1. ChannelInit => AcceptedIsDurable
  BY DEF ChannelInit, AcceptedIsDurable
<1>2. Shape /\ AcceptedIsDurable /\ [ChannelNext]_allVars => AcceptedIsDurable'
  <2> SUFFICES ASSUME Shape, AcceptedIsDurable, [ChannelNext]_allVars,
                      ~dynamic', flush', append'
               PROVE  accepted' \subseteq TextsIn(DOMAIN disk)'
    BY DEF AcceptedIsDurable
  <2>0. ChannelTypeOK
    BY DEF Shape
  <2>1. UNCHANGED config
    BY DEF ChannelNext, Construct, ClearStep, ClearThrows, Constructed, Write, BufferFull,
           EndOfRun, allVars, channelVars
  <2>2. /\ ~dynamic /\ flush /\ append
        /\ accepted \subseteq TextsIn(DOMAIN disk)
    BY <2>1 DEF config, AcceptedIsDurable
  <2>3. ASSUME UNCHANGED <<disk, accepted>> PROVE accepted' \subseteq TextsIn(DOMAIN disk)'
    BY <2>2, <2>3 DEF TextsIn
  <2>4. CASE Construct \/ ClearThrows \/ Constructed
    BY <2>3, <2>4 DEF Construct, ClearThrows, Constructed
  <2>5. CASE ClearStep
    <3> DEFINE gone == present \ present'
    <3>1. /\ disk' = [f \in DOMAIN disk \ gone |-> disk[f]]
          /\ accepted' = accepted \ TextsIn(gone)
      BY <2>5 DEF ClearStep
    <3> HIDE DEF gone
    <3>2. ASSUME NEW t \in accepted' PROVE t \in TextsIn(DOMAIN disk)'
      <4>1. PICK f \in DOMAIN disk : \E k \in DOMAIN disk[f] : t = disk[f][k].text
        BY <2>2, <3>1, <3>2 DEF TextsIn
      <4>2. f \notin gone
        BY <3>1, <3>2, <4>1 DEF TextsIn
      <4>3. f \in DOMAIN disk' /\ disk'[f] = disk[f]
        BY <3>1, <4>2
      <4> QED
        BY <4>1, <4>3 DEF TextsIn
    <3> QED
      BY <3>2
  <2>6. ASSUME NEW o \in Options \union {None}, Write(o)
        PROVE  accepted' \subseteq TextsIn(DOMAIN disk)'
    BY <2>0, <2>2, <2>6, WriteIsDurable
  <2>7. CASE BufferFull \/ EndOfRun
    BY <2>0, <2>2, <2>7, DrainedTextsStay DEF BufferFull, EndOfRun
  <2>8. CASE UNCHANGED channelVars
    BY <2>3, <2>8 DEF channelVars
  <2> QED
    BY <2>4, <2>5, <2>6, <2>7, <2>8 DEF ChannelNext, allVars
<1> QED
  BY <1>1, <1>2, ShapeAtStart, ShapeIsKept, PTL DEF ChannelSpec
-----------------------------------------------------------------------------
(* The name of a static channel is stamped once in a run. *)
LEMMA WriteNames ==
    ASSUME TypeOK, ChannelTypeOK, NameFollowsStream, ~dynamic, program # "off",
           NEW o \in Options \union {None}, Write(o)
    PROVE  /\ name'.opt = None
           /\ stream = "none" => name'.stamps = IF stamp THEN <<clock>> ELSE <<>>
           /\ stream # "none" => name' = name
           /\ LineGoes(o) => DOMAIN disk' = DOMAIN disk \union {name'}
           /\ LineGoes(o) => stream' \in {"open", "bad"}
<1>1. (NothingWritten \/ LineGoes(o)) /\ NameAfter(o) /\ name \in Names
  BY WriteEffect DEF ChannelTypeOK
<1>2. name' = IF stream = "none" THEN Stamped(name) ELSE name
  BY <1>1 DEF NameAfter
<1>3. CASE stream = "none"
  <2>1. name'.opt = name.opt /\ name'.stamps = IF stamp THEN Append(name.stamps, clock) ELSE name.stamps
    BY <1>1, <1>2, <1>3, StampIs
  <2>2. name.opt = None /\ name.stamps = <<>>
    BY <1>3 DEF NameFollowsStream
  <2>3. Append(<<>>, clock) = <<clock>>
    OBVIOUS
  <2> QED
    BY <1>3, <2>1, <2>2, <2>3 DEF LineGoes, WrittenToFile, LostByDynamic, WrittenToBuffer,
                                  StreamFails, Put
<1>4. CASE stream # "none"
  BY <1>2, <1>4 DEF NameFollowsStream, LineGoes, WrittenToFile, LostByDynamic, WrittenToBuffer,
                    StreamFails, Put
<1> QED
  BY <1>3, <1>4

(* A drained buffer goes to a file that exists. *)
LEMMA DrainedFiles ==
    ASSUME Stages, ChannelTypeOK, NameFollowsStream, disk' \in {disk, Drained}
    PROVE  DOMAIN disk' = DOMAIN disk
<1>1. CASE buffer = <<>>
  BY <1>1 DEF Drained
<1>2. CASE buffer # <<>>
  <2>1. name \in DOMAIN disk
    BY <1>2 DEF Stages, NameFollowsStream, ChannelTypeOK
  <2> QED
    BY <2>1 DEF Drained, Put
<1> QED
  BY <1>1, <1>2

LEMMA NamesAreKept ==
    ASSUME TypeOK, ChannelTypeOK, Stages, NameFollowsStream, [ChannelNext]_allVars
    PROVE  NameFollowsStream'
<1>1. ASSUME UNCHANGED <<config, name, stream>>, program' = "off" \/ program # "off",
             stream \in {"open", "bad"} => DOMAIN disk' = DOMAIN disk
      PROVE  NameFollowsStream'
  BY <1>1 DEF NameFollowsStream, config
<1>2. CASE Construct
  <2>1. UNCHANGED <<config, stream>> /\ name' = Template /\ stream = "none"
    BY <1>2 DEF Construct, Stages
  <2> QED
    BY <2>1, TemplateTyped DEF NameFollowsStream, config
<1>3. CASE ClearStep
  BY <1>1, <1>3 DEF ClearStep, Stages, output
<1>4. CASE ClearThrows \/ Constructed
  BY <1>1, <1>4 DEF ClearThrows, Constructed, output
<1>5. ASSUME NEW o \in Options \union {None}, Write(o) PROVE NameFollowsStream'
  <2> SUFFICES ASSUME ~dynamic PROVE NameFollowsStream'
    BY <1>5 DEF Write, config, NameFollowsStream
  <2>1. /\ UNCHANGED <<config, program>> /\ program = "running"
        /\ NothingWritten \/ LineGoes(o)
        /\ stream' \in {"none", "open", "bad", "dead"}
    BY <1>5, WriteEffect, ChannelTypeIsKept DEF Write, Running, ChannelNext, ChannelTypeOK
  <2>2. /\ name'.opt = None
        /\ stream = "none" => name'.stamps = IF stamp THEN <<clock>> ELSE <<>>
        /\ stream # "none" => name' = name
        /\ LineGoes(o) => DOMAIN disk' = DOMAIN disk \union {name'}
        /\ LineGoes(o) => stream' \in {"open", "bad"}
    BY <1>5, <2>1, WriteNames
  <2>3. Len(<<clock>>) = 1 /\ Len(<<>>) = 0
    OBVIOUS
  <2>4. stream = "none" => stream' \in {"open", "bad", "dead", "none"}
    BY <2>1
  <2>5. CASE LineGoes(o)
    BY <2>1, <2>2, <2>3, <2>5 DEF NameFollowsStream, config
  <2>6. CASE NothingWritten
    BY <2>1, <2>2, <2>3, <2>6 DEF NameFollowsStream, config, NothingWritten, Fails
  <2> QED
    BY <2>1, <2>5, <2>6
<1>6. CASE BufferFull
  <2>1. /\ UNCHANGED <<config, name, stream, program>> /\ disk' = Drained
        /\ program # "off"
    BY <1>6 DEF BufferFull, Stages
  <2> QED
    BY <1>1, <2>1, DrainedFiles
<1>7. CASE EndOfRun
  BY <1>7 DEF EndOfRun, NameFollowsStream, config
<1>8. CASE UNCHANGED channelVars
  BY <1>8 DEF channelVars, output, config, NameFollowsStream
<1> QED
  BY <1>2, <1>3, <1>4, <1>5, <1>6, <1>7, <1>8 DEF ChannelNext, allVars
-----------------------------------------------------------------------------
(* The texts of lines that are put together.                                  *)
LEMMA TextsOfFile ==
    ASSUME NEW f \in DOMAIN disk
    PROVE  TextsIn({f}) = Texts(disk[f]) /\ Texts(Lines(f)) = Texts(disk[f])
BY DEF TextsIn, Texts, Lines

LEMMA NoTexts == Texts(<<>>) = {}
BY DEF Texts

LEMMA TextsOfAppend ==
    ASSUME NEW s \in Seq(Line), NEW l \in Line
    PROVE  Texts(Append(s, l)) = Texts(s) \union {l.text}
<1>1. /\ Len(s) \in Nat /\ DOMAIN s = 1 .. Len(s) /\ DOMAIN Append(s, l) = 1 .. Len(s) + 1
      /\ \A k \in 1 .. Len(s) : Append(s, l)[k] = s[k]
      /\ Append(s, l)[Len(s) + 1] = l
  BY AppendProperties
<1> DEFINE u == Append(s, l)
<1> HIDE DEF u
<1>2. ASSUME NEW t \in Texts(u) PROVE t \in Texts(s) \union {l.text}
  <2>1. PICK k \in DOMAIN u : t = u[k].text
    BY <1>2 DEF Texts
  <2>2. k \in 1 .. Len(s) \/ k = Len(s) + 1
    BY <1>1, <2>1 DEF u
  <2> QED
    BY <1>1, <2>1, <2>2 DEF u, Texts
<1>3. ASSUME NEW t \in Texts(s) PROVE t \in Texts(u)
  <2>1. PICK k \in 1 .. Len(s) : t = s[k].text
    BY <1>1, <1>3 DEF Texts
  <2>2. k \in DOMAIN u /\ u[k] = s[k]
    BY <1>1, <2>1 DEF u
  <2> QED
    BY <2>1, <2>2 DEF Texts
<1>4. l.text \in Texts(u)
  BY <1>1 DEF u, Texts
<1> QED
  BY <1>2, <1>3, <1>4 DEF u

LEMMA TextsOfConcat ==
    ASSUME NEW s \in Seq(Line), NEW r \in Seq(Line)
    PROVE  Texts(s \o r) = Texts(s) \union Texts(r)
<1>1. /\ Len(s) \in Nat /\ DOMAIN s = 1 .. Len(s) /\ Len(r) \in Nat /\ DOMAIN r = 1 .. Len(r)
      /\ DOMAIN (s \o r) = 1 .. Len(s) + Len(r)
      /\ \A k \in 1 .. Len(s) + Len(r) :
            (s \o r)[k] = IF k <= Len(s) THEN s[k] ELSE r[k - Len(s)]
  BY ConcatProperties
<1> DEFINE u == s \o r
<1> HIDE DEF u
<1>2. ASSUME NEW t \in Texts(u) PROVE t \in Texts(s) \union Texts(r)
  <2>1. PICK k \in 1 .. Len(s) + Len(r) : t = u[k].text
    BY <1>1, <1>2 DEF Texts, u
  <2>2. CASE k <= Len(s)
    BY <1>1, <2>1, <2>2 DEF u, Texts
  <2>3. CASE k > Len(s)
    <3>1. k - Len(s) \in DOMAIN r /\ u[k] = r[k - Len(s)]
      BY <1>1, <2>1, <2>3 DEF u
    <3> QED
      BY <2>1, <3>1 DEF Texts
  <2> QED
    BY <1>1, <2>1, <2>2, <2>3
<1>3. ASSUME NEW t \in Texts(s) PROVE t \in Texts(u)
  <2>1. PICK k \in 1 .. Len(s) : t = s[k].text
    BY <1>1, <1>3 DEF Texts
  <2>2. k \in DOMAIN u /\ u[k] = s[k]
    BY <1>1, <2>1 DEF u
  <2> QED
    BY <2>1, <2>2 DEF Texts
<1>4. ASSUME NEW t \in Texts(r) PROVE t \in Texts(u)
  <2>1. PICK k \in 1 .. Len(r) : t = r[k].text
    BY <1>1, <1>4 DEF Texts
  <2>2. Len(s) + k \in DOMAIN u /\ u[Len(s) + k] = r[k]
    BY <1>1, <2>1 DEF u
  <2> QED
    BY <2>1, <2>2 DEF Texts
<1> QED
  BY <1>2, <1>3, <1>4 DEF u

(* What Put changes in the texts of the files. *)
LEMMA PutTexts ==
    ASSUME ChannelTypeOK, NEW f, NEW lines \in Seq(Line), disk' = Put(f, lines)
    PROVE  /\ f \in DOMAIN disk' /\ Texts(disk'[f]) = Texts(lines)
           /\ \A g \in DOMAIN disk' : g # f => g \in DOMAIN disk /\ Texts(disk'[g]) = Texts(disk[g])
<1>1. DOMAIN disk' = DOMAIN disk \union {f} /\ disk'[f] = lines
  BY PutIs
<1>2. \A g \in DOMAIN disk : g # f => disk'[g] = disk[g]
  BY PutIs
<1> QED
  BY <1>1, <1>2

(* A message is written behind nothing, or behind what its file holds.        *)
LEMMA OldTexts ==
    ASSUME NEW f
    PROVE  \/ Texts(Old(f)) = {}
           \/ f \in DOMAIN disk /\ Texts(Old(f)) = Texts(disk[f])
<1>1. Old(f) = <<>> \/ (f \in DOMAIN disk /\ Old(f) = disk[f])
  BY DEF Old, Opened, Lines
<1> QED
  BY <1>1, NoTexts
-----------------------------------------------------------------------------
(* What a message adds to the texts of its file and of the buffer.            *)
Added(o) ==
    /\ name' \in DOMAIN disk'
    /\ \A g \in DOMAIN disk' : g # name' => g \in DOMAIN disk /\ Texts(disk'[g]) = Texts(disk[g])
    /\ accepted' \subseteq accepted \union {writes + 1}
    /\ \/ /\ Texts(disk'[name']) = Texts(Old(name')) \union {writes + 1}
          /\ buffer' = buffer
          /\ ~dynamic => flush
       \/ /\ Texts(disk'[name']) = Texts(Old(name'))
          /\ Texts(buffer') = Texts(buffer) \union {writes + 1}
          /\ accepted' = accepted \/ stream' = "open"
       \/ /\ Texts(disk'[name']) = Texts(Old(name'))
          /\ ~dynamic => stream' = "bad" /\ accepted' = accepted
          /\ buffer' = <<>> \/ (dynamic /\ buffer' = buffer)

LEMMA LineIsAdded ==
    ASSUME ChannelTypeOK, NEW o \in Options \union {None}, LineGoes(o)
    PROVE  Added(o)
<1>1. NextLine(o) \in Line /\ buffer \in Seq(Line) /\ Old(name') \in Seq(Line)
  BY NextLineTyped, OldTyped DEF ChannelTypeOK
<1>2. NextLine(o).text = writes + 1
  BY DEF NextLine
<1>3. <<NextLine(o)>> \in Seq(Line) /\ Texts(<<NextLine(o)>>) = {writes + 1}
  <2>1. <<NextLine(o)>> = Append(<<>>, NextLine(o)) /\ <<>> \in Seq(Line)
    BY EmptySeq
  <2>2. Texts(<<NextLine(o)>>) = Texts(<<>>) \union {writes + 1}
    BY <1>1, <1>2, <2>1, TextsOfAppend
  <2> QED
    BY <1>1, <2>2, NoTexts
<1>4. Texts(Append(buffer, NextLine(o))) = Texts(buffer) \union {writes + 1}
  BY <1>1, <1>2, TextsOfAppend
<1>5. ASSUME disk' = Put(name', Old(name'))
      PROVE  /\ name' \in DOMAIN disk' /\ Texts(disk'[name']) = Texts(Old(name'))
             /\ \A g \in DOMAIN disk' : g # name' => g \in DOMAIN disk /\ Texts(disk'[g]) = Texts(disk[g])
  <2> DEFINE f == name'
             lines == Old(f)
  <2>1. lines \in Seq(Line) /\ disk' = Put(f, lines)
    BY <1>1, <1>5
  <2> HIDE DEF f, lines
  <2>2. /\ f \in DOMAIN disk' /\ Texts(disk'[f]) = Texts(lines)
        /\ \A g \in DOMAIN disk' : g # f => g \in DOMAIN disk /\ Texts(disk'[g]) = Texts(disk[g])
    BY <2>1, PutTexts
  <2> QED
    BY <2>2 DEF f, lines
<1>6. CASE WrittenToFile(o)
  <2> DEFINE f == name'
             lines == Old(f) \o <<NextLine(o)>>
  <2>1. /\ lines \in Seq(Line) /\ Texts(lines) = Texts(Old(f)) \union {writes + 1}
        /\ disk' = Put(f, lines)
    BY <1>1, <1>3, <1>6, TextsOfConcat, ConcatProperties DEF WrittenToFile
  <2> HIDE DEF f, lines
  <2>2. /\ f \in DOMAIN disk' /\ Texts(disk'[f]) = Texts(lines)
        /\ \A g \in DOMAIN disk' : g # f => g \in DOMAIN disk /\ Texts(disk'[g]) = Texts(disk[g])
    BY <2>1, PutTexts
  <2> QED
    BY <1>6, <2>1, <2>2 DEF f, Added, WrittenToFile
<1>7. CASE LostByDynamic(o)
  <2>1. dynamic /\ disk' = Put(name', Old(name')) /\ buffer' = buffer
        /\ accepted' = accepted \union {writes + 1}
    BY <1>7 DEF LostByDynamic
  <2> QED
    BY <1>5, <2>1 DEF Added
<1>8. CASE WrittenToBuffer(o)
  <2>1. /\ disk' = Put(name', Old(name')) /\ stream' = "open"
        /\ accepted' = accepted \union {writes + 1}
        /\ Texts(buffer') = Texts(buffer) \union {writes + 1}
    BY <1>4, <1>8 DEF WrittenToBuffer
  <2> QED
    BY <1>5, <2>1 DEF Added
<1>9. CASE StreamFails(o)
  <2>1. /\ disk' = Put(name', Old(name')) /\ stream' = "bad" /\ accepted' = accepted
        /\ buffer' = <<>> \/ Texts(buffer') = Texts(buffer) \union {writes + 1}
    BY <1>4, <1>9 DEF StreamFails
  <2> QED
    BY <1>5, <2>1 DEF Added
<1> QED
  BY <1>6, <1>7, <1>8, <1>9 DEF LineGoes

(* What is drained goes behind what the file holds. *)
LEMMA DrainedTexts ==
    ASSUME ChannelTypeOK, buffer # <<>>, name \in DOMAIN disk, disk' = Drained
    PROVE  /\ DOMAIN disk' = DOMAIN disk
           /\ Texts(disk'[name]) = Texts(disk[name]) \union Texts(buffer)
           /\ \A g \in DOMAIN disk : g # name => Texts(disk'[g]) = Texts(disk[g])
<1> DEFINE lines == Lines(name) \o buffer
<1>1. Lines(name) \in Seq(Line) /\ buffer \in Seq(Line) /\ Lines(name) = disk[name]
  BY LinesTyped DEF ChannelTypeOK, Lines
<1>2. lines \in Seq(Line) /\ Texts(lines) = Texts(disk[name]) \union Texts(buffer)
  BY <1>1, TextsOfConcat, ConcatProperties
<1>3. disk' = Put(name, lines)
  BY DEF Drained
<1> HIDE DEF lines
<1>4. /\ DOMAIN disk' = DOMAIN disk \union {name} /\ disk'[name] = lines
      /\ \A g \in DOMAIN disk : g # name => disk'[g] = disk[g]
  BY <1>2, <1>3, PutIs
<1> QED
  BY <1>2, <1>4

(* Messages keep their numbers. *)
LEMMA NumbersAreKept ==
    ASSUME ChannelTypeOK, Stages, NameFollowsStream, Numbered, [ChannelNext]_allVars
    PROVE  Numbered'
<1>0. writes \in Nat /\ Begun \in Nat /\ 0 .. writes \subseteq 0 .. writes + 1
      /\ 1 .. writes \subseteq 1 .. writes + 1 /\ writes + 1 \in 1 .. writes + 1
  BY DEF ChannelTypeOK, Numbered
<1>1. ASSUME UNCHANGED <<runs, disk, buffer, writes, accepted>> PROVE Numbered'
  BY <1>1 DEF Numbered, Begun
<1>2. CASE Construct
  <2>1. UNCHANGED <<disk, buffer, writes, accepted>> /\ runs' = Append(runs, writes)
    BY <1>2 DEF Construct
  <2>2. /\ Len(runs) \in Nat /\ runs' \in Seq(Nat) /\ Len(runs') = Len(runs) + 1
        /\ runs'[Len(runs) + 1] = writes /\ runs' # <<>>
        /\ \A j \in 1 .. Len(runs) : runs'[j] = runs[j]
        /\ DOMAIN runs = 1 .. Len(runs) /\ DOMAIN runs' = 1 .. Len(runs) + 1
    BY <1>0, <2>1, AppendProperties DEF Numbered
  <2>3. Begun' = writes
    BY <2>2 DEF Begun
  <2>4. \A j \in DOMAIN runs' : runs'[j] <= writes
    <3> SUFFICES ASSUME NEW j \in 1 .. Len(runs) + 1 PROVE runs'[j] <= writes
      BY <2>2
    <3>1. CASE j \in 1 .. Len(runs)
      <4>1. runs[j] \in Nat /\ runs'[j] = runs[j]
        BY <2>2, <3>1 DEF Numbered
      <4>2. runs[j] <= Begun /\ Begun \in 0 .. writes
        BY <2>2, <3>1 DEF Numbered
      <4> QED
        BY <1>0, <4>1, <4>2
    <3>2. CASE j = Len(runs) + 1
      BY <1>0, <2>2, <3>2
    <3> QED
      BY <2>2, <3>1, <3>2
  <2> QED
    BY <1>0, <2>1, <2>2, <2>3, <2>4 DEF Numbered
<1>3. CASE ClearStep
  <2>1. /\ UNCHANGED <<runs, buffer, writes>> /\ accepted' \subseteq accepted
        /\ disk' = [f \in DOMAIN disk \ (present \ present') |-> disk[f]]
    BY <1>3 DEF ClearStep, output
  <2> QED
    BY <2>1 DEF Numbered, Begun
<1>4. CASE ClearThrows \/ Constructed
  BY <1>1, <1>4 DEF ClearThrows, Constructed, output
<1>5. ASSUME NEW o \in Options \union {None}, Write(o) PROVE Numbered'
  <2>1. NothingWritten \/ LineGoes(o)
    BY <1>5, WriteEffect
  <2>2. UNCHANGED runs /\ writes' = writes + 1
    BY <1>5 DEF Write
  <2>3. /\ runs' \in Seq(Nat) /\ Begun' \in 0 .. writes'
        /\ \A j \in DOMAIN runs' : runs'[j] <= Begun'
    BY <1>0, <2>2 DEF Numbered, Begun
  <2>4. CASE NothingWritten
    <3>1. UNCHANGED <<disk, buffer, accepted>>
      BY <2>4 DEF NothingWritten, Fails
    <3> QED
      BY <1>0, <2>2, <2>3, <3>1 DEF Numbered
  <2>5. CASE Added(o)
    <3>1. /\ Texts(Old(name')) \subseteq 1 .. writes /\ Texts(buffer) \subseteq 1 .. writes
          /\ accepted \subseteq 1 .. writes
      BY OldTexts DEF Numbered
    <3>2. accepted' \subseteq 1 .. writes'
      BY <1>0, <2>2, <2>5, <3>1 DEF Added
    <3>3. Texts(buffer') \subseteq 1 .. writes'
      BY <1>0, <2>2, <2>5, <3>1, NoTexts DEF Added
    <3>4. Texts(disk'[name']) \subseteq 1 .. writes'
      BY <1>0, <2>2, <2>5, <3>1 DEF Added
    <3>5. ASSUME NEW g \in DOMAIN disk', g # name' PROVE Texts(disk'[g]) \subseteq 1 .. writes'
      BY <1>0, <2>2, <2>5, <3>5 DEF Added, Numbered
    <3> QED
      BY <2>3, <3>2, <3>3, <3>4, <3>5 DEF Numbered
  <2> QED
    BY <2>1, <2>4, <2>5, LineIsAdded
<1>6. CASE BufferFull \/ EndOfRun
  <2>1. /\ UNCHANGED <<runs, writes, accepted>> /\ disk' \in {disk, Drained} /\ buffer' = <<>>
    BY <1>6 DEF BufferFull, EndOfRun
  <2>2. \A f \in DOMAIN disk' : Texts(disk'[f]) \subseteq 1 .. writes
    <3>1. CASE disk' = disk
      BY <3>1 DEF Numbered
    <3>2. CASE buffer # <<>> /\ disk' = Drained
      <4>1. name \in DOMAIN disk
        BY <3>2 DEF Stages, NameFollowsStream, ChannelTypeOK
      <4> QED
        BY <3>2, <4>1, DrainedTexts DEF Numbered
    <3> QED
      BY <2>1, <3>1, <3>2 DEF Drained
  <2>3. Texts(buffer') = {}
    BY <2>1, NoTexts
  <2> QED
    BY <2>1, <2>2, <2>3 DEF Numbered, Begun
<1>7. CASE UNCHANGED channelVars
  BY <1>1, <1>7 DEF channelVars, output
<1> QED
  BY <1>2, <1>3, <1>4, <1>5, <1>6, <1>7 DEF ChannelNext, allVars
-----------------------------------------------------------------------------
(* No file lacks a message that it holds a later one of the same run of.      *)
HasNoGap(f) ==
    \A n \in accepted \intersect Texts(disk[f]), m \in accepted :
        m < n /\ SameRun(m, n) => m \in Texts(disk[f])

LEMMA GapsOfFiles ==
    /\ OnlyTheTailIsLost <=> (~dynamic => \A f \in DOMAIN disk : HasNoGap(f))
    /\ OnlyTheTailIsLost' <=> (~dynamic' => \A f \in DOMAIN disk' : HasNoGap(f)')
<1>1. \A f \in DOMAIN disk' : TextsIn({f})' = Texts(disk'[f])
  BY DEF TextsIn, Texts
<1> QED
  BY <1>1, TextsOfFile DEF OnlyTheTailIsLost, HasNoGap

(* Messages of one run: none is from before the last run if a later one is not. *)
LEMMA RunsAreApart ==
    ASSUME Numbered, NEW m \in Nat \ {0}, NEW n \in Nat, SameRun(m, n), n > Begun
    PROVE  m > Begun
<1>1. Begun \in Nat
  BY DEF Numbered
<1>2. CASE runs = <<>>
  BY <1>2 DEF Begun
<1>3. CASE runs # <<>>
  <2>1. Len(runs) \in DOMAIN runs /\ Begun = runs[Len(runs)]
    BY <1>3 DEF Numbered, Begun
  <2> QED
    BY <1>1, <2>1 DEF SameRun
<1> QED
  BY <1>2, <1>3

(* A static channel's message: where it goes, and that nothing is missing     *)
(* before it.                                                                 *)
LEMMA WriteLeavesNoGap ==
    ASSUME ChannelTypeOK, Stages, NameFollowsStream, Numbered, Kept, ~dynamic,
           \A f \in DOMAIN disk : HasNoGap(f), program # "off",
           NEW o \in Options \union {None}, LineGoes(o), NameAfter(o), runs' = runs,
           NEW f \in DOMAIN disk'
    PROVE  HasNoGap(f)'
<1>1. writes \in Nat /\ Begun \in 0 .. writes /\ accepted \subseteq 1 .. writes /\ Added(o)
  BY LineIsAdded DEF ChannelTypeOK, Numbered
<1>2. \A m, n : SameRun(m, n)' <=> SameRun(m, n)
  BY DEF SameRun
<1> SUFFICES ASSUME NEW n \in accepted' \intersect Texts(disk'[f]), NEW m \in accepted',
                    m < n, SameRun(m, n)
             PROVE  m \in Texts(disk'[f])
  BY <1>2 DEF HasNoGap
<1>3. /\ n \in accepted \/ n = writes + 1
      /\ m \in accepted \/ m = writes + 1
  BY <1>1 DEF Added
<1>4. m \in accepted /\ m \in 1 .. writes
  <2>1. /\ n \in 1 .. writes \/ n = writes + 1
        /\ m \in 1 .. writes \/ m = writes + 1
    BY <1>1, <1>3
  <2>2. writes \in Nat
    BY <1>1
  <2>3. m \in 1 .. writes
    BY <2>1, <2>2
  <2>4. m # writes + 1
    BY <2>2, <2>3
  <2> QED
    BY <1>3, <2>3, <2>4
<1>5. \A g \in DOMAIN disk : n \in accepted /\ n \in Texts(disk[g]) => m \in Texts(disk[g])
  BY <1>4 DEF HasNoGap
<1>6. CASE f # name'
  <2>1. f \in DOMAIN disk /\ Texts(disk'[f]) = Texts(disk[f])
    BY <1>1, <1>6 DEF Added
  <2>2. n \in 1 .. writes
    BY <2>1 DEF Numbered
  <2> QED
    BY <1>1, <1>3, <1>5, <2>1, <2>2
<1>7. CASE f = name' /\ n \in Texts(Old(name'))
  <2>1. Texts(Old(name')) \subseteq Texts(disk'[f])
    BY <1>1, <1>7 DEF Added
  <2>2. name' \in DOMAIN disk /\ Texts(Old(name')) = Texts(disk[name'])
    BY <1>7, OldTexts
  <2>3. n \in 1 .. writes
    BY <1>7, <2>2 DEF Numbered
  <2>4. n \in accepted
    BY <1>1, <1>3, <2>3
  <2> QED
    BY <1>5, <1>7, <2>1, <2>2, <2>4
<1>8. CASE f = name' /\ n \notin Texts(Old(name'))
  <2>1. n = writes + 1 /\ Texts(disk'[f]) = Texts(Old(name')) \union {writes + 1} /\ flush
    BY <1>1, <1>8 DEF Added
  <2>2. m > Begun
    <3>1. n \in Nat /\ n > Begun /\ m \in Nat \ {0}
      BY <1>1, <1>4, <2>1
    <3> QED
      BY <3>1, RunsAreApart
  <2>3. stream # "none"
    <3> SUFFICES ASSUME stream = "none" PROVE FALSE
      OBVIOUS
    <3>1. m <= Begun
      BY <1>4 DEF Kept
    <3> QED
      BY <1>1, <1>4, <2>2, <3>1
  <2>4. stream = "open"
    BY <2>3 DEF LineGoes
  <2>5. name' = name /\ Old(name') = Lines(name)
    BY <2>4 DEF NameAfter, Old
  <2>6. Texts(buffer) = {}
    BY <2>1, <2>4, NoTexts DEF Stages
  <2>7. m \in Texts(Lines(name)) \union Texts(buffer)
    BY <1>4, <2>2, <2>4 DEF Kept
  <2> QED
    BY <2>1, <2>5, <2>6, <2>7
<1> QED
  BY <1>6, <1>7, <1>8

(* And what was accepted in this run is still where it was.                   *)
LEMMA WriteKeeps ==
    ASSUME ChannelTypeOK, Stages, NameFollowsStream, Numbered, Kept, ~dynamic, program # "off",
           NEW o \in Options \union {None}, Write(o)
    PROVE  Kept'
<1>1. /\ NothingWritten \/ LineGoes(o)
      /\ NameAfter(o) /\ UNCHANGED <<config, program, runs>>
      /\ writes \in Nat /\ Begun \in 0 .. writes /\ accepted \subseteq 1 .. writes
  BY WriteEffect DEF Write, ChannelTypeOK, Numbered
<1>2. Begun' = Begun
  BY <1>1 DEF Begun
<1>3. CASE NothingWritten
  <2>1. UNCHANGED <<disk, buffer, accepted>> /\ stream' # "none"
        /\ (stream' = stream \/ stream' = "dead")
    BY <1>3 DEF NothingWritten, Fails
  <2>2. CASE stream = "none"
    <3>1. buffer = <<>> /\ stream' = "dead"
      BY <2>1, <2>2 DEF Stages
    <3> QED
      BY <2>1, <3>1, NoTexts DEF Kept
  <2>3. CASE stream # "none"
    <3>1. name' = name
      BY <1>1, <2>3 DEF NameAfter
    <3>2. Lines(name)' = Lines(name)
      BY <2>1, <3>1 DEF Lines
    <3>3. stream' = "open" => stream = "open"
      BY <2>1
    <3> QED
      BY <1>2, <2>1, <3>2, <3>3 DEF Kept
  <2> QED
    BY <2>2, <2>3
<1>4. CASE LineGoes(o)
  <2>1. Added(o) /\ name' \in DOMAIN disk' /\ stream' \in {"open", "bad"}
    BY <1>4, LineIsAdded DEF Added, LineGoes, WrittenToFile, LostByDynamic, WrittenToBuffer, StreamFails
  <2>2. Texts(Lines(name)') = Texts(disk'[name'])
    BY <2>1 DEF Lines
  <2>3. stream \in {"none", "open"}
    BY <1>4 DEF LineGoes
  <2>4. stream = "none" => Texts(buffer) = {} /\ \A m \in accepted : m <= Begun
    BY NoTexts DEF Stages, Kept
  <2>5. stream = "open" => name' = name /\ Old(name') = Lines(name)
    BY <1>1 DEF NameAfter, Old
  <2>6. ASSUME NEW m \in accepted, m > Begun
        PROVE  m \in Texts(Old(name')) \union Texts(buffer)
    <3>1. stream # "none"
      BY <1>1, <2>4, <2>6
    <3> QED
      BY <2>3, <2>5, <2>6, <3>1 DEF Kept
  <2>7. \A m \in Texts(buffer) : m > Begun
    BY DEF Kept
  <2>8. \A m \in Texts(buffer') : m > Begun
    BY <1>1, <2>1, <2>7, NoTexts DEF Added
  <2>9. ASSUME stream' = "open" \/ buffer' # <<>>, NEW m \in accepted', m > Begun
        PROVE  m \in Texts(disk'[name']) \union Texts(buffer')
    <3>1. m \in accepted \/ m = writes + 1
      BY <2>1 DEF Added
    <3>2. CASE m \in accepted
      BY <2>1, <2>6, <2>9, <3>2 DEF Added
    <3>3. CASE m = writes + 1
      BY <1>1, <2>1, <2>9, <3>3 DEF Added
    <3> QED
      BY <3>1, <3>2, <3>3
  <2> QED
    BY <1>2, <2>1, <2>2, <2>8, <2>9 DEF Kept
<1> QED
  BY <1>1, <1>3, <1>4

LEMMA GapsStayAway ==
    ASSUME ChannelTypeOK, Stages, NameFollowsStream, Numbered, Kept, OnlyTheTailIsLost,
           [ChannelNext]_allVars
    PROVE  OnlyTheTailIsLost' /\ Kept'
<1>0. UNCHANGED config
  BY DEF ChannelNext, Construct, ClearStep, ClearThrows, Constructed, Write, BufferFull,
         EndOfRun, allVars, channelVars
<1> SUFFICES ASSUME ~dynamic PROVE (\A f \in DOMAIN disk' : HasNoGap(f)') /\ Kept'
  <2>1. dynamic' = dynamic
    BY <1>0 DEF config
  <2>2. OnlyTheTailIsLost' <=> (~dynamic' => \A f \in DOMAIN disk' : HasNoGap(f)')
    BY GapsOfFiles
  <2> QED
    BY <2>1, <2>2 DEF Kept
<1>1. \A f \in DOMAIN disk : HasNoGap(f)
  BY GapsOfFiles
<1>2. writes \in Nat /\ Begun \in 0 .. writes /\ accepted \subseteq 1 .. writes
  BY DEF Numbered, ChannelTypeOK
<1>3. ASSUME UNCHANGED <<disk, accepted, runs>> PROVE \A f \in DOMAIN disk' : HasNoGap(f)'
  BY <1>1, <1>3 DEF HasNoGap, SameRun
<1>4. ASSUME UNCHANGED <<output, disk, accepted, runs>>, program' = "off" \/ program # "off"
      PROVE  Kept'
  BY <1>4 DEF Kept, Begun, Lines, output
<1>5. CASE Construct
  <2>1. /\ UNCHANGED <<stream, buffer, disk, accepted>> /\ runs' = Append(runs, writes)
        /\ stream = "none" /\ buffer = <<>>
    BY <1>5 DEF Construct, Stages
  <2>2. /\ Len(runs) \in Nat /\ Len(runs') = Len(runs) + 1 /\ runs' # <<>>
        /\ runs'[Len(runs) + 1] = writes
        /\ \A j \in 1 .. Len(runs) : runs'[j] = runs[j]
        /\ DOMAIN runs = 1 .. Len(runs) /\ DOMAIN runs' = 1 .. Len(runs) + 1
    BY <1>2, <2>1, AppendProperties DEF Numbered
  <2>3. Begun' = writes
    BY <2>2 DEF Begun
  <2>4. ASSUME NEW m, NEW n, SameRun(m, n)' PROVE SameRun(m, n)
    BY <2>2, <2>4 DEF SameRun
  <2>5. \A f \in DOMAIN disk' : HasNoGap(f)'
    BY <1>1, <2>1, <2>4 DEF HasNoGap
  <2>6. \A m \in accepted' : m <= Begun'
    BY <1>2, <2>1, <2>3
  <2> QED
    BY <2>1, <2>5, <2>6, NoTexts DEF Kept
<1>6. CASE ClearStep
  <2>1. /\ UNCHANGED <<output, program, runs>> /\ accepted' \subseteq accepted
        /\ disk' = [f \in DOMAIN disk \ (present \ present') |-> disk[f]]
        /\ stream = "none" /\ buffer = <<>>
    BY <1>6 DEF ClearStep, Stages
  <2>2. \A f \in DOMAIN disk' : HasNoGap(f)'
    BY <1>1, <2>1 DEF HasNoGap, SameRun
  <2> QED
    BY <2>1, <2>2, NoTexts DEF Kept, Begun, output
<1>7. CASE ClearThrows
  BY <1>3, <1>4, <1>7 DEF ClearThrows
<1>8. CASE Constructed
  BY <1>3, <1>4, <1>8 DEF Constructed
<1>9. ASSUME NEW o \in Options \union {None}, Write(o)
      PROVE  (\A f \in DOMAIN disk' : HasNoGap(f)') /\ Kept'
  <2>1. /\ NothingWritten \/ LineGoes(o)
        /\ NameAfter(o) /\ runs' = runs /\ program # "off"
    BY <1>9, WriteEffect DEF Write, Running
  <2>2. NothingWritten => UNCHANGED <<disk, accepted, runs>>
    BY <2>1 DEF NothingWritten, Fails
  <2>3. \A f \in DOMAIN disk' : HasNoGap(f)'
    BY <1>1, <1>3, <2>1, <2>2, WriteLeavesNoGap
  <2>4. Kept'
    BY <1>9, <2>1, WriteKeeps
  <2> QED
    BY <2>3, <2>4
<1>10. CASE BufferFull \/ EndOfRun
  <2>1. /\ UNCHANGED <<runs, accepted, name>> /\ disk' \in {disk, Drained} /\ buffer' = <<>>
        /\ \/ program' = "off" /\ stream' = "none"
           \/ buffer # <<>> /\ disk' = Drained
    BY <1>10 DEF BufferFull, EndOfRun
  <2>2. Begun' = Begun
    BY <2>1 DEF Begun
  <2>3. CASE buffer # <<>> /\ disk' = Drained
    <3>1. name \in DOMAIN disk
      BY <2>3 DEF Stages, NameFollowsStream, ChannelTypeOK
    <3>2. /\ DOMAIN disk' = DOMAIN disk
          /\ Texts(disk'[name]) = Texts(disk[name]) \union Texts(buffer)
          /\ \A g \in DOMAIN disk : g # name => Texts(disk'[g]) = Texts(disk[g])
      BY <2>3, <3>1, DrainedTexts
    <3>3. \A m \in accepted : m > Begun => m \in Texts(disk'[name])
      BY <2>3, <3>1, <3>2, TextsOfFile DEF Kept
    <3>4. ASSUME NEW f \in DOMAIN disk' PROVE HasNoGap(f)'
      <4> SUFFICES ASSUME NEW n \in accepted \intersect Texts(disk'[f]), NEW m \in accepted,
                          m < n, SameRun(m, n)
                   PROVE  m \in Texts(disk'[f])
        BY <2>1 DEF HasNoGap, SameRun
      <4>1. f \in DOMAIN disk /\ (n \in Texts(disk[f]) => m \in Texts(disk[f]))
        BY <1>1, <3>2 DEF HasNoGap
      <4>2. CASE n \in Texts(disk[f])
        BY <3>2, <4>1, <4>2
      <4>3. CASE n \notin Texts(disk[f])
        <5>1. f = name /\ n \in Texts(buffer)
          BY <3>2, <4>1, <4>3
        <5>2. n > Begun /\ n \in Nat /\ m \in Nat \ {0}
          BY <1>2, <5>1 DEF Kept
        <5>3. m > Begun
          BY <5>2, RunsAreApart
        <5> QED
          BY <3>3, <5>1, <5>3
      <4> QED
        BY <4>2, <4>3
    <3>5. Texts(Lines(name)') = Texts(disk'[name])
      BY <2>1, <3>1, <3>2 DEF Lines
    <3>6. program' # "off" /\ stream' = "none" => program # "off" /\ stream = "none"
      BY <1>10 DEF BufferFull, EndOfRun
    <3>7. Kept'
      BY <2>1, <2>2, <3>3, <3>5, <3>6, NoTexts DEF Kept
    <3> QED
      BY <3>4, <3>7
  <2>4. CASE disk' = disk /\ program' = "off" /\ stream' = "none"
    BY <1>3, <2>1, <2>4, NoTexts DEF Kept
  <2> QED
    BY <2>1, <2>3, <2>4 DEF Drained
<1>11. CASE UNCHANGED channelVars
  BY <1>3, <1>4, <1>11 DEF channelVars
<1> QED
  BY <1>5, <1>6, <1>7, <1>8, <1>9, <1>10, <1>11 DEF ChannelNext, allVars

(* What a file lacks of a run is the end of it, for any number of messages    *)
(* and runs, with and without buffering, whatever fails                       *)
(* (FileChannel.cpp:216-219, 225-226).                                        *)
THEOREM NoLogHasAGap == ChannelSpec => []OnlyTheTailIsLost
<1> DEFINE Inv == NameFollowsStream /\ Numbered /\ Kept /\ OnlyTheTailIsLost
<1>1. ChannelInit => Inv
  <2> SUFFICES ASSUME ChannelInit PROVE Inv
    OBVIOUS
  <2>1. /\ DOMAIN disk = {} /\ accepted = {} /\ buffer = <<>> /\ runs = <<>> /\ writes = 0
        /\ program = "off" /\ stream = "none" /\ name = Template
    BY DEF ChannelInit
  <2>2. NameFollowsStream
    BY <2>1 DEF NameFollowsStream, Template
  <2>3. runs \in Seq(Nat) /\ Begun = 0
    BY <2>1, EmptySeq DEF Begun
  <2>4. Numbered
    BY <2>1, <2>3, NoTexts DEF Numbered
  <2> QED
    BY <2>1, <2>2, <2>4, NoTexts DEF Kept, OnlyTheTailIsLost
<1>2. Shape /\ Inv /\ [ChannelNext]_allVars => Inv'
  BY NamesAreKept, NumbersAreKept, GapsStayAway DEF Shape, IInv
<1>3. Inv => OnlyTheTailIsLost
  OBVIOUS
<1> HIDE DEF Inv
<1> QED
  BY <1>1, <1>2, <1>3, ShapeAtStart, ShapeIsKept, PTL DEF ChannelSpec
-----------------------------------------------------------------------------
(* The files of the directory and those that ClearOldFiles finds.             *)
LEMMA StaticFiles ==
    ASSUME TypeOK, ChannelTypeOK, NameFollowsStream, clears, program # "off",
           NEW o \in Options \union {None}, Write(o)
    PROVE  DOMAIN disk' = DOMAIN disk \/
              /\ stream = "none" /\ stream' \in {"open", "bad"}
              /\ DOMAIN disk' = DOMAIN disk \union {name'}
              /\ name' = IF stamp THEN [opt |-> None, stamps |-> <<clock>>] ELSE Template
<1>1. ~dynamic /\ name \in Names /\ (NothingWritten \/ LineGoes(o))
  BY WriteEffect DEF ChannelTypeOK
<1>2. /\ name'.opt = None
      /\ stream = "none" => name'.stamps = IF stamp THEN <<clock>> ELSE <<>>
      /\ stream # "none" => name' = name
      /\ LineGoes(o) => DOMAIN disk' = DOMAIN disk \union {name'}
      /\ LineGoes(o) => stream' \in {"open", "bad"}
  BY <1>1, WriteNames
<1>3. name' \in Names
  BY <1>1, NameTyped, WriteEffect
<1>4. name' = [opt |-> name'.opt, stamps |-> name'.stamps]
  BY <1>3 DEF Names
<1>5. CASE NothingWritten
  BY <1>5 DEF NothingWritten, Fails
<1>6. CASE LineGoes(o) /\ stream = "open"
  <2>1. name' \in DOMAIN disk
    BY <1>1, <1>2, <1>6 DEF NameFollowsStream
  <2> QED
    BY <1>2, <1>6, <2>1
<1>7. CASE LineGoes(o) /\ stream = "none"
  BY <1>1, <1>2, <1>4, <1>7 DEF Template
<1> QED
  BY <1>1, <1>5, <1>6, <1>7 DEF LineGoes

LEMMA FilesStayFound ==
    ASSUME IInv, ChannelTypeOK, Stages, NameFollowsStream, FilesAreFound, [ChannelNext]_allVars
    PROVE  FilesAreFound'
<1>1. ASSUME UNCHANGED config, DOMAIN disk' = DOMAIN disk, present' = present,
             pc' = "loop" => present \subseteq Listed'
      PROVE  FilesAreFound'
  BY <1>1 DEF FilesAreFound, config, Template
<1>2. ASSUME UNCHANGED retentionVars, UNCHANGED config, DOMAIN disk' = DOMAIN disk
      PROVE  FilesAreFound'
  BY <1>1, <1>2 DEF FilesAreFound, retentionVars, vars, listing, Listed
<1>3. CASE Construct
  <2>1. UNCHANGED <<config, disk>>
    BY <1>3 DEF Construct
  <2>2. CASE Start
    <3>1. present' = present /\ Listed' = present
      BY <2>2 DEF Start, Lists, Listed
    <3> QED
      BY <1>1, <2>1, <3>1
  <2>3. CASE UNCHANGED retentionVars
    BY <1>2, <2>1, <2>3
  <2> QED
    BY <1>3, <2>2, <2>3 DEF Construct
<1>4. CASE ClearStep
  <2>1. /\ UNCHANGED config /\ disk' = [f \in DOMAIN disk \ (present \ present') |-> disk[f]]
        /\ Step
    BY <1>4 DEF ClearStep
  <2>2. present' \subseteq present /\ pc = "loop" /\ Listed' = Listed
    BY <2>1 DEF Step, Remove, listing, Listed
  <2>3. DOMAIN disk' = DOMAIN disk \ (present \ present')
    BY <2>1
  <2>4. present' = DOMAIN disk' \intersect Files
    BY <2>2, <2>3 DEF FilesAreFound
  <2>5. Template' = Template
    BY <2>1 DEF config, Template
  <2> QED
    BY <2>1, <2>2, <2>3, <2>4, <2>5 DEF FilesAreFound, config
<1>5. CASE ClearThrows \/ Constructed
  BY <1>1, <1>5 DEF ClearThrows, Constructed, Throw, Finish
<1>6. ASSUME NEW o \in Options \union {None}, Write(o) PROVE FilesAreFound'
  <2>1. /\ UNCHANGED config /\ program = "running" /\ Template' = Template
        /\ present' = present \union ((DOMAIN disk' \ DOMAIN disk) \intersect Files)
        /\ pc' # "loop"
    BY <1>6 DEF Write, Running, Appears, Stages, config, Template
  <2>2. present' = DOMAIN disk' \intersect Files
    BY <1>6, <2>1, WriteAddsOneFile DEF FilesAreFound
  <2>3. ASSUME clears, stamp PROVE DOMAIN disk' \subseteq Files
    <3>1. clock \in Dates
      BY DEF IInv, TypeOK
    <3>2. [opt |-> None, stamps |-> <<clock>>] \in Files
      <4>1. <<clock>> \in [1 .. 1 -> Dates]
        BY <3>1
      <4>2. <<clock>> \in Stampings
        BY <4>1, SomeStamps DEF Stampings
      <4> QED
        BY <4>2, FileChannelAssumption
    <3> QED
      BY <1>6, <2>1, <2>3, <3>2, StaticFiles DEF FilesAreFound, IInv
  <2>4. ASSUME clears, ~stamp PROVE DOMAIN disk' \subseteq {Template}
    BY <1>6, <2>1, <2>4, StaticFiles DEF FilesAreFound, IInv
  <2> QED
    BY <2>1, <2>2, <2>3, <2>4 DEF FilesAreFound, config
<1>7. CASE BufferFull
  <2>1. UNCHANGED <<retentionVars, config>> /\ disk' = Drained
    BY <1>7 DEF BufferFull
  <2> QED
    BY <1>2, <2>1, DrainedFiles
<1>8. CASE EndOfRun
  <2>1. UNCHANGED <<retentionVars, config>> /\ disk' \in {disk, Drained}
    BY <1>8 DEF EndOfRun
  <2> QED
    BY <1>2, <2>1, DrainedFiles
<1>9. CASE Tick /\ UNCHANGED channelVars
  BY <1>1, <1>9 DEF Tick, channelVars, FilesAreFound, listing, Listed
<1>10. CASE UNCHANGED allVars
  BY <1>2, <1>10 DEF allVars, channelVars
<1> QED
  BY <1>3, <1>4, <1>5, <1>6, <1>7, <1>8, <1>9, <1>10 DEF ChannelNext

(* After a complete loop there are MaxCount files at most. *)
LEMMA LoopLeavesMaxCount ==
    ASSUME IInv, FilesAreFound, Counted, clears, Finish
    PROVE  Cardinality(DOMAIN disk) <= MaxCount
<1>1. MaxCount \in Nat /\ MaxCount >= 1 /\ count \in Nat /\ Excess \in Int /\ Excess <= count - 1
  BY RetentionAssumption DEF IInv, TypeOK, Excess
<1>2. CASE stamp
  <2>1. DOMAIN disk = present /\ present \subseteq Listed
    BY <1>2 DEF FilesAreFound, Finish
  <2> DEFINE first == IF Excess > 0 THEN Excess + 1 ELSE 1
             K == {j \in 1 .. count : order[j] \in present}
             M == [j \in K |-> order[j]]
  <2>2. M \in Surjection(K, present)
    BY <2>1 DEF Surjection, Listed
  <2>3. K \subseteq first .. count
    <3> SUFFICES ASSUME NEW j \in 1 .. count, order[j] \in present PROVE j >= first
      BY <1>1
    <3>1. j > Excess
      BY <1>1 DEF IInv, SoFar, TypeOK, Finish
    <3> QED
      BY <1>1, <3>1
  <2>4. first \in Int /\ IsFiniteSet(first .. count) /\ Cardinality(first .. count) <= MaxCount
    <3>1. first \in Int /\ count - first + 1 <= MaxCount
      BY <1>1 DEF Excess
    <3> HIDE DEF first
    <3>2. /\ IsFiniteSet(first .. count)
          /\ Cardinality(first .. count) = IF first > count THEN 0 ELSE count - first + 1
      <4>1. first \in Int /\ count \in Int
        BY <1>1, <3>1
      <4> QED
        BY <4>1, FS_Interval
    <3> QED
      BY <1>1, <3>1, <3>2
  <2> HIDE DEF first, K, M
  <2>5. IsFiniteSet(K) /\ Cardinality(K) <= Cardinality(first .. count)
    BY <2>3, <2>4, FS_Subset
  <2>6. Cardinality(present) <= Cardinality(K) /\ IsFiniteSet(present)
    BY <2>2, <2>5, FS_Surjection
  <2>7. Cardinality(present) \in Nat /\ Cardinality(K) \in Nat /\ Cardinality(first .. count) \in Nat
    BY <2>4, <2>5, <2>6, FS_CardinalityType
  <2> QED
    BY <1>1, <2>1, <2>4, <2>5, <2>6, <2>7
<1>3. CASE ~stamp
  <2>1. DOMAIN disk \subseteq {Template}
    BY <1>3 DEF FilesAreFound
  <2>2. Cardinality(DOMAIN disk) \in Nat /\ Cardinality(DOMAIN disk) <= 1
    <3>1. IsFiniteSet({Template}) /\ Cardinality({Template}) = 1
      BY FS_Singleton
    <3>2. IsFiniteSet(DOMAIN disk) /\ Cardinality(DOMAIN disk) <= Cardinality({Template})
      BY <2>1, <3>1, FS_Subset
    <3> QED
      BY <3>1, <3>2, FS_CardinalityType
  <2> QED
    BY <1>1, <2>2
<1> QED
  BY <1>2, <1>3

LEMMA CountIsKept ==
    ASSUME IInv, ChannelTypeOK, Stages, NameFollowsStream, FilesAreFound, Counted,
           [ChannelNext]_allVars
    PROVE  Counted'
<1>1. /\ MaxCount \in Nat /\ IsFiniteSet(DOMAIN disk) /\ Cardinality(DOMAIN disk) \in Nat
  BY FS_CardinalityType, RetentionAssumption DEF Counted
<1>2. ASSUME UNCHANGED <<config, stream>>, DOMAIN disk' = DOMAIN disk,
             program' = program \/ program' # "running"
      PROVE  Counted'
  BY <1>2 DEF Counted, config
<1>3. CASE Construct
  <2>1. UNCHANGED config /\ disk' = disk /\ (clears => program' = "starting")
    BY <1>3 DEF Construct
  <2> QED
    BY <2>1 DEF Counted, config
<1>4. CASE ClearStep
  <2>1. UNCHANGED <<config, program>> /\ program = "starting"
    BY <1>4 DEF ClearStep
  <2>2. DOMAIN disk' \subseteq DOMAIN disk
    BY <1>4 DEF ClearStep
  <2>3. /\ IsFiniteSet(DOMAIN disk') /\ Cardinality(DOMAIN disk') <= Cardinality(DOMAIN disk)
        /\ Cardinality(DOMAIN disk') \in Nat
    BY <1>1, <2>2, FS_Subset, FS_CardinalityType
  <2> QED
    BY <1>1, <2>1, <2>3 DEF Counted, config
<1>5. CASE ClearThrows
  BY <1>2, <1>5 DEF ClearThrows, output
<1>6. CASE Constructed
  <2>1. UNCHANGED <<config, disk>> /\ Finish
    BY <1>6 DEF Constructed
  <2>2. clears => Cardinality(DOMAIN disk) <= MaxCount
    BY <2>1, LoopLeavesMaxCount
  <2> QED
    BY <2>1, <2>2 DEF Counted, config
<1>7. ASSUME NEW o \in Options \union {None}, Write(o) PROVE Counted'
  <2>1. UNCHANGED <<config, program>> /\ program = "running" /\ DOMAIN disk' \subseteq DOMAIN disk \union {name'}
    BY <1>7, WriteAddsOneFile DEF Write, Running
  <2>2. IsFiniteSet(DOMAIN disk')
    BY <1>1, <2>1, FS_AddElement, FS_Subset
  <2>3. ASSUME clears
        PROVE  /\ Cardinality(DOMAIN disk') <= MaxCount + 1
               /\ stream' \in {"none", "dead"} => Cardinality(DOMAIN disk') <= MaxCount
    <3>1. CASE DOMAIN disk' = DOMAIN disk
      <4>1. stream' \in {"none", "dead"} => stream \in {"none", "dead"}
        BY <1>7, WriteEffect DEF NothingWritten, LineGoes, WrittenToFile, LostByDynamic,
                                 WrittenToBuffer, StreamFails
      <4> QED
        BY <2>1, <2>3, <3>1, <4>1 DEF Counted
    <3>2. CASE /\ stream = "none" /\ stream' \in {"open", "bad"}
               /\ DOMAIN disk' = DOMAIN disk \union {name'}
      <4>1. Cardinality(DOMAIN disk) <= MaxCount
        BY <2>1, <2>3, <3>2 DEF Counted
      <4>2. Cardinality(DOMAIN disk') <= Cardinality(DOMAIN disk) + 1
        BY <1>1, <3>2, FS_AddElement
      <4>3. Cardinality(DOMAIN disk') \in Nat
        BY <2>2, FS_CardinalityType
      <4> QED
        BY <1>1, <3>2, <4>1, <4>2, <4>3
    <3> QED
      BY <1>7, <2>1, <2>3, <3>1, <3>2, StaticFiles DEF IInv
  <2> QED
    BY <2>1, <2>2, <2>3 DEF Counted, config
<1>8. CASE BufferFull \/ EndOfRun
  <2>1. /\ UNCHANGED config /\ disk' \in {disk, Drained}
        /\ UNCHANGED <<stream, program>> \/ program' = "off"
    BY <1>8 DEF BufferFull, EndOfRun
  <2>2. DOMAIN disk' = DOMAIN disk
    BY <2>1, DrainedFiles
  <2> QED
    BY <2>1, <2>2 DEF Counted, config
<1>9. CASE UNCHANGED channelVars
  BY <1>2, <1>9 DEF channelVars, output
<1> QED
  BY <1>3, <1>4, <1>5, <1>6, <1>7, <1>8, <1>9 DEF ChannelNext, allVars

(* The invariant of the whole channel. *)
LEMMA FilesPartIsKept ==
    Shape /\ NameFollowsStream /\ FilesAreFound /\ Counted /\ [ChannelNext]_allVars
        => NameFollowsStream' /\ FilesAreFound' /\ Counted'
BY NamesAreKept, FilesStayFound, CountIsKept DEF Shape, IInv

(* The directory never holds more than MaxCount files and the one of this     *)
(* run, for any MaxCount and any number of runs, whatever fails, where the    *)
(* names with any number of stamps count as files of the channel              *)
(* (FileChannel.cpp:225-226, 232-238, 262, 289).                              *)
THEOREM FilesStayFew == ChannelSpec => []FewFiles
<1>1. ChannelInit => NameFollowsStream /\ FilesAreFound /\ Counted
  <2> SUFFICES ASSUME ChannelInit PROVE NameFollowsStream /\ FilesAreFound /\ Counted
    OBVIOUS
  <2>1. DOMAIN disk = {} /\ present = {} /\ pc = "idle" /\ program = "off" /\ stream = "none"
    BY DEF ChannelInit, Init
  <2>2. Cardinality(DOMAIN disk) = 0 /\ IsFiniteSet(DOMAIN disk)
    BY <2>1, FS_EmptySet
  <2>3. Template.opt = None \/ dynamic
    BY DEF Template
  <2> QED
    BY <2>1, <2>2, <2>3, RetentionAssumption
       DEF ChannelInit, NameFollowsStream, FilesAreFound, Counted
<1>2. Counted => FewFiles
  BY DEF Counted, FewFiles
<1> QED
  BY <1>1, <1>2, FilesPartIsKept, ShapeAtStart, ShapeIsKept, PTL DEF ChannelSpec
=============================================================================
