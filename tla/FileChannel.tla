----------------------------- MODULE FileChannel -----------------------------
(***************************************************************************)
(* One FileChannel of the logging system (common/Logging/FileChannel.cpp)  *)
(* over several runs of the program: the old files that its constructor    *)
(* removes (LogRetention), the file it opens, the name it gives it, what   *)
(* is buffered in the stream and what is on the disk when the program      *)
(* ends, normally or in a crash.                                           *)
(*                                                                         *)
(* A file name is the option that was formatted into the template (or the  *)
(* placeholder "{}") and the timestamps that were inserted into it.  Files *)
(* are the names that ClearOldFiles looks for: its expression matches one  *)
(* timestamp, and any number of them in a row.                             *)
(***************************************************************************)
EXTENDS LogRetention, Sequences

CONSTANTS Options,      \* the options messages carry (account ids)
          None,         \* a message without option, a name without placeholder
          MaxStamps,    \* bound: timestamps in a name that ClearOldFiles finds
          MaxWrites,    \* bound: messages
          MaxRuns       \* bound: runs of the program

Stampings == UNION {[1 .. n -> Dates] : n \in 1 .. MaxStamps}

ASSUME FileChannelAssumption ==
    /\ None \notin Options /\ "{}" \notin Options
    /\ MaxStamps \in Nat \ {0}
    /\ Files = {[opt |-> None, stamps |-> s] : s \in Stampings}
    /\ MaxWrites \in Nat /\ MaxRuns \in Nat

VARIABLES dynamic,      \* _isDynamicFileName
          append,       \* _isOpenModeAppend
          flush,        \* _isFlush
          stamp,        \* _isAddTimestamp
          clears,       \* there are seven options and a _logsDir
          program,      \* "off", "starting" (in the constructor) or "running"
          name,         \* _fileName
          stream,       \* _logFile: "none", "open", "bad" (open, but failed), "dead" (not open)
          buffer,       \* the lines in the stream's buffer
          disk,         \* every file's lines
          writes,       \* messages so far: the number of a message is its text
          accepted,     \* history: the messages for which Write returned normally
          runs          \* history: how many messages there were before each run

config == <<dynamic, append, flush, stamp, clears>>
output == <<name, stream, buffer>>
channelVars == <<config, program, output, disk, writes, accepted, runs>>
retentionVars == vars
allVars == <<retentionVars, channelVars>>

Template == [opt |-> IF dynamic THEN "{}" ELSE None, stamps |-> <<>>]

Lines(f) == IF f \in DOMAIN disk THEN disk[f] ELSE <<>>

TextsIn(S) == UNION {{disk[f][k].text : k \in DOMAIN disk[f]} : f \in S}

-----------------------------------------------------------------------------
(* What GetFileCreationDate reads back from a name: the moment of its first   *)
(* stamp, provided that the rest of the name has no digits.                   *)
FileCreationDate(f) == f.stamps[1]

(* A template with "{}" and seven options have no channel: the expression     *)
(* that ClearOldFiles makes of it is refused, which ends the program.         *)
ChannelInit ==
    /\ date = [f \in Files |-> FileCreationDate(f)]
    /\ Init
    /\ dynamic \in BOOLEAN /\ append \in BOOLEAN /\ flush \in BOOLEAN /\ stamp \in BOOLEAN
    /\ clears \in BOOLEAN /\ (clears => ~dynamic)
    /\ program = "off"
    /\ name = Template
    /\ stream = "none"
    /\ buffer = <<>>
    /\ disk = <<>>
    /\ writes = 0
    /\ accepted = {}
    /\ runs = <<>>

(* The constructor, up to the loop of ClearOldFiles. *)
Construct ==
    /\ program = "off"
    /\ Len(runs) < MaxRuns
    /\ runs' = Append(runs, writes)
    /\ name' = Template
    /\ IF clears THEN Start /\ program' = "starting"
                 ELSE UNCHANGED retentionVars /\ program' = "running"
    /\ UNCHANGED <<config, stream, buffer, disk, writes, accepted>>

(* The messages of a file that is removed are not owed any longer. *)
ClearStep ==
    /\ program = "starting"
    /\ Step
    /\ LET gone == present \ present'
       IN  /\ disk' = [f \in DOMAIN disk \ gone |-> disk[f]]
           /\ accepted' = accepted \ TextsIn(gone)
    /\ UNCHANGED <<config, program, output, writes, runs>>

(* Nobody catches what fs::remove throws. *)
ClearThrows ==
    /\ program = "starting"
    /\ Throw
    /\ program' = "off"
    /\ UNCHANGED <<config, output, disk, writes, accepted, runs>>

Constructed ==
    /\ program = "starting"
    /\ Finish
    /\ program' = "running"
    /\ UNCHANGED <<config, output, disk, writes, accepted, runs>>

-----------------------------------------------------------------------------
(* fmt::format(_fileName, option): replaces the placeholder, if there is one. *)
Formatted(o) == IF name.opt = "{}" THEN [name EXCEPT !.opt = o] ELSE name

Stamped(n) == IF stamp THEN [n EXCEPT !.stamps = Append(@, clock)] ELSE n

(* What the stream does with the file it opens. *)
Opened(f) == IF append THEN Lines(f) ELSE <<>>

Put(f, lines) == [g \in DOMAIN disk \union {f} |-> IF g = f THEN lines ELSE disk[g]]

FailedStream == "dead"

Fails == UNCHANGED <<disk, buffer, accepted>>

(* A message to a dynamic file: open, write, close; a failed open leaves the  *)
(* stream object behind, and a failed write goes unnoticed.                   *)
WriteDynamic(line) ==
    IF stream = "none"
    THEN LET f == Stamped(Formatted(line.opt))
         IN  /\ name' = f
             /\ \/ /\ stream' = FailedStream
                   /\ Fails
                \/ /\ \E written \in {<<line>>, <<>>} :
                         disk' = Put(f, Opened(f) \o written)
                   /\ accepted' = accepted \union {line.text}
                   /\ UNCHANGED <<stream, buffer>>
    ELSE /\ name' = Formatted(line.opt)
         /\ Fails /\ UNCHANGED stream

(* Plausible bug: the state of the stream is not looked at after the write.   *)
AcceptsBlindly(line, ok) == accepted' = accepted \union {line.text}

Accepts(line, ok) == accepted' = IF ok THEN accepted \union {line.text} ELSE accepted

(* Plausible bug: a stream that failed is closed and thrown away, so the next *)
(* message stamps the name again and opens another file.                      *)
ReopensStream == "none"

(* Plausible bug: the error state is cleared, so the next message is written. *)
ClearsState == "open"

(* A stream that failed stays as it is, and refuses what comes later.         *)
AfterFailure == "bad"

(* The line reaches the stream over file f, whose lines so far are `old': it  *)
(* is flushed, or stays in the buffer, or the stream fails and stays bad; its *)
(* buffer is then lost, or kept until the stream is closed.                   *)
PutLine(line, f, old) ==
    \/ /\ flush
       /\ disk' = Put(f, old \o <<line>>)
       /\ stream' = "open" /\ UNCHANGED buffer
       /\ Accepts(line, TRUE)
    \/ /\ ~flush
       /\ disk' = Put(f, old)
       /\ buffer' = Append(buffer, line)
       /\ stream' = "open"
       /\ Accepts(line, TRUE)
    \/ /\ disk' = Put(f, old)
       /\ buffer' \in {<<>>, Append(buffer, line)}
       /\ stream' = AfterFailure
       /\ Accepts(line, FALSE)

WriteStatic(line) ==
    \/ /\ stream = "none"
       /\ name' = Stamped(name)
       /\ \/ stream' = FailedStream /\ Fails
          \/ PutLine(line, name', Opened(name'))
    \/ /\ stream = "open"
       /\ PutLine(line, name, Lines(name))
       /\ UNCHANGED name
    \/ /\ stream \in {"bad", "dead"}
       /\ Fails /\ UNCHANGED <<stream, name>>

Running == program = "running"

(* A file that is new to the directory is one that the next run will find; it *)
(* belongs to nothing that ClearOldFiles of this run knows.                   *)
Appears ==
    LET new == (DOMAIN disk' \ DOMAIN disk) \intersect Files
    IN  /\ present' = present \union new
        /\ pc' = IF new = {} THEN pc ELSE "idle"
        /\ UNCHANGED <<date, clock, listing, i, filesCount>>

Write(o) ==
    /\ Running
    /\ writes < MaxWrites
    /\ writes' = writes + 1
    /\ LET line == [text |-> writes + 1, opt |-> o]
       IN  IF dynamic
           THEN IF o = None THEN Fails /\ UNCHANGED <<stream, name>> ELSE WriteDynamic(line)
           ELSE WriteStatic(line)
    /\ Appears
    /\ UNCHANGED <<config, program, runs>>

Drained == IF buffer = <<>> THEN disk ELSE Put(name, Lines(name) \o buffer)

(* The stream writes its full buffer. *)
BufferFull ==
    /\ stream = "open" /\ buffer # <<>>
    /\ disk' = Drained
    /\ buffer' = <<>>
    /\ UNCHANGED <<retentionVars, config, program, name, stream, writes, accepted, runs>>

(* The program ends: the destructor writes the buffer, a crash loses it. *)
EndOfRun ==
    /\ Running
    /\ program' = "off"
    /\ disk' \in {disk, Drained}
    /\ buffer' = <<>>
    /\ stream' = "none"
    /\ UNCHANGED <<retentionVars, config, name, writes, accepted, runs>>

ChannelNext ==
    \/ Construct
    \/ ClearStep
    \/ ClearThrows
    \/ Constructed
    \/ \E o \in Options \union {None} : Write(o)
    \/ BufferFull
    \/ EndOfRun
    \/ Tick /\ UNCHANGED channelVars

ChannelSpec == ChannelInit /\ [][ChannelNext]_allVars
-----------------------------------------------------------------------------
(* With flush and append, a message whose Write returned without an exception *)
(* is on the disk from then on, through crashes, restarts and the removal of  *)
(* other files, and although the stream may fail at any time                  *)
(* (FileChannel.cpp:213-219, 230, 253-297).                                   *)
AcceptedIsDurable == ~dynamic /\ flush /\ append => accepted \subseteq TextsIn(DOMAIN disk)

(* No run of the program lies between the messages m and n. *)
SameRun(m, n) == \A j \in DOMAIN runs : m <= runs[j] <=> n <= runs[j]

(* A log has no holes.  What a file lacks of the messages that were accepted  *)
(* in one run is the last part of them: a crash loses what was buffered, and  *)
(* a failed write may take with it lines that were accepted long before, but  *)
(* then nothing is written behind the gap (FileChannel.cpp:216-219, 225-226). *)
OnlyTheTailIsLost ==
    ~dynamic =>
        \A f \in DOMAIN disk :
            \A n \in accepted \intersect TextsIn({f}), m \in accepted :
                m < n /\ SameRun(m, n) => m \in TextsIn({f})

(* A run adds one file at most to the MaxCount that its constructor left,     *)
(* however its stream fails: files are counted in the constructor only, so a  *)
(* run that opened one file after the other would fill the directory          *)
(* (FileChannel.cpp:225-226, 289).                                            *)
FewFiles == clears => Cardinality(DOMAIN disk) <= MaxCount + 1

(* FileChannel.cpp:202 says of the dynamic case: "Get name for dymamic file": *)
(* each message goes to the file named for its option.                        *)
DynamicFileHoldsItsOption ==
    dynamic => \A f \in DOMAIN disk : \A k \in DOMAIN disk[f] : disk[f][k].opt = f.opt
=============================================================================
