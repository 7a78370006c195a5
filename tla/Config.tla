-------------------------------- MODULE Config --------------------------------
(***************************************************************************)
(* The configuration store (common/Config/Config.cpp).  LoadAppConfigs     *)
(* loads the .conf.dist file, which defines the options, and then the      *)
(* optional .conf file, which may only change them, except for the options *)
(* of the logging system.  Each of the two loads holds _configLock, the    *)
(* pair does not: loads of other threads, and edits of the files, may come *)
(* in between.  Reading an option changes nothing.                         *)
(*                                                                         *)
(* A file is a sequence of lines, after trimming and comments: an option   *)
(* with its value, Junk (a line without "="), or Broken (the read fails).  *)
(***************************************************************************)
EXTENDS Naturals, Sequences, SequencesExt, FiniteSets

CONSTANTS Loaders,      \* the threads that load the configuration
          Names,        \* option names
          LogNames,     \* those of the logging system
          Files,        \* the contents that files may have
          NoFile,       \* the file cannot be opened
          Junk,         \* a line that is skipped
          Broken,       \* a line that cannot be read
          Nobody,       \* the lock is free
          MaxLoads      \* bound: calls of LoadAppConfigs

ASSUME ConfigAssumption ==
    /\ LogNames \subseteq Names
    /\ Nobody \notin Loaders
    /\ NoFile \notin Files
    /\ \A file \in Files :
          /\ file \in Seq({file[i] : i \in DOMAIN file})
          /\ \A i \in DOMAIN file : file[i] \in {Junk, Broken} \/ file[i].name \in Names
    /\ MaxLoads \in Nat

VARIABLES dist, conf,   \* the two files
          options,      \* _configOptions
          usingDist,    \* _usingDistConfig
          lock,         \* the owner of _configLock
          pc,           \* of each thread
          rest,         \* the lines the owner of the lock has still to read
          fileConfigs,  \* what it has read
          calls,        \* calls of LoadAppConfigs so far
          sources       \* history: the files loaded since the options were cleared

parser == <<rest, fileConfigs>>
storeVars == <<dist, conf, options, usingDist, lock, pc, parser, calls, sources>>

StoreInit ==
    /\ dist \in Files \union {NoFile} /\ conf \in Files \union {NoFile}
    /\ options = <<>>
    /\ usingDist = FALSE
    /\ lock = Nobody
    /\ pc = [t \in Loaders |-> "idle"]
    /\ rest = <<>>
    /\ fileConfigs = <<>>
    /\ calls = 0
    /\ sources = <<>>

Goes(t, from, to) == pc[t] = from /\ pc' = [pc EXCEPT ![t] = to]

Optional(t) == pc[t] = "optional"
-----------------------------------------------------------------------------
ClearOptions == options' = <<>> /\ sources' = <<>>

(* Opening the file: an optional file that is not there is no error, but no   *)
(* success either; the lock is free again.                                    *)
Open(t, file) ==
    /\ lock = Nobody
    /\ IF file = NoFile
       THEN UNCHANGED <<lock, parser>>
       ELSE lock' = t /\ rest' = file /\ fileConfigs' = <<>>

LoadInitial(t) ==
    /\ calls < MaxLoads
    /\ Open(t, dist)
    /\ Goes(t, "idle", IF dist = NoFile THEN "idle" ELSE "initial")
    /\ ClearOptions
    /\ calls' = calls + 1
    /\ UNCHANGED <<dist, conf, usingDist>>

LoadAdditionalFile(t) ==
    /\ Open(t, conf)
    /\ Goes(t, "loaded", IF conf = NoFile THEN "idle" ELSE "optional")
    /\ usingDist' = (usingDist \/ conf = NoFile)
    /\ UNCHANGED <<dist, conf, options, calls, sources>>

Parsing(t) == lock = t /\ pc[t] \in {"initial", "optional"}

(* Plausible bug: a later line of the same file wins. *)
AlwaysNew(line) == TRUE

IsNew(line) == line.name \notin DOMAIN fileConfigs

Added(store, n, v) == [m \in DOMAIN store \union {n} |-> IF m = n THEN v ELSE store[m]]

ReadLine(t) ==
    /\ Parsing(t)
    /\ rest # <<>> /\ Head(rest) # Broken
    /\ rest' = Tail(rest)
    /\ fileConfigs' = IF Head(rest) # Junk /\ IsNew(Head(rest))
                      THEN Added(fileConfigs, Head(rest).name, Head(rest).value)
                      ELSE fileConfigs
    /\ UNCHANGED <<dist, conf, options, usingDist, lock, pc, calls, sources>>

Unlock == lock' = Nobody /\ rest' = <<>> /\ fileConfigs' = <<>>

(* A read error, or no option in the file: nothing of it is applied. *)
FailFile(t) ==
    /\ Parsing(t)
    /\ \/ rest # <<>> /\ Head(rest) = Broken
       \/ rest = <<>> /\ fileConfigs = <<>>
    /\ Unlock
    /\ usingDist' = (usingDist \/ Optional(t))
    /\ pc' = [pc EXCEPT ![t] = "idle"]
    /\ UNCHANGED <<dist, conf, options, calls, sources>>

(* AddKey: an optional file may only change what there is, or set a logger or *)
(* a channel.                                                                 *)
Accepts(n, optional) == optional /\ n \notin DOMAIN options => n \in LogNames

ApplyFile(t) ==
    /\ Parsing(t)
    /\ rest = <<>> /\ fileConfigs # <<>>
    /\ LET keys == {n \in DOMAIN fileConfigs : Accepts(n, Optional(t))}
       IN  options' = [n \in DOMAIN options \union keys |->
                          IF n \in keys THEN fileConfigs[n] ELSE options[n]]
    /\ sources' = Append(sources, [optional |-> Optional(t),
                                   lines |-> IF Optional(t) THEN conf ELSE dist])
    /\ Unlock
    /\ pc' = [pc EXCEPT ![t] = IF Optional(t) THEN "idle" ELSE "loaded"]
    /\ UNCHANGED <<dist, conf, usingDist, calls>>

(* Somebody edits a file; not while it is being read. *)
Edit ==
    /\ lock = Nobody
    /\ \/ dist' \in Files \union {NoFile} /\ UNCHANGED conf
       \/ conf' \in Files \union {NoFile} /\ UNCHANGED dist
    /\ UNCHANGED <<options, usingDist, lock, pc, parser, calls, sources>>

(* Another configuration file is named; _filename has no lock, so this is done *)
(* while nobody loads.                                                        *)
Configure ==
    /\ \A t \in Loaders : pc[t] = "idle"
    /\ dist' \in Files \union {NoFile} /\ conf' \in Files \union {NoFile}
    /\ UNCHANGED <<options, usingDist, lock, pc, parser, calls, sources>>

StoreNext ==
    \/ \E t \in Loaders :
          LoadInitial(t) \/ LoadAdditionalFile(t) \/ ReadLine(t) \/ FailFile(t) \/ ApplyFile(t)
    \/ Edit
    \/ Configure

StoreSpec == StoreInit /\ [][StoreNext]_storeVars
-----------------------------------------------------------------------------
(* What the k-th of these files says of option n: its first line for n. *)
IsFor(line, n) == line # Junk /\ line.name = n
LinesFor(lines, n) == {i \in DOMAIN lines : IsFor(lines[i], n)}
Smallest(I) == CHOOSE i \in I : \A j \in I : i <= j
FirstLine(lines, n) == lines[Smallest(LinesFor(lines, n))]
Says(k, n) == LinesFor(sources[k].lines, n) # {}

(* A file gives n to the store if it is not optional, if n is of the logging  *)
(* system, or if an earlier file has given it.                                *)
Gives(k, n) ==
    /\ Says(k, n)
    /\ \/ ~sources[k].optional
       \/ n \in LogNames
       \/ \E j \in 1 .. k - 1 : Says(j, n) /\ ~sources[j].optional

Givers(n) == {k \in DOMAIN sources : Gives(k, n)}

(* The store always holds what the files loaded since the last clear say: the *)
(* last of them decides, the first line in it counts, optional files define   *)
(* nothing new, and a file that failed half way has left no trace, however    *)
(* the loads of several threads are interleaved (Config.cpp:54-71, 151-173).  *)
OptionsAreWhatFilesSay ==
    /\ DOMAIN options = {n \in Names : Givers(n) # {}}
    /\ \A n \in DOMAIN options : \E last \in Givers(n) :
          /\ \A j \in Givers(n) : j <= last
          /\ options[n] = FirstLine(sources[last].lines, n).value
=============================================================================
