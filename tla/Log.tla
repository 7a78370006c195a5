--------------------------------- MODULE Log ---------------------------------
(***************************************************************************)
(* The logging core (common/Logging/Log.cpp, Logger.cpp, Channel.cpp):     *)
(* loggers are found by the dotted name of a message, each has a level and *)
(* a list of channels, and each channel has a level of its own.            *)
(*                                                                         *)
(* A LOG_ macro is two steps of the calling thread: the gate (ShouldLog,   *)
(* without a lock), then, after the arguments were formatted, Write, which *)
(* finds the logger again and hands the message to its channels under the  *)
(* logger's mutex.  Levels may be changed by other threads in between.     *)
(*                                                                         *)
(* A dotted name is the sequence of its parts.  A channel is an object: a  *)
(* reload makes new objects under the same names.                          *)
(***************************************************************************)
EXTENDS Naturals, Sequences, FiniteSets

CONSTANTS Threads,      \* the threads that log
          Filters,      \* the names messages are logged under
          Levels,       \* the log levels that are used, a part of 0 .. 7
          Configs,      \* the configuration files that may be loaded
          MaxReloads,   \* bound: how often channels are created anew
          None          \* no logger

Disabled == 0  Fatal == 1  Error == 3  Info == 5  Debug == 6
MaxLevel == 8           \* LogLevel::Max

Root == <<"root">>
Server == <<"server">>
GM == <<"commands", "gm">>

(* A configuration: the outcome of creating the logs directory, the loggers   *)
(* with their level and channel names, and the channels with their level and  *)
(* whether the constructor throws.                                            *)
ASSUME LogAssumption ==
    /\ MaxReloads \in Nat
    /\ {Disabled, Fatal, Error, Info, Debug} \subseteq Levels
    /\ Levels \subseteq Disabled .. MaxLevel - 1
    /\ {Server, GM} \subseteq Filters
    /\ \A f \in Filters : f \in Seq(STRING) /\ f # <<>>
    /\ \A c \in Configs :
          /\ c.dirOk \in BOOLEAN
          /\ \A n \in DOMAIN c.loggers :
                n \in Seq(STRING) /\ n # <<>> /\ c.loggers[n].level \in Nat
          /\ \A n \in DOMAIN c.channels :
                c.channels[n].level \in Nat /\ c.channels[n].throws \in BOOLEAN

VARIABLES loggers,      \* _loggers: name -> [level, channels by their places]
          channels,     \* _channels: name -> channel object
          level,        \* _level of every channel object that exists
          highest,      \* highestLogLevel
          useDefault,   \* _isUseDefaultLogs
          created,      \* how often channels were created: makes objects distinct
          aborted,      \* an ASSERT ended the program
          pending       \* for each thread, the message between gate and Write

vars == <<loggers, channels, level, highest, useDefault, created, aborted, pending>>

NoMessage == [filter |-> <<>>, level |-> Disabled]
-----------------------------------------------------------------------------
HasLogger(n) == n \in DOMAIN loggers

RootOrNone == IF HasLogger(Root) THEN Root ELSE None

(* Plausible bug: without a logger of its own a message goes to root.         *)
OwnOrRoot(f) == IF HasLogger(f) THEN f ELSE RootOrNone

(* GetLoggerByType: the logger of that name, else the search goes on with the *)
(* name up to its last dot, and with root once there is no dot.               *)
GetLoggerByType(f) ==
    LET search[k \in 1 .. Len(f)] ==
            IF HasLogger(SubSeq(f, 1, k)) THEN SubSeq(f, 1, k)
            ELSE IF k = 1 THEN RootOrNone
            ELSE search[k - 1]
    IN  search[Len(f)]

(* ShouldLog: first the shortcut, then the logger's own level. *)
ShouldLog(f, l) ==
    /\ l <= highest
    /\ GetLoggerByType(f) # None
    /\ loggers[GetLoggerByType(f)].level # Disabled
    /\ loggers[GetLoggerByType(f)].level >= l

(* The places of the channels that Logger::Write hands a message of level l   *)
(* to when it reaches logger n.                                               *)
LoggerAccepts(n, l) == loggers[n].level >= l

(* Plausible bug: Logger::Write trusts the gate. *)
TrustsGate(n, l) == DOMAIN loggers[n].channels

Accepting(n, l) ==
    {k \in DOMAIN loggers[n].channels :
        LoggerAccepts(n, l) /\ level[loggers[n].channels[k]] >= l}

(* The channel objects that get a message; the first one of `broken' throws,  *)
(* and ends the loop.                                                         *)
Written(f, l, broken) ==
    LET n == GetLoggerByType(f)
        at(k) == loggers[n].channels[k]
    IN  IF n = None THEN {}
        ELSE {at(k) : k \in {i \in Accepting(n, l) :
                                \A j \in Accepting(n, l) : j <= i => at(j) \notin broken}}
-----------------------------------------------------------------------------
Init ==
    /\ loggers = <<>> /\ channels = <<>> /\ level = <<>>
    /\ highest = Disabled
    /\ useDefault = FALSE
    /\ created = 0
    /\ aborted = FALSE
    /\ pending = [t \in Threads |-> NoMessage]

(* Loading replaces the maps without a lock: nobody may be logging. *)
Quiet == ~aborted /\ \A t \in Threads : pending[t] = NoMessage

Highest(S) == IF S = {} THEN Disabled ELSE CHOOSE l \in S : \A m \in S : m <= l

(* The channels a configuration creates: a wrong level is rejected, and a     *)
(* constructor that throws leaves no channel.                                 *)
GoodChannels(c) ==
    {n \in DOMAIN c.channels : c.channels[n].level < MaxLevel /\ ~c.channels[n].throws}

GoodLoggers(c) == {n \in DOMAIN c.loggers : c.loggers[n].level < MaxLevel}

(* Plausible bug: Clear forgets the loggers, and emplace keeps the old ones.  *)
ClearChannelsOnly(new) ==
    loggers' = [n \in DOMAIN new \union DOMAIN loggers |->
                    IF HasLogger(n) THEN loggers[n] ELSE new[n]]

Clear(new) == loggers' = new

HighestOf(c) == Highest({Fatal} \union {c.loggers[n].level : n \in GoodLoggers(c)})

(* LoadFromConfig: new channels first, then the loggers that use them; a      *)
(* channel that does not exist is left out of the logger, which keeps the     *)
(* others in the order, and here at the places, they have in its option.      *)
LoadFromConfig(c) ==
    LET object(n) == <<n, created + 1>>
        existing(names) == {k \in DOMAIN names : names[k] \in GoodChannels(c)}
    IN  /\ channels' = [n \in GoodChannels(c) |-> object(n)]
        /\ level' = [x \in {object(n) : n \in GoodChannels(c)} |-> c.channels[x[1]].level]
        /\ Clear([n \in GoodLoggers(c) |->
                    [level    |-> c.loggers[n].level,
                     channels |-> [k \in existing(c.loggers[n].channels) |->
                                      object(c.loggers[n].channels[k])]]])
        /\ highest' = HighestOf(c)
        /\ created' = created + 1

Initialize(c) ==
    /\ Quiet
    /\ ~useDefault
    /\ IF c.dirOk
       THEN created < MaxReloads /\ LoadFromConfig(c) /\ UNCHANGED aborted
       ELSE aborted' = TRUE /\ UNCHANGED <<loggers, channels, level, highest, created>>
    /\ UNCHANGED <<useDefault, pending>>

UsingDefaultLogs(value) ==
    /\ Quiet
    /\ useDefault' = value
    /\ IF value
       THEN LET console == <<"Console", created + 1>>
            IN  /\ created < MaxReloads
                /\ created' = created + 1
                /\ highest' = Debug
                /\ channels' = [n \in {"Console"} |-> console]
                /\ level' = [x \in {console} |-> Debug]
                /\ Clear([n \in {Root} |-> [level |-> Debug, channels |-> <<console>>]])
       ELSE UNCHANGED <<created, highest, channels, level, loggers>>
    /\ UNCHANGED <<aborted, pending>>

(* Plausible bug: only a reload raises highestLogLevel.                       *)
KeepsHighest(l) == highest

Raised(l) == Highest({highest, l})

SetLoggerLevel(n, l) ==
    /\ ~aborted /\ l < MaxLevel
    /\ highest' = Raised(l)
    /\ loggers' = IF HasLogger(n) THEN [loggers EXCEPT ![n].level = l] ELSE loggers
    /\ UNCHANGED <<channels, level, useDefault, created, aborted, pending>>

SetChannelLevel(n, l) ==
    /\ ~aborted /\ l < MaxLevel
    /\ n \in DOMAIN channels
    /\ level' = [level EXCEPT ![channels[n]] = l]
    /\ UNCHANGED <<loggers, channels, highest, useDefault, created, aborted, pending>>

(* The gate of LOG_MSG_BODY, and of LOG_GM. *)
Gate(t, f, l) ==
    /\ ~aborted
    /\ pending[t] = NoMessage
    /\ ShouldLog(f, l)
    /\ pending' = [pending EXCEPT ![t] = [filter |-> f, level |-> l]]
    /\ UNCHANGED <<loggers, channels, level, highest, useDefault, created, aborted>>

(* fmt::format throws: the macro reports it to "server" at Error, ungated. *)
FormatThrows(t) ==
    /\ ~aborted
    /\ pending[t] \notin {NoMessage, [filter |-> Server, level |-> Error]}
    /\ pending' = [pending EXCEPT ![t] = [filter |-> Server, level |-> Error]]
    /\ UNCHANGED <<loggers, channels, level, highest, useDefault, created, aborted>>

(* Log::Write: the exception of a broken channel is caught here. *)
Write(t, written) ==
    /\ ~aborted
    /\ pending[t] # NoMessage
    /\ \E broken \in SUBSET DOMAIN level :
          written = Written(pending[t].filter, pending[t].level, broken)
    /\ pending' = [pending EXCEPT ![t] = NoMessage]
    /\ UNCHANGED <<loggers, channels, level, highest, useDefault, created, aborted>>

Next ==
    \/ \E c \in Configs : Initialize(c)
    \/ \E v \in BOOLEAN : UsingDefaultLogs(v)
    \/ \E n \in Filters, l \in Levels \union {MaxLevel} : SetLoggerLevel(n, l)
    \/ \E n \in DOMAIN channels, l \in Levels \union {MaxLevel} : SetChannelLevel(n, l)
    \/ \E t \in Threads :
          \/ \E f \in Filters, l \in Levels \ {Disabled} : Gate(t, f, l)
          \/ Gate(t, GM, Info)
          \/ FormatThrows(t)
          \/ \E w \in SUBSET DOMAIN level : Write(t, w)

Spec == Init /\ [][Next]_vars
-----------------------------------------------------------------------------
(* No logger has a level above highestLogLevel, through every reload and      *)
(* every change of a level: otherwise the shortcut at the head of ShouldLog   *)
(* would drop messages that their logger wants (Log.cpp:145, 312, 370).       *)
HighestIsSound == \A n \in DOMAIN loggers : loggers[n].level <= highest

(* A message goes to the logger with the longest name that is its own name or *)
(* an ancestor of it, and to root if there is none (Log.cpp:275-289).         *)
Nearest(f) ==
    LET own == {n \in DOMAIN loggers :
                   Len(n) <= Len(f) /\ n = SubSeq(f, 1, Len(n))}
    IN  IF own # {} THEN CHOOSE n \in own : \A m \in own : Len(m) <= Len(n)
        ELSE RootOrNone
LookupIsNearest == \A f \in Filters : GetLoggerByType(f) = Nearest(f)

(* The channels that loggers write to are the ones that are registered: after *)
(* a reload no logger still holds a channel of the previous configuration,    *)
(* which SetChannelLevel could not reach (Log.cpp:64-69, 88-91, 163, 379).    *)
LoggersUseRegisteredChannels ==
    \A n \in DOMAIN loggers :
        \A k \in DOMAIN loggers[n].channels :
            \E c \in DOMAIN channels : channels[c] = loggers[n].channels[k]

(* A message that passed the gate is still held back when the levels were     *)
(* lowered meanwhile, and so is the ungated report of a wrong format: what    *)
(* counts are the levels at the time of the write (Logger.cpp:34, 39).        *)
LevelsAtWriteDecide ==
    [][\A t \in Threads : \A w \in SUBSET DOMAIN level :
          Write(t, w) =>
            \A c \in w : /\ level[c] >= pending[t].level
                         /\ loggers[Nearest(pending[t].filter)].level >= pending[t].level]_vars
=============================================================================
