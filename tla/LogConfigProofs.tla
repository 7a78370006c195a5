--------------------------- MODULE LogConfigProofs ---------------------------
(***************************************************************************)
(* Proofs about Log, for all configurations, names and threads, and about  *)
(* Config, the store that Log is set up from, for all files and any number *)
(* of loads.  The two state machines share nothing but this module.        *)
(***************************************************************************)
EXTENDS Log, Config, SequenceTheorems, WellFoundedInduction, TLAPS

(* A logger is a record with a valid level; EXCEPT relies on its shape. *)
LoggersTyped ==
    /\ loggers = [n \in DOMAIN loggers |-> loggers[n]]
    /\ \A n \in DOMAIN loggers :
          /\ loggers[n] = [level |-> loggers[n].level, channels |-> loggers[n].channels]
          /\ loggers[n].level \in 0 .. 7

(* The inductive invariant: only valid levels are compared. *)
HInv == LoggersTyped /\ highest \in 0 .. 7 /\ HighestIsSound

(* A set of levels that is not empty has a largest element. *)
LEMMA MaxExists ==
    ASSUME NEW S \in SUBSET (0 .. 7), S # {}
    PROVE  /\ Highest(S) \in S
           /\ \A m \in S : m <= Highest(S)
<1>1. \E l \in S : \A m \in S : m <= l
  <2>1. CASE 7 \in S
    BY <2>1
  <2>2. CASE 7 \notin S /\ 6 \in S
    BY <2>2
  <2>3. CASE 7 \notin S /\ 6 \notin S /\ 5 \in S
    BY <2>3
  <2>4. CASE 7 \notin S /\ 6 \notin S /\ 5 \notin S /\ 4 \in S
    BY <2>4
  <2>5. CASE 7 \notin S /\ 6 \notin S /\ 5 \notin S /\ 4 \notin S /\ 3 \in S
    BY <2>5
  <2>6. CASE 7 \notin S /\ 6 \notin S /\ 5 \notin S /\ 4 \notin S /\ 3 \notin S /\ 2 \in S
    BY <2>6
  <2>7. CASE S \subseteq {0, 1}
    <3>1. CASE 1 \in S
      BY <2>7, <3>1
    <3>2. CASE 1 \notin S
      <4>1. S = {0}
        BY <2>7, <3>2
      <4> QED
        BY <4>1
    <3> QED
      BY <3>1, <3>2
  <2>8. S \subseteq {0, 1, 2, 3, 4, 5, 6, 7}
    OBVIOUS
  <2> QED
    BY <2>1, <2>2, <2>3, <2>4, <2>5, <2>6, <2>7, <2>8
<1> QED
  BY <1>1 DEF Highest

(* The channels of a logger that is loaded. *)
NewChannels(c, n) ==
    [k \in {j \in DOMAIN c.loggers[n].channels : c.loggers[n].channels[j] \in GoodChannels(c)} |->
        <<c.loggers[n].channels[k], created + 1>>]

(* Loading a configuration leaves highestLogLevel at the largest level.       *)
LEMMA LoadKeepsHInv ==
    ASSUME NEW c \in Configs, LoadFromConfig(c)
    PROVE  HInv'
<1> DEFINE S == {Fatal} \union {c.loggers[n].level : n \in GoodLoggers(c)}
<1>1. ASSUME NEW n \in GoodLoggers(c) PROVE c.loggers[n].level \in 0 .. 7
  <2> DEFINE l == c.loggers[n].level
  <2>1. n \in DOMAIN c.loggers /\ l < MaxLevel
    BY DEF GoodLoggers
  <2>2. l \in Nat
    BY <2>1, LogAssumption
  <2> HIDE DEF l
  <2>3. l \in 0 .. 7
    BY <2>1, <2>2 DEF MaxLevel
  <2> QED
    BY <2>3 DEF l
<1>2. S \in SUBSET (0 .. 7) /\ S # {}
  BY <1>1 DEF Fatal
<1>3. Highest(S) \in 0 .. 7 /\ \A m \in S : m <= Highest(S)
  BY <1>2, MaxExists
<1>4. highest' = Highest(S)
  BY DEF LoadFromConfig, HighestOf
<1>5. loggers' = [n \in GoodLoggers(c) |->
                    [level |-> c.loggers[n].level, channels |-> NewChannels(c, n)]]
  BY DEF LoadFromConfig, Clear, NewChannels
<1>6. \A n \in GoodLoggers(c) : c.loggers[n].level <= Highest(S)
  BY <1>3
<1>7. LoggersTyped'
  BY <1>1, <1>5 DEF LoggersTyped
<1>8. HighestIsSound'
  BY <1>4, <1>5, <1>6 DEF HighestIsSound
<1> QED
  BY <1>3, <1>4, <1>7, <1>8 DEF HInv

(* Raising the shortcut with the logger keeps it sound. *)
LEMMA SetLoggerLevelKeepsHInv ==
    ASSUME HInv, NEW n, NEW l \in Levels \union {MaxLevel}, SetLoggerLevel(n, l)
    PROVE  HInv'
<1>1. l \in 0 .. 7
  BY LogAssumption DEF SetLoggerLevel, Disabled, MaxLevel
<1>2. {highest, l} \in SUBSET (0 .. 7) /\ {highest, l} # {}
  BY <1>1 DEF HInv
<1>3. highest' \in 0 .. 7 /\ highest <= highest' /\ l <= highest'
  BY <1>2, MaxExists DEF SetLoggerLevel, Raised
<1>4. DOMAIN loggers' = DOMAIN loggers
  BY DEF SetLoggerLevel, HInv, LoggersTyped
<1>5. \A m \in DOMAIN loggers : m # n => loggers'[m] = loggers[m]
  BY DEF SetLoggerLevel, HInv, LoggersTyped
<1>6. n \in DOMAIN loggers => loggers'[n] = [level |-> l, channels |-> loggers[n].channels]
  BY DEF SetLoggerLevel, HInv, LoggersTyped, HasLogger
<1>7. loggers' = [m \in DOMAIN loggers' |-> loggers'[m]]
  BY DEF SetLoggerLevel, HInv, LoggersTyped
<1>8. LoggersTyped'
  BY <1>1, <1>4, <1>5, <1>6, <1>7 DEF HInv, LoggersTyped
<1>9. HighestIsSound'
  BY <1>3, <1>4, <1>5, <1>6, <1>1 DEF HInv, HighestIsSound, LoggersTyped
<1> QED
  BY <1>3, <1>8, <1>9 DEF HInv

LEMMA HInvIsKept == HInv /\ [Next]_vars => HInv'
<1> SUFFICES ASSUME HInv, [Next]_vars PROVE HInv'
  OBVIOUS
<1>1. ASSUME UNCHANGED <<loggers, highest>> PROVE HInv'
  BY <1>1 DEF HInv, LoggersTyped, HighestIsSound
<1>2. ASSUME NEW c \in Configs, Initialize(c) PROVE HInv'
  BY <1>1, <1>2, LoadKeepsHInv DEF Initialize
<1>3. ASSUME NEW v \in BOOLEAN, UsingDefaultLogs(v) PROVE HInv'
  <2>1. CASE v
    BY <1>3, <2>1 DEF UsingDefaultLogs, Clear, HInv, LoggersTyped, HighestIsSound, Debug
  <2>2. CASE ~v
    BY <1>1, <1>3, <2>2 DEF UsingDefaultLogs
  <2> QED
    BY <2>1, <2>2
<1>4. ASSUME NEW n, NEW l \in Levels \union {MaxLevel}, SetLoggerLevel(n, l) PROVE HInv'
  BY <1>4, SetLoggerLevelKeepsHInv
<1>5. ASSUME NEW n, NEW l, SetChannelLevel(n, l) PROVE HInv'
  BY <1>1, <1>5 DEF SetChannelLevel
<1>6. ASSUME NEW t \in Threads, NEW f, NEW l, NEW w, Gate(t, f, l) \/ FormatThrows(t) \/ Write(t, w)
      PROVE HInv'
  BY <1>1, <1>6 DEF Gate, FormatThrows, Write
<1>7. CASE UNCHANGED vars
  BY <1>1, <1>7 DEF vars
<1> QED
  BY <1>2, <1>3, <1>4, <1>5, <1>6, <1>7 DEF Next

(* Every logger that wants a message gets past the shortcut of ShouldLog, in  *)
(* every state and for every configuration (Log.cpp:312).                     *)
THEOREM ShortcutIsSound == Spec => []HighestIsSound
<1>1. Init => HInv
  BY DEF Init, HInv, LoggersTyped, HighestIsSound, Disabled
<1>2. HInv => HighestIsSound
  BY DEF HInv
<1> QED
  BY <1>1, <1>2, HInvIsKept, PTL DEF Spec
-----------------------------------------------------------------------------
(* Loggers write to channels that are registered: one more conjunct, with the *)
(* shape of the loggers.                                                      *)
RInv == LoggersTyped /\ LoggersUseRegisteredChannels

LEMMA LoadKeepsRInv ==
    ASSUME NEW c \in Configs, LoadFromConfig(c)
    PROVE  RInv'
<1>1. loggers' = [n \in GoodLoggers(c) |->
                    [level |-> c.loggers[n].level, channels |-> NewChannels(c, n)]]
  BY DEF LoadFromConfig, Clear, NewChannels
<1>2. channels' = [n \in GoodChannels(c) |-> <<n, created + 1>>]
  BY DEF LoadFromConfig
<1>3. LoggersTyped'
  BY LoadKeepsHInv DEF HInv
<1>4. ASSUME NEW n \in GoodLoggers(c), NEW k \in DOMAIN NewChannels(c, n)
      PROVE  \E m \in DOMAIN channels' : channels'[m] = NewChannels(c, n)[k]
  <2> DEFINE m == c.loggers[n].channels[k]
  <2>1. m \in GoodChannels(c) /\ NewChannels(c, n)[k] = <<m, created + 1>>
    BY DEF NewChannels
  <2>2. m \in DOMAIN channels' /\ channels'[m] = <<m, created + 1>>
    BY <1>2, <2>1
  <2> QED
    BY <2>1, <2>2
<1>5. LoggersUseRegisteredChannels'
  BY <1>1, <1>4 DEF LoggersUseRegisteredChannels
<1> QED
  BY <1>3, <1>5 DEF RInv

(* After every reload each channel of a logger is one that SetChannelLevel    *)
(* can reach, for all configurations (Log.cpp:64-69, 88-91, 163).             *)
THEOREM ChannelsAreRegistered == Spec => []LoggersUseRegisteredChannels
<1>1. Init => HInv /\ RInv
  BY DEF Init, HInv, RInv, LoggersTyped, HighestIsSound, Disabled, LoggersUseRegisteredChannels
<1>2. HInv /\ RInv /\ [Next]_vars => HInv' /\ RInv'
  <2> SUFFICES ASSUME HInv, RInv, [Next]_vars PROVE HInv' /\ RInv'
    OBVIOUS
  <2>0. HInv'
    BY HInvIsKept
  <2>1. ASSUME UNCHANGED <<loggers, channels>> PROVE RInv'
    BY <2>1 DEF RInv, LoggersTyped, LoggersUseRegisteredChannels
  <2>2. ASSUME NEW c \in Configs, Initialize(c) PROVE RInv'
    BY <2>1, <2>2, LoadKeepsRInv DEF Initialize
  <2>3. ASSUME NEW v \in BOOLEAN, UsingDefaultLogs(v) PROVE RInv'
    <3>1. CASE v
      <4>1. /\ channels' = [n \in {"Console"} |-> <<"Console", created + 1>>]
            /\ loggers' = [n \in {Root} |-> [level |-> Debug,
                                             channels |-> <<<<"Console", created + 1>>>>]]
        BY <2>3, <3>1 DEF UsingDefaultLogs, Clear
      <4>2. /\ "Console" \in DOMAIN channels' /\ channels'["Console"] = <<"Console", created + 1>>
            /\ DOMAIN loggers' = {Root}
            /\ \A k \in DOMAIN loggers'[Root].channels :
                  loggers'[Root].channels[k] = <<"Console", created + 1>>
        BY <4>1
      <4>3. LoggersUseRegisteredChannels'
        BY <4>2 DEF LoggersUseRegisteredChannels
      <4> QED
        BY <2>0, <4>3 DEF HInv, RInv
    <3>2. CASE ~v
      BY <2>1, <2>3, <3>2 DEF UsingDefaultLogs
    <3> QED
      BY <3>1, <3>2
  <2>4. ASSUME NEW n, NEW l \in Levels \union {MaxLevel}, SetLoggerLevel(n, l) PROVE RInv'
    <3>1. /\ DOMAIN loggers' = DOMAIN loggers /\ channels' = channels
          /\ \A m \in DOMAIN loggers : loggers'[m].channels = loggers[m].channels
      BY <2>4 DEF SetLoggerLevel, RInv, LoggersTyped, HasLogger
    <3> QED
      BY <2>0, <3>1 DEF HInv, RInv, LoggersUseRegisteredChannels
  <2>5. ASSUME NEW n, NEW l, SetChannelLevel(n, l) PROVE RInv'
    BY <2>1, <2>5 DEF SetChannelLevel
  <2>6. ASSUME NEW t \in Threads, NEW f, NEW l, NEW w, Gate(t, f, l) \/ FormatThrows(t) \/ Write(t, w)
        PROVE RInv'
    BY <2>1, <2>6 DEF Gate, FormatThrows, Write
  <2>7. CASE UNCHANGED vars
    BY <2>0, <2>1, <2>7 DEF vars
  <2> QED
    BY <2>0, <2>2, <2>3, <2>4, <2>5, <2>6, <2>7 DEF Next
<1>3. RInv => LoggersUseRegisteredChannels
  BY DEF RInv
<1> QED
  BY <1>1, <1>2, <1>3, PTL DEF Spec
-----------------------------------------------------------------------------
(* The search for a logger: its first steps decide, so it is looked at as a   *)
(* function of how much of the name is left.                                  *)

(* A set of numbers that is not empty has a smallest element: induction.      *)
LEMMA SmallestExists ==
    ASSUME NEW S \in SUBSET Nat, S # {}
    PROVE  \E x \in S : \A y \in S : ~ (y < x)
<1>1. \E x \in S : \A y \in S : ~ (<<y, x>> \in OpToRel(<, Nat))
  BY WFMin, NatLessThanWellFounded, Zenon
<1>2. PICK x \in S : \A y \in S : ~ (<<y, x>> \in OpToRel(<, Nat))
  BY <1>1, Zenon
<1>3. ASSUME NEW y \in S, y < x PROVE <<y, x>> \in OpToRel(<, Nat)
  BY <1>3, Zenon DEF OpToRel
<1> QED
  BY <1>2, <1>3, Zenon

(* A set of numbers up to N that is not empty has a largest element. *)
LEMMA LargestExists ==
    ASSUME NEW N \in Nat, NEW S \in SUBSET (1 .. N), S # {}
    PROVE  \E x \in S : \A y \in S : y <= x
<1> DEFINE T == {n \in Nat : \E x \in S : x = N - n}
<1>1. T \subseteq Nat
  OBVIOUS
<1>2. T # {}
  <2>1. PICK x \in S : TRUE
    OBVIOUS
  <2>2. N - x \in Nat /\ x = N - (N - x)
    OBVIOUS
  <2> QED
    BY <2>1, <2>2
<1> HIDE DEF T
<1>3. PICK n \in T : \A m \in T : ~ (m < n)
  BY <1>1, <1>2, SmallestExists
<1>4. PICK x \in S : x = N - n
  BY <1>3 DEF T
<1>5. ASSUME NEW y \in S PROVE y <= x
  <2>1. N - y \in Nat /\ y = N - (N - y) /\ N - y \in T
    BY DEF T
  <2>2. n \in Nat /\ ~ (N - y < n)
    BY <1>1, <1>3, <2>1
  <2> QED
    BY <1>4, <2>1, <2>2
<1> QED
  BY <1>5

(* The longest logger among the first k prefixes of a name. *)
PrefixWithLogger(f, k) == \E j \in 1 .. k : HasLogger(SubSeq(f, 1, j))

IsLongest(f, k, j) ==
    /\ j \in 1 .. k
    /\ HasLogger(SubSeq(f, 1, j))
    /\ \A i \in 1 .. k : HasLogger(SubSeq(f, 1, i)) => i <= j

Longest(f, k) == CHOOSE j \in 1 .. k : IsLongest(f, k, j)

(* What the search returns for the first k parts of a name. *)
Found(f) ==
    [k \in 1 .. Len(f) |->
        IF PrefixWithLogger(f, k) THEN SubSeq(f, 1, Longest(f, k)) ELSE RootOrNone]

(* One step of the search, on what the shorter names gave. *)
SearchStep(g, f) ==
    [k \in 1 .. Len(f) |->
        IF HasLogger(SubSeq(f, 1, k)) THEN SubSeq(f, 1, k)
        ELSE IF k = 1 THEN RootOrNone
        ELSE g[k - 1]]

LEMMA LongestExists ==
    ASSUME NEW f, NEW k \in Nat, PrefixWithLogger(f, k)
    PROVE  IsLongest(f, k, Longest(f, k))
<1> DEFINE S == {j \in 1 .. k : HasLogger(SubSeq(f, 1, j))}
<1>1. S \in SUBSET (1 .. k) /\ S # {}
  BY DEF PrefixWithLogger
<1> HIDE DEF S
<1>2. PICK j \in S : \A i \in S : i <= j
  BY <1>1, LargestExists
<1>3. j \in 1 .. k /\ IsLongest(f, k, j)
  BY <1>2 DEF S, IsLongest
<1> QED
  BY <1>3 DEF Longest

LEMMA LongestIsUnique ==
    ASSUME NEW f, NEW k \in Nat, NEW j, IsLongest(f, k, j)
    PROVE  PrefixWithLogger(f, k) /\ j = Longest(f, k)
<1>1. PrefixWithLogger(f, k)
  BY DEF IsLongest, PrefixWithLogger
<1>2. IsLongest(f, k, Longest(f, k))
  BY <1>1, LongestExists
<1>3. j <= Longest(f, k) /\ Longest(f, k) <= j /\ j \in Nat /\ Longest(f, k) \in Nat
  BY <1>2 DEF IsLongest
<1> QED
  BY <1>1, <1>3

(* Found solves the equation that defines the search. *)
LEMMA FoundIsASearch ==
    ASSUME NEW f, Len(f) \in Nat
    PROVE  Found(f) = SearchStep(Found(f), f)
<1>1. ASSUME NEW k \in 1 .. Len(f)
      PROVE  Found(f)[k] = IF HasLogger(SubSeq(f, 1, k)) THEN SubSeq(f, 1, k)
                           ELSE IF k = 1 THEN RootOrNone
                           ELSE Found(f)[k - 1]
  <2>1. CASE HasLogger(SubSeq(f, 1, k))
    <3>1. IsLongest(f, k, k)
      BY <2>1 DEF IsLongest
    <3>2. PrefixWithLogger(f, k) /\ k = Longest(f, k)
      BY <3>1, LongestIsUnique
    <3> QED
      BY <2>1, <3>2 DEF Found
  <2>2. CASE ~HasLogger(SubSeq(f, 1, k)) /\ k = 1
    <3>1. ~PrefixWithLogger(f, k)
      BY <2>2 DEF PrefixWithLogger
    <3> QED
      BY <2>2, <3>1 DEF Found
  <2>3. CASE ~HasLogger(SubSeq(f, 1, k)) /\ k # 1
    <3>1. /\ k - 1 \in 1 .. Len(f) /\ k - 1 \in Nat
          /\ \A j : j \in 1 .. k <=> j \in 1 .. (k - 1) \/ j = k
      BY <2>3
    <3>2. PrefixWithLogger(f, k) <=> PrefixWithLogger(f, k - 1)
      BY <2>3, <3>1 DEF PrefixWithLogger
    <3>3. CASE PrefixWithLogger(f, k - 1)
      <4>1. IsLongest(f, k - 1, Longest(f, k - 1))
        BY <3>1, <3>3, LongestExists
      <4>2. IsLongest(f, k, Longest(f, k - 1))
        BY <2>3, <3>1, <4>1 DEF IsLongest
      <4>3. Longest(f, k) = Longest(f, k - 1)
        BY <4>2, LongestIsUnique
      <4> QED
        BY <2>3, <3>1, <3>2, <3>3, <4>3 DEF Found
    <3>4. CASE ~PrefixWithLogger(f, k - 1)
      BY <2>3, <3>1, <3>2, <3>4 DEF Found
    <3> QED
      BY <3>3, <3>4
  <2> QED
    BY <2>1, <2>2, <2>3
<1> QED
  BY <1>1 DEF Found, SearchStep

(* The equation has one solution, by induction on the length of the name. *)
LEMMA SearchIsUnique ==
    ASSUME NEW f, Len(f) \in Nat,
           NEW g, NEW h, g = SearchStep(g, f), h = SearchStep(h, f)
    PROVE  g = h
<1> DEFINE T == {k \in 1 .. Len(f) : g[k] # h[k]}
<1>1. T = {}
  <2> SUFFICES ASSUME T # {} PROVE FALSE
    OBVIOUS
  <2>1. T \subseteq Nat
    OBVIOUS
  <2> HIDE DEF T
  <2>2. PICK k \in T : \A m \in T : ~ (m < k)
    BY <2>1, SmallestExists
  <2>3. k \in 1 .. Len(f) /\ g[k] # h[k]
    BY <2>2 DEF T
  <2>4. /\ g[k] = SearchStep(g, f)[k]
        /\ h[k] = SearchStep(h, f)[k]
    OBVIOUS
  <2>5. k # 1 /\ g[k - 1] # h[k - 1]
    BY <2>3, <2>4 DEF SearchStep
  <2>6. k - 1 \in T /\ k - 1 < k
    BY <2>3, <2>5 DEF T
  <2> QED
    BY <2>2, <2>6
<1>2. \A k \in 1 .. Len(f) : g[k] = h[k]
  BY <1>1
<1>3. /\ g = [k \in 1 .. Len(f) |-> g[k]]
      /\ h = [k \in 1 .. Len(f) |-> h[k]]
  BY DEF SearchStep
<1> QED
  BY <1>2, <1>3

(* GetLoggerByType returns the longest prefix that has a logger, or root. *)
LEMMA SearchFinds ==
    ASSUME NEW f, Len(f) \in Nat
    PROVE  GetLoggerByType(f) = Found(f)[Len(f)]
<1> DEFINE search == CHOOSE g : g = SearchStep(g, f)
<1>1. search = SearchStep(search, f)
  BY FoundIsASearch
<1>2. GetLoggerByType(f) = search[Len(f)]
  BY DEF GetLoggerByType, SearchStep
<1> HIDE DEF search
<1>3. search = Found(f)
  BY <1>1, FoundIsASearch, SearchIsUnique
<1> QED
  BY <1>2, <1>3
-----------------------------------------------------------------------------
(* The name of a logger has at least one part. *)
NamesTyped == \A n \in DOMAIN loggers : Len(n) \in Nat \ {0}

(* The longest prefix that has a logger is the nearest ancestor. *)
LEMMA FoundIsNearest ==
    ASSUME NEW f \in Seq(STRING), f # <<>>, NamesTyped
    PROVE  Found(f)[Len(f)] = Nearest(f)
<1> DEFINE N   == Len(f)
           own == {n \in DOMAIN loggers : Len(n) <= Len(f) /\ n = SubSeq(f, 1, Len(n))}
<1>1. N \in Nat /\ N \in 1 .. Len(f)
  BY EmptySeq
<1>2. ASSUME NEW n \in own
      PROVE  Len(n) \in 1 .. N /\ n = SubSeq(f, 1, Len(n)) /\ HasLogger(SubSeq(f, 1, Len(n)))
  <2>1. Len(n) \in Nat /\ Len(n) # 0
    BY DEF NamesTyped
  <2>2. n \in DOMAIN loggers /\ Len(n) <= N /\ n = SubSeq(f, 1, Len(n))
    OBVIOUS
  <2>3. HasLogger(SubSeq(f, 1, Len(n)))
    BY <2>2 DEF HasLogger
  <2> HIDE DEF N
  <2>4. Len(n) \in 1 .. N
    BY <2>1, <2>2, <1>1
  <2> QED
    BY <2>2, <2>3, <2>4
<1>3. ASSUME NEW j \in 1 .. N, HasLogger(SubSeq(f, 1, j))
      PROVE  SubSeq(f, 1, j) \in own /\ Len(SubSeq(f, 1, j)) = j
  <2>1. Len(SubSeq(f, 1, j)) = j
    BY <1>1, SubSeqProperties
  <2>2. j <= N
    BY <1>1
  <2>3. SubSeq(f, 1, j) \in DOMAIN loggers
    BY <1>3 DEF HasLogger
  <2> HIDE DEF N
  <2>4. Len(SubSeq(f, 1, j)) <= Len(f) /\ SubSeq(f, 1, j) = SubSeq(f, 1, Len(SubSeq(f, 1, j)))
    BY <2>1, <2>2 DEF N
  <2> QED
    BY <2>1, <2>3, <2>4
<1>4. Found(f)[N] = IF PrefixWithLogger(f, N) THEN SubSeq(f, 1, Longest(f, N)) ELSE RootOrNone
  BY <1>1 DEF Found
<1>5. Nearest(f) = IF own # {} THEN CHOOSE n \in own : \A m \in own : Len(m) <= Len(n)
                   ELSE RootOrNone
  BY DEF Nearest
<1> HIDE DEF N, own
<1>6. PrefixWithLogger(f, N) <=> own # {}
  BY <1>2, <1>3 DEF PrefixWithLogger
<1>7. CASE own # {}
  <2> DEFINE L == Longest(f, N)
             n == SubSeq(f, 1, L)
             m == CHOOSE n1 \in own : \A m1 \in own : Len(m1) <= Len(n1)
  <2>1. IsLongest(f, N, L)
    BY <1>1, <1>6, <1>7, LongestExists
  <2>2. L \in 1 .. N /\ n \in own /\ Len(n) = L
    BY <1>3, <2>1 DEF IsLongest
  <2>3. \A x \in own : Len(x) <= Len(n)
    BY <1>2, <2>1, <2>2 DEF IsLongest
  <2>4. m \in own /\ \A x \in own : Len(x) <= Len(m)
    BY <2>2, <2>3
  <2>5. Len(m) = Len(n)
    <3>1. Len(m) \in 1 .. N /\ Len(m) <= L /\ L <= Len(m)
      BY <1>2, <2>2, <2>3, <2>4
    <3> QED
      BY <1>1, <2>2, <3>1
  <2>6. m = n
    BY <1>2, <2>2, <2>4, <2>5
  <2> QED
    BY <1>4, <1>5, <1>6, <1>7, <2>6 DEF N
<1>8. CASE own = {}
  BY <1>4, <1>5, <1>6, <1>8 DEF N
<1> QED
  BY <1>7, <1>8

LEMMA NamesTypedIsKept == NamesTyped /\ [Next]_vars => NamesTyped'
<1> SUFFICES ASSUME NamesTyped, [Next]_vars PROVE NamesTyped'
  OBVIOUS
<1>1. ASSUME DOMAIN loggers' = DOMAIN loggers PROVE NamesTyped'
  BY <1>1 DEF NamesTyped
<1>2. ASSUME NEW c \in Configs, LoadFromConfig(c) PROVE NamesTyped'
  <2>1. DOMAIN loggers' = GoodLoggers(c)
    BY <1>2 DEF LoadFromConfig, Clear
  <2> QED
    BY <2>1, LogAssumption, EmptySeq DEF NamesTyped, GoodLoggers
<1>3. ASSUME NEW c \in Configs, Initialize(c) PROVE NamesTyped'
  BY <1>1, <1>2, <1>3 DEF Initialize
<1>4. ASSUME NEW v \in BOOLEAN, UsingDefaultLogs(v) PROVE NamesTyped'
  <2>1. CASE v
    <3>1. DOMAIN loggers' = {Root}
      BY <1>4, <2>1 DEF UsingDefaultLogs, Clear
    <3>2. Len(Root) = 1
      BY DEF Root
    <3> QED
      BY <3>1, <3>2 DEF NamesTyped
  <2>2. CASE ~v
    BY <1>1, <1>4, <2>2 DEF UsingDefaultLogs
  <2> QED
    BY <2>1, <2>2
<1>5. ASSUME NEW n, NEW l, SetLoggerLevel(n, l) PROVE NamesTyped'
  BY <1>1, <1>5 DEF SetLoggerLevel
<1>6. ASSUME NEW n, NEW l, SetChannelLevel(n, l) PROVE NamesTyped'
  BY <1>1, <1>6 DEF SetChannelLevel
<1>7. ASSUME NEW t \in Threads, NEW f, NEW l, NEW w, Gate(t, f, l) \/ FormatThrows(t) \/ Write(t, w)
      PROVE NamesTyped'
  BY <1>1, <1>7 DEF Gate, FormatThrows, Write
<1>8. CASE UNCHANGED vars
  BY <1>1, <1>8 DEF vars
<1> QED
  BY <1>3, <1>4, <1>5, <1>6, <1>7, <1>8 DEF Next

(* For all names and configurations a message goes to the nearest ancestor of *)
(* its name that has a logger, and to root if none has (Log.cpp:275-289).     *)
THEOREM LookupFindsNearest == Spec => []LookupIsNearest
<1>1. Init => NamesTyped
  BY DEF Init, NamesTyped
<1>2. NamesTyped => LookupIsNearest
  <2> SUFFICES ASSUME NamesTyped, NEW f \in Filters
               PROVE  GetLoggerByType(f) = Nearest(f)
    BY DEF LookupIsNearest
  <2>1. f \in Seq(STRING) /\ f # <<>> /\ Len(f) \in Nat
    BY LogAssumption
  <2> QED
    BY <2>1, SearchFinds, FoundIsNearest
<1> QED
  BY <1>1, <1>2, NamesTypedIsKept, PTL DEF Spec
-----------------------------------------------------------------------------
(* What waits between the gate and the write has one of the names that        *)
(* messages are logged under.                                                 *)
PendingTyped ==
    /\ pending = [t \in Threads |-> pending[t]]
    /\ \A t \in Threads : pending[t] # NoMessage => pending[t].filter \in Filters

LEMMA PendingTypedIsKept == PendingTyped /\ [Next]_vars => PendingTyped'
<1> SUFFICES ASSUME PendingTyped, [Next]_vars PROVE PendingTyped'
  OBVIOUS
<1>1. ASSUME UNCHANGED pending PROVE PendingTyped'
  BY <1>1 DEF PendingTyped
<1>2. ASSUME NEW t \in Threads, NEW m,
             pending' = [pending EXCEPT ![t] = m],
             m # NoMessage => m.filter \in Filters
      PROVE  PendingTyped'
  BY <1>2 DEF PendingTyped
<1>3. Server \in Filters /\ GM \in Filters
  BY LogAssumption
<1>4. ASSUME NEW t \in Threads, NEW f \in Filters, NEW l, Gate(t, f, l) PROVE PendingTyped'
  BY <1>2, <1>4 DEF Gate
<1>5. ASSUME NEW t \in Threads, FormatThrows(t) PROVE PendingTyped'
  BY <1>2, <1>3, <1>5 DEF FormatThrows
<1>6. ASSUME NEW t \in Threads, NEW w, Write(t, w) PROVE PendingTyped'
  BY <1>2, <1>6 DEF Write
<1>7. CASE \E c \in Configs : Initialize(c)
  BY <1>1, <1>7 DEF Initialize
<1>8. CASE \E v \in BOOLEAN : UsingDefaultLogs(v)
  BY <1>1, <1>8 DEF UsingDefaultLogs
<1>9. ASSUME NEW n, NEW l, SetLoggerLevel(n, l) \/ SetChannelLevel(n, l) PROVE PendingTyped'
  BY <1>1, <1>9 DEF SetLoggerLevel, SetChannelLevel
<1>10. CASE UNCHANGED vars
  BY <1>1, <1>10 DEF vars
<1> QED
  BY <1>3, <1>4, <1>5, <1>6, <1>7, <1>8, <1>9, <1>10 DEF Next

(* Whatever changed since the gate, a message reaches a channel only when the *)
(* levels of the nearest logger and of the channel admit it at the write      *)
(* (Logger.cpp:34, 39).                                                       *)
THEOREM WriteChecksLevels == Spec => LevelsAtWriteDecide
<1> DEFINE W == \A t \in Threads : \A w \in SUBSET DOMAIN level :
                  Write(t, w) =>
                    \A c \in w :
                       /\ level[c] >= pending[t].level
                       /\ loggers[Nearest(pending[t].filter)].level >= pending[t].level
<1>1. Init => NamesTyped /\ PendingTyped
  BY DEF Init, NamesTyped, PendingTyped
<1>2. NamesTyped /\ PendingTyped /\ [Next]_vars => W
  <2> SUFFICES ASSUME NamesTyped, PendingTyped, NEW t \in Threads,
                      NEW w \in SUBSET DOMAIN level, Write(t, w), NEW c \in w
               PROVE  /\ level[c] >= pending[t].level
                      /\ loggers[Nearest(pending[t].filter)].level >= pending[t].level
    OBVIOUS
  <2> DEFINE f == pending[t].filter
             l == pending[t].level
             n == GetLoggerByType(f)
  <2>1. f \in Filters
    BY DEF Write, PendingTyped
  <2>2. f \in Seq(STRING) /\ f # <<>> /\ Len(f) \in Nat
    BY <2>1, LogAssumption
  <2> HIDE DEF f
  <2>3. n = Nearest(f)
    BY <2>2, SearchFinds, FoundIsNearest
  <2>4. PICK broken \in SUBSET DOMAIN level : w = Written(f, l, broken)
    BY DEF Write, f
  <2> HIDE DEF l
  <2>5. PICK k \in Accepting(n, l) : c = loggers[n].channels[k]
    BY <2>4 DEF Written
  <2>6. loggers[n].level >= l /\ level[loggers[n].channels[k]] >= l
    BY DEF Accepting, LoggerAccepts
  <2> QED
    BY <2>3, <2>5, <2>6 DEF f, l
<1>3. Spec => [](NamesTyped /\ PendingTyped)
  BY <1>1, NamesTypedIsKept, PendingTypedIsKept, PTL DEF Spec
<1> HIDE DEF W
<1>4. [](NamesTyped /\ PendingTyped) /\ [][Next]_vars => [][W]_vars
  BY <1>2, PTL
<1> QED
  BY <1>3, <1>4, PTL DEF Spec, LevelsAtWriteDecide, W

-----------------------------------------------------------------------------
(* The configuration store.                                                  *)

(* The file that the owner of the lock is reading. *)
BeingRead == IF Optional(lock) THEN conf ELSE dist

(* What was collected from the first k lines of a file: the first line for    *)
(* each option.                                                               *)
Collected(file, k) ==
    /\ DOMAIN fileConfigs = {n \in Names : \E i \in 1 .. k : IsFor(file[i], n)}
    /\ \A n \in DOMAIN fileConfigs : \E i \in 1 .. k :
          /\ IsFor(file[i], n)
          /\ \A j \in 1 .. i - 1 : ~IsFor(file[j], n)
          /\ fileConfigs[n] = file[i].value

(* The lock keeps the file and what is known of it together.                  *)
ReadInStep ==
    /\ lock \in Loaders \union {Nobody}
    /\ pc = [t \in Loaders |-> pc[t]]
    /\ dist \in Files \union {NoFile} /\ conf \in Files \union {NoFile}
    /\ lock \in Loaders =>
          /\ pc[lock] \in {"initial", "optional"}
          /\ BeingRead \in Files
          /\ \E k \in 0 .. Len(BeingRead) :
                /\ rest = SubSeq(BeingRead, k + 1, Len(BeingRead))
                /\ Collected(BeingRead, k)

StoreInv ==
    /\ ReadInStep
    /\ sources \in Seq([optional : BOOLEAN, lines : Files])
    /\ OptionsAreWhatFilesSay
-----------------------------------------------------------------------------
LEMMA FileIsSeq ==
    ASSUME NEW file \in Files
    PROVE  /\ file \in Seq({file[i] : i \in DOMAIN file})
           /\ Len(file) \in Nat
           /\ DOMAIN file = 1 .. Len(file)
           /\ \A i \in DOMAIN file : file[i] \in {Junk, Broken} \/ file[i].name \in Names
           /\ SubSeq(file, 0 + 1, Len(file)) = file
<1>1. file \in Seq({file[i] : i \in DOMAIN file})
  BY ConfigAssumption
<1>2. SubSeq(file, 1, Len(file)) = file
  BY <1>1, SubSeqFull
<1> QED
  BY <1>1, <1>2, LenProperties, ConfigAssumption

(* Opening a file begins with nothing collected. *)
LEMMA OpenKeepsStep ==
    ASSUME ReadInStep, NEW t \in Loaders, LoadInitial(t) \/ LoadAdditionalFile(t)
    PROVE  ReadInStep'
<1> USE DEF LoadInitial, LoadAdditionalFile, Open, Goes, ReadInStep
<1>1. CASE lock' = lock
  <2>1. lock = Nobody
    OBVIOUS
  <2> QED
    BY <1>1, <2>1, ConfigAssumption
<1>2. CASE lock' # lock
  <2>1. /\ lock' = t /\ rest' = BeingRead' /\ fileConfigs' = <<>>
        /\ pc'[lock'] \in {"initial", "optional"}
        /\ BeingRead' \in Files
    BY <1>2 DEF BeingRead, Optional
  <2>2. rest' = SubSeq(BeingRead', 0 + 1, Len(BeingRead'))
    BY <2>1, FileIsSeq
  <2>3. Collected(BeingRead, 0)'
    BY <2>1 DEF Collected
  <2>4. 0 \in 0 .. Len(BeingRead')
    BY <2>1, FileIsSeq
  <2> QED
    BY <2>1, <2>2, <2>3, <2>4
<1> QED
  BY <1>1, <1>2

LEMMA ReadLineKeepsStep ==
    ASSUME ReadInStep, NEW t \in Loaders, ReadLine(t)
    PROVE  ReadInStep'
<1> DEFINE file == BeingRead
<1>1. lock = t /\ file \in Files
  BY DEF ReadInStep, ReadLine, Parsing
<1>2. PICK k \in 0 .. Len(file) : rest = SubSeq(file, k + 1, Len(file)) /\ Collected(file, k)
  BY <1>1 DEF ReadInStep
<1>3. UNCHANGED <<dist, conf, lock, pc, BeingRead>>
  BY DEF ReadLine, BeingRead, Optional
<1> HIDE DEF file
<1>4. k \in Nat /\ Len(file) \in Nat /\ DOMAIN file = 1 .. Len(file)
  BY <1>1, <1>2, FileIsSeq
<1>5. k < Len(file)
  BY <1>1, <1>2, <1>4, SubSeqEmpty, FileIsSeq DEF ReadLine
<1>6. Head(rest) = file[k + 1] /\ rest' = SubSeq(file, (k + 1) + 1, Len(file))
  <2>1. file \in Seq({file[i] : i \in DOMAIN file})
    BY <1>1, FileIsSeq
  <2>2. /\ k + 1 \in 1 .. Len(file) + 1 /\ Len(file) \in Nat /\ k + 1 <= Len(file)
    BY <1>4, <1>5
  <2> QED
    BY <1>2, <2>1, <2>2, HeadTailOfSubSeq DEF ReadLine
<1>7. Collected(file, k + 1)'
  <2> DEFINE line == file[k + 1]
  <2>1. k + 1 \in DOMAIN file /\ line # Broken
    BY <1>4, <1>5, <1>6 DEF ReadLine
  <2>2. line # Junk => line.name \in Names
    BY <1>1, <2>1, FileIsSeq
  <2>3. \A n : (\E i \in 1 .. k + 1 : IsFor(file[i], n))
                 <=> (\E i \in 1 .. k : IsFor(file[i], n)) \/ IsFor(line, n)
    BY <1>4
  <2>4. CASE line # Junk /\ IsNew(line)
    <3>1. fileConfigs' = Added(fileConfigs, line.name, line.value)
      BY <1>6, <2>4 DEF ReadLine
    <3>2. \A n : IsFor(line, n) <=> n = line.name
      BY <2>4 DEF IsFor
    <3>3. DOMAIN fileConfigs' = DOMAIN fileConfigs \union {line.name}
      BY <3>1 DEF Added
    <3>4. DOMAIN fileConfigs' = {n \in Names : \E i \in 1 .. k + 1 : IsFor(file[i], n)}
      BY <1>2, <2>2, <2>3, <2>4, <3>2, <3>3 DEF Collected
    <3>5. ASSUME NEW n \in DOMAIN fileConfigs'
          PROVE  \E i \in 1 .. k + 1 :
                    /\ IsFor(file[i], n)
                    /\ \A j \in 1 .. i - 1 : ~IsFor(file[j], n)
                    /\ fileConfigs'[n] = file[i].value
      <4>1. CASE n = line.name
        <5>1. \A j \in 1 .. k : ~IsFor(file[j], n)
          BY <1>2, <2>2, <2>4, <4>1 DEF Collected, IsNew
        <5>2. fileConfigs'[n] = line.value
          BY <3>1, <4>1 DEF Added
        <5> QED
          BY <1>4, <3>2, <4>1, <5>1, <5>2
      <4>2. CASE n # line.name
        <5>1. n \in DOMAIN fileConfigs /\ fileConfigs'[n] = fileConfigs[n]
          BY <3>1, <3>3, <4>2 DEF Added
        <5> QED
          BY <1>2, <1>4, <5>1 DEF Collected
      <4> QED
        BY <4>1, <4>2
    <3> QED
      BY <1>3, <3>4, <3>5 DEF Collected, file
  <2>5. CASE ~(line # Junk /\ IsNew(line))
    <3>1. fileConfigs' = fileConfigs
      BY <1>6, <2>5 DEF ReadLine
    <3>2. \A n \in Names : IsFor(line, n) => \E i \in 1 .. k : IsFor(file[i], n)
      BY <1>2, <2>5 DEF Collected, IsNew, IsFor
    <3>3. DOMAIN fileConfigs' = {n \in Names : \E i \in 1 .. k + 1 : IsFor(file[i], n)}
      BY <1>2, <2>3, <3>1, <3>2 DEF Collected
    <3>4. \A n \in DOMAIN fileConfigs' : \E i \in 1 .. k + 1 :
                    /\ IsFor(file[i], n)
                    /\ \A j \in 1 .. i - 1 : ~IsFor(file[j], n)
                    /\ fileConfigs'[n] = file[i].value
      BY <1>2, <1>4, <3>1 DEF Collected
    <3> QED
      BY <1>3, <3>3, <3>4 DEF Collected, file
  <2> QED
    BY <2>4, <2>5
<1>8. BeingRead' = file
  BY <1>3 DEF file
<1>9. Collected(BeingRead, k + 1)'
  BY <1>7 DEF file
<1>10. k + 1 \in 0 .. Len(BeingRead')
  BY <1>4, <1>5, <1>8
<1>11. BeingRead' \in Files /\ rest' = SubSeq(BeingRead', (k + 1) + 1, Len(BeingRead'))
  BY <1>1, <1>6, <1>8
<1> QED
  BY <1>1, <1>3, <1>9, <1>10, <1>11 DEF ReadInStep

LEMMA ReadInStepIsKept == ReadInStep /\ [StoreNext]_storeVars => ReadInStep'
<1> SUFFICES ASSUME ReadInStep, [StoreNext]_storeVars PROVE ReadInStep'
  OBVIOUS
<1>1. ASSUME NEW t \in Loaders, FailFile(t) \/ ApplyFile(t) PROVE ReadInStep'
  BY <1>1, ConfigAssumption DEF ReadInStep, FailFile, ApplyFile, Unlock
<1>2. CASE Edit
  BY <1>2, ConfigAssumption DEF ReadInStep, Edit
<1>3. CASE Configure
  <2>1. lock \notin Loaders
    BY <1>3 DEF ReadInStep, Configure
  <2> QED
    BY <1>3, <2>1 DEF ReadInStep, Configure
<1>4. CASE UNCHANGED storeVars
  <2>1. BeingRead' = BeingRead /\ \A k : Collected(BeingRead, k)' = Collected(BeingRead, k)
    BY <1>4 DEF storeVars, parser, BeingRead, Optional, Collected
  <2> QED
    BY <1>4, <2>1 DEF ReadInStep, storeVars, parser
<1> QED
  BY <1>1, <1>2, <1>3, <1>4, OpenKeepsStep, ReadLineKeepsStep DEF StoreNext
-----------------------------------------------------------------------------
LEMMA NothingLeft ==
    ASSUME NEW file \in Files, NEW k \in 0 .. Len(file),
           SubSeq(file, k + 1, Len(file)) = <<>>
    PROVE  k = Len(file)
<1>1. file \in Seq({file[i] : i \in DOMAIN file}) /\ Len(file) \in Nat
  BY FileIsSeq
<1>2. k + 1 <= Len(file) => Len(SubSeq(file, k + 1, Len(file))) = Len(file) - (k + 1) + 1
  BY <1>1, SubSeqProperties
<1>3. Len(SubSeq(file, k + 1, Len(file))) = 0
  <2> DEFINE remains == SubSeq(file, k + 1, Len(file))
  <2>1. remains = <<>>
    OBVIOUS
  <2> HIDE DEF remains
  <2>2. Len(remains) = 0
    BY <2>1
  <2> QED
    BY <2>2 DEF remains
<1> QED
  BY <1>1, <1>2, <1>3

(* A file that does not end in an error has been read to its end. *)
LEMMA FileIsCollected ==
    ASSUME ReadInStep, NEW t \in Loaders, ApplyFile(t)
    PROVE  /\ BeingRead = IF Optional(t) THEN conf ELSE dist
           /\ BeingRead \in Files
           /\ Collected(BeingRead, Len(BeingRead))
<1>1. lock = t /\ BeingRead \in Files
  BY DEF ReadInStep, ApplyFile, Parsing
<1>2. PICK k \in 0 .. Len(BeingRead) :
         rest = SubSeq(BeingRead, k + 1, Len(BeingRead)) /\ Collected(BeingRead, k)
  BY <1>1 DEF ReadInStep
<1>3. k = Len(BeingRead)
  BY <1>1, <1>2, NothingLeft DEF ApplyFile
<1> QED
  BY <1>1, <1>2, <1>3 DEF BeingRead

(* What is first among a set of lines is the smallest of it. *)
LEMMA FirstIsSmallest ==
    ASSUME NEW I \in SUBSET Nat, NEW i \in I, \A j \in I : i <= j
    PROVE  Smallest(I) = i
<1>1. Smallest(I) \in I /\ \A j \in I : Smallest(I) <= j
  BY DEF Smallest
<1>2. Smallest(I) \in Nat /\ i \in Nat /\ Smallest(I) <= i /\ i <= Smallest(I)
  BY <1>1
<1> QED
  BY <1>2

(* Then the collected options are what the file says. *)
LEMMA CollectedIsWhatItSays ==
    ASSUME NEW file \in Files, Collected(file, Len(file))
    PROVE  /\ \A n \in Names : n \in DOMAIN fileConfigs <=> LinesFor(file, n) # {}
           /\ DOMAIN fileConfigs \subseteq Names
           /\ \A n \in DOMAIN fileConfigs : fileConfigs[n] = FirstLine(file, n).value
<1>1. DOMAIN file = 1 .. Len(file) /\ Len(file) \in Nat
  BY FileIsSeq
<1>2. ASSUME NEW n \in DOMAIN fileConfigs
      PROVE  fileConfigs[n] = FirstLine(file, n).value
  <2>1. PICK i \in 1 .. Len(file) :
          /\ IsFor(file[i], n)
          /\ \A j \in 1 .. i - 1 : ~IsFor(file[j], n)
          /\ fileConfigs[n] = file[i].value
    BY DEF Collected
  <2>2. LinesFor(file, n) \in SUBSET Nat /\ i \in LinesFor(file, n)
    BY <1>1, <2>1 DEF LinesFor
  <2>3. \A j \in LinesFor(file, n) : i <= j
    BY <1>1, <2>1 DEF LinesFor
  <2>4. Smallest(LinesFor(file, n)) = i
    BY <2>2, <2>3, FirstIsSmallest
  <2> QED
    BY <2>1, <2>4 DEF FirstLine
<1> QED
  BY <1>1, <1>2 DEF Collected, LinesFor

(* Applying a file: it becomes the last of the sources, and the options it    *)
(* gives are those that are accepted.                                         *)
LEMMA ApplyKeepsStore ==
    ASSUME StoreInv, NEW t \in Loaders, ApplyFile(t)
    PROVE  /\ sources' \in Seq([optional : BOOLEAN, lines : Files])
           /\ OptionsAreWhatFilesSay'
<1> DEFINE file == BeingRead
           source == [optional |-> Optional(t), lines |-> file]
           keys == {n \in DOMAIN fileConfigs : Accepts(n, Optional(t))}
<1>0. PICK N \in Nat : N = Len(sources)
  BY LenProperties DEF StoreInv
<1>1. file \in Files /\ sources' = Append(sources, source) /\ Collected(file, Len(file))
  BY FileIsCollected DEF StoreInv, ApplyFile
<1>2. /\ options' = [n \in DOMAIN options \union keys |->
                       IF n \in keys THEN fileConfigs[n] ELSE options[n]]
  BY DEF ApplyFile
<1> HIDE DEF file
<1>3. source \in [optional : BOOLEAN, lines : Files]
  BY <1>1 DEF Optional
<1>4. /\ sources' \in Seq([optional : BOOLEAN, lines : Files])
      /\ N \in Nat /\ DOMAIN sources = 1 .. N
      /\ DOMAIN sources' = 1 .. N + 1
      /\ \A k \in 1 .. N : sources'[k] = sources[k]
      /\ sources'[N + 1] = source
  <2> HIDE DEF source
  <2> QED
    BY <1>0, <1>1, <1>3, AppendProperties, LenProperties DEF StoreInv
<1>5. \A k \in 1 .. N : \A n : Says(k, n)' = Says(k, n) /\ Gives(k, n)' = Gives(k, n)
  <2> SUFFICES ASSUME NEW k \in 1 .. N, NEW n
               PROVE  Says(k, n)' = Says(k, n) /\ Gives(k, n)' = Gives(k, n)
    OBVIOUS
  <2>1. \A j \in 1 .. k - 1 : j \in 1 .. N
    BY <1>4
  <2>2. sources'[k] = sources[k] /\ \A j \in 1 .. k - 1 : sources'[j] = sources[j]
    BY <1>4, <2>1
  <2>3. Says(k, n)' = Says(k, n) /\ \A j \in 1 .. k - 1 : Says(j, n)' = Says(j, n)
    BY <2>2 DEF Says
  <2> QED
    BY <2>2, <2>3 DEF Gives
<1>6. \A n \in Names : Says(N + 1, n)' = (n \in DOMAIN fileConfigs)
  BY <1>1, <1>4, CollectedIsWhatItSays DEF Says
<1>7. \A n \in Names : n \in DOMAIN options <=> \E k \in 1 .. N : Gives(k, n)
  BY <1>4 DEF StoreInv, OptionsAreWhatFilesSay, Givers
<1>8. \A n \in Names : Gives(N + 1, n)' <=> n \in keys
  <2> SUFFICES ASSUME NEW n \in Names PROVE Gives(N + 1, n)' <=> n \in keys
    OBVIOUS
  <2>1. Gives(N + 1, n)' <=>
          /\ n \in DOMAIN fileConfigs
          /\ ~Optional(t) \/ n \in LogNames
             \/ \E j \in 1 .. N : Says(j, n) /\ ~sources[j].optional
    <3>1. /\ (N + 1) - 1 = N
          /\ sources'[N + 1].optional = Optional(t)
          /\ \A j \in 1 .. N : sources'[j].optional = sources[j].optional
      BY <1>4
    <3>2. Says(N + 1, n)' = (n \in DOMAIN fileConfigs)
      BY <1>6
    <3>3. \A j \in 1 .. N : Says(j, n)' = Says(j, n)
      BY <1>5
    <3>4. Gives(N + 1, n)' <=>
            /\ Says(N + 1, n)'
            /\ ~sources'[N + 1].optional \/ n \in LogNames
               \/ \E j \in 1 .. (N + 1) - 1 : Says(j, n)' /\ ~sources'[j].optional
      BY DEF Gives
    <3> QED
      BY <3>1, <3>2, <3>3, <3>4
  <2>2. (\E j \in 1 .. N : Says(j, n) /\ ~sources[j].optional) =>
           \E k \in 1 .. N : Gives(k, n)
    BY DEF Gives
  <2>3. (\E k \in 1 .. N : Gives(k, n)) => n \in LogNames
           \/ \E j \in 1 .. N : Says(j, n) /\ ~sources[j].optional
    BY <1>4 DEF Gives
  <2> QED
    BY <1>7, <2>1, <2>2, <2>3 DEF Accepts
<1>9. \A n \in Names : Givers(n)' = Givers(n) \union (IF n \in keys THEN {N + 1} ELSE {})
  <2> SUFFICES ASSUME NEW n \in Names
               PROVE  Givers(n)' = Givers(n) \union (IF n \in keys THEN {N + 1} ELSE {})
    OBVIOUS
  <2>1. Givers(n)' = {k \in 1 .. N + 1 : Gives(k, n)'}
    BY <1>4 DEF Givers
  <2>2. Givers(n) = {k \in 1 .. N : Gives(k, n)}
    BY <1>4 DEF Givers
  <2> QED
    <3>1. \A k \in 1 .. N : Gives(k, n)' <=> Gives(k, n)
      BY <1>5
    <3>2. Gives(N + 1, n)' <=> n \in keys
      BY <1>8
    <3> HIDE DEF keys
    <3>3. \A k \in 1 .. N + 1 : k \in 1 .. N \/ k = N + 1
      OBVIOUS
    <3> QED
      BY <2>1, <2>2, <3>1, <3>2, <3>3
<1>10. keys \subseteq Names /\ DOMAIN options \subseteq Names
  BY <1>1, CollectedIsWhatItSays DEF StoreInv, OptionsAreWhatFilesSay
<1>11. DOMAIN options' = {n \in Names : Givers(n)' # {}}
  BY <1>2, <1>9, <1>10 DEF StoreInv, OptionsAreWhatFilesSay
<1>12. ASSUME NEW n \in DOMAIN options'
       PROVE  \E last \in Givers(n)' :
                 /\ \A j \in Givers(n)' : j <= last
                 /\ options'[n] = FirstLine(sources'[last].lines, n).value
  <2>1. n \in Names /\ \A j \in Givers(n) : j \in 1 .. N
    BY <1>4, <1>11 DEF Givers
  <2>2. CASE n \in keys
    <3>1. options'[n] = FirstLine(file, n).value
      BY <1>1, <1>2, <2>2, CollectedIsWhatItSays
    <3>2. N + 1 \in Givers(n)' /\ \A j \in Givers(n)' : j <= N + 1
      BY <1>4, <1>9, <2>1, <2>2
    <3> QED
      BY <1>4, <3>1, <3>2
  <2>3. CASE n \notin keys
    <3>1. n \in DOMAIN options /\ options'[n] = options[n] /\ Givers(n)' = Givers(n)
      BY <1>2, <1>9, <2>1, <2>3
    <3>2. PICK last \in Givers(n) : /\ \A j \in Givers(n) : j <= last
                                    /\ options[n] = FirstLine(sources[last].lines, n).value
      BY <3>1 DEF StoreInv, OptionsAreWhatFilesSay
    <3>3. sources'[last] = sources[last]
      BY <1>4, <2>1, <3>2
    <3> QED
      BY <3>1, <3>2, <3>3
  <2> QED
    BY <2>2, <2>3
<1> QED
  BY <1>4, <1>11, <1>12 DEF OptionsAreWhatFilesSay

LEMMA StoreInvIsKept == StoreInv /\ [StoreNext]_storeVars => StoreInv'
<1> SUFFICES ASSUME StoreInv, [StoreNext]_storeVars PROVE StoreInv'
  OBVIOUS
<1>1. ReadInStep'
  BY ReadInStepIsKept DEF StoreInv
<1>2. ASSUME NEW t \in Loaders, LoadInitial(t) PROVE StoreInv'
  <2>1. options' = <<>> /\ sources' = <<>>
    BY <1>2 DEF LoadInitial, ClearOptions
  <2> QED
    BY <1>1, <2>1, EmptySeq DEF StoreInv, OptionsAreWhatFilesSay, Givers
<1>3. CASE UNCHANGED <<options, sources>>
  <2>1. \A n : Givers(n)' = Givers(n)
    BY <1>3 DEF Givers, Gives, Says
  <2> QED
    BY <1>1, <1>3, <2>1 DEF StoreInv, OptionsAreWhatFilesSay
<1>4. ASSUME NEW t \in Loaders, LoadAdditionalFile(t) \/ ReadLine(t) \/ FailFile(t)
      PROVE  UNCHANGED <<options, sources>>
  BY <1>4 DEF LoadAdditionalFile, ReadLine, FailFile
<1>5. Edit \/ Configure \/ UNCHANGED storeVars => UNCHANGED <<options, sources>>
  BY DEF Edit, Configure, storeVars
<1>6. ASSUME NEW t \in Loaders, ApplyFile(t) PROVE StoreInv'
  BY <1>1, <1>6, ApplyKeepsStore DEF StoreInv
<1> QED
  BY <1>2, <1>3, <1>4, <1>5, <1>6 DEF StoreNext

(* The store holds what the files loaded since the last clear say, however    *)
(* the loads of several threads and the edits of the files are interleaved,   *)
(* and a file that failed half way has left no trace (Config.cpp:49-190).     *)
THEOREM StoreHoldsWhatFilesSay == StoreSpec => []OptionsAreWhatFilesSay
<1>1. StoreInit => StoreInv
  BY EmptySeq, ConfigAssumption
     DEF StoreInit, StoreInv, ReadInStep, OptionsAreWhatFilesSay, Givers
<1>2. StoreInv => OptionsAreWhatFilesSay
  BY DEF StoreInv
<1> QED
  BY <1>1, <1>2, StoreInvIsKept, PTL DEF StoreSpec
=============================================================================
