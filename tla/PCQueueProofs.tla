---------------------------- MODULE PCQueueProofs ----------------------------
(***************************************************************************)
(* Proofs about PCQueue for any finite set of threads, any set of items    *)
(* and any number of calls.                                                *)
(***************************************************************************)
EXTENDS PCQueue, FiniteSetTheorems, TLAPS

(* A thread that is about to push holds the item it pushes. *)
PusherHasItem ==
    \A t \in Threads : op[t] = "Push" /\ pc[t] # "idle" => arg[t] \in Items

(* Only WaitAndPop sleeps. *)
SleeperIsConsumer == \A t \in Threads : pc[t] = "wait" => op[t] = "WaitAndPop"

(* The inductive invariant.  NoLostWakeup alone is not inductive: a woken     *)
(* thread counts as a consumer because it is in WaitAndPop, a consumer that   *)
(* gives up because of _shutdown leaves items behind, and only the absence of *)
(* sleepers after Cancel excuses it.                                          *)
IInv ==
    /\ TypeOK
    /\ PusherHasItem
    /\ SleeperIsConsumer
    /\ NoSleeperAfterCancel
    /\ NoLostWakeup
-----------------------------------------------------------------------------
(* The sets that NoLostWakeup counts are finite, now and after a step. *)
LEMMA Finite ==
    /\ IsFiniteSet(Awake) /\ Cardinality(Awake) \in Nat
    /\ IsFiniteSet(Awake') /\ Cardinality(Awake') \in Nat
<1>1. Awake \in SUBSET Threads /\ Awake' \in SUBSET Threads
  BY DEF Awake
<1>2. IsFiniteSet(Threads)
  BY PCQueueAssumption
<1>3. IsFiniteSet(Awake) /\ IsFiniteSet(Awake')
  BY <1>1, <1>2, FS_Subset
<1> QED
  BY <1>3, FS_CardinalityType

(* A step after which at least the same consumers are awake counts at least   *)
(* as many of them.                                                           *)
LEMMA AwakeGrows ==
    ASSUME Awake \subseteq Awake'
    PROVE  Cardinality(Awake) <= Cardinality(Awake')
<1>1. Awake \in SUBSET Awake'
  OBVIOUS
<1> QED
  BY <1>1, Finite, FS_Subset

(* A step that puts one consumer more on its way counts one more. *)
LEMMA AwakeGains ==
    ASSUME NEW s, s \notin Awake, Awake \union {s} \subseteq Awake'
    PROVE  Cardinality(Awake) + 1 <= Cardinality(Awake')
<1>1. IsFiniteSet(Awake \union {s}) /\ Cardinality(Awake \union {s}) = Cardinality(Awake) + 1
  BY Finite, FS_AddElement
<1>2. (Awake \union {s}) \in SUBSET Awake'
  OBVIOUS
<1>3. Cardinality(Awake \union {s}) <= Cardinality(Awake')
  BY <1>2, Finite, FS_Subset
<1> QED
  BY <1>1, <1>3, Finite

(* A step that loses no consumer but s counts at most one less. *)
LEMMA AwakeLoses ==
    ASSUME NEW s, s \in Awake, Awake \ {s} \subseteq Awake'
    PROVE  Cardinality(Awake) <= Cardinality(Awake') + 1
<1>1. IsFiniteSet(Awake \ {s}) /\ Cardinality(Awake \ {s}) = Cardinality(Awake) - 1
  BY Finite, FS_RemoveElement
<1>2. (Awake \ {s}) \in SUBSET Awake'
  OBVIOUS
<1>3. Cardinality(Awake \ {s}) <= Cardinality(Awake')
  BY <1>2, Finite, FS_Subset
<1> QED
  BY <1>1, <1>3, Finite
-----------------------------------------------------------------------------
(* Taking the front element keeps both sequences well typed. *)
LEMMA TakeFrontType ==
    ASSUME queue \in Seq(Items), popped \in Seq(Items), queue # <<>>, TakeFront
    PROVE  queue' \in Seq(Items) /\ popped' \in Seq(Items)
<1>1. Head(queue) \in Items /\ Tail(queue) \in Seq(Items)
  OBVIOUS
<1>2. queue' = Tail(queue) /\ popped' = Append(popped, Head(queue))
  BY DEF TakeFront
<1> QED
  BY <1>1, <1>2

(* The state of every variable stays in its type. *)
LEMMA TypeStep ==
    ASSUME TypeOK, PusherHasItem, [Next]_vars
    PROVE  TypeOK'
<1> USE DEF TypeOK
<1>1. ASSUME NEW t \in Threads, NEW i \in Fresh, Call(t, "Push", i)
      PROVE  TypeOK'
  <2>1. i \in Items
    BY <1>1 DEF Fresh
  <2>2. calls' \in [Threads -> 0 .. MaxCalls]
    BY <1>1, PCQueueAssumption DEF Call
  <2> QED
    BY <1>1, <2>1, <2>2 DEF Call, Ops
<1>2. ASSUME NEW t \in Threads, NEW o \in Ops \ {"Push"}, Call(t, o, None)
      PROVE  TypeOK'
  <2>1. calls' \in [Threads -> 0 .. MaxCalls]
    BY <1>2, PCQueueAssumption DEF Call
  <2> QED
    BY <1>2, <2>1 DEF Call
<1>3. ASSUME NEW t \in Threads, Acquire(t)
      PROVE  TypeOK'
  BY <1>3 DEF Acquire
<1>4. ASSUME NEW t \in Threads, Push(t)
      PROVE  TypeOK'
  <2>1. arg[t] \in Items
    BY <1>4 DEF Push, Runs, PusherHasItem
  <2>2. pc' \in [Threads -> {"idle", "lock", "run", "wait"}]
    BY <1>4 DEF Push, Return
  <2>3. queue' \in Seq(Items)
    BY <1>4, <2>1 DEF Push
  <2>4. arg' \in [Threads -> Items \union {None}]
    BY <1>4 DEF Push
  <2> QED
    BY <1>4, <2>2, <2>3, <2>4 DEF Push, Runs
<1>5. ASSUME NEW t \in Threads, Empty(t)
      PROVE  TypeOK'
  BY <1>5 DEF Empty, Runs, Return
<1>6. ASSUME NEW t \in Threads, Pop(t)
      PROVE  TypeOK'
  <2>1. pc' \in [Threads -> {"idle", "lock", "run", "wait"}]
    BY <1>6 DEF ComesBackEmptyHanded, Pop, Return
  <2>2. queue' \in Seq(Items) /\ popped' \in Seq(Items)
    BY <1>6, TakeFrontType DEF ComesBackEmptyHanded, Pop
  <2>3. UNCHANGED <<shutdown, op, arg, calls, deleted>> /\ owner' = None
    BY <1>6 DEF ComesBackEmptyHanded, Pop, Runs
  <2> QED
    BY <2>1, <2>2, <2>3
<1>7. ASSUME NEW t \in Threads, WaitAndPop(t)
      PROVE  TypeOK'
  <2>1. pc' \in [Threads -> {"idle", "lock", "run", "wait"}]
    BY <1>7 DEF MustWait, ComesBackEmptyHanded, WaitAndPop, Return
  <2>2. queue' \in Seq(Items) /\ popped' \in Seq(Items)
    BY <1>7, TakeFrontType DEF MustWait, ComesBackEmptyHanded, WaitAndPop
  <2>3. UNCHANGED <<shutdown, op, arg, calls, deleted>> /\ owner' = None
    BY <1>7 DEF MustWait, ComesBackEmptyHanded, WaitAndPop, Runs
  <2> QED
    BY <2>1, <2>2, <2>3
<1>8. ASSUME NEW t \in Threads, Cancel(t)
      PROVE  TypeOK'
  <2>1. Elements(queue) \subseteq Items
    BY DEF Elements
  <2> QED
    BY <1>8, <2>1 DEF NotifyAll, Cancel, Runs, Return
<1>9. ASSUME NEW t \in Threads, Spurious(t)
      PROVE  TypeOK'
  BY <1>9 DEF Spurious
<1>10. CASE UNCHANGED vars
  BY <1>10 DEF vars
<1> QED
  BY <1>1, <1>2, <1>3, <1>4, <1>5, <1>6, <1>7, <1>8, <1>9, <1>10 DEF Next, Run

(* What each thread carries agrees with what it is doing. *)
LEMMA RolesStep ==
    ASSUME TypeOK, PusherHasItem, SleeperIsConsumer, [Next]_vars
    PROVE  PusherHasItem' /\ SleeperIsConsumer'
<1> USE DEF TypeOK, PusherHasItem, SleeperIsConsumer
<1>1. ASSUME NEW t \in Threads, NEW o \in Ops, NEW i \in Items \union {None},
             o = "Push" => i \in Items, Call(t, o, i)
      PROVE  PusherHasItem' /\ SleeperIsConsumer'
  BY <1>1 DEF Call
<1>2. ASSUME NEW t \in Threads, Acquire(t) \/ Spurious(t)
      PROVE  PusherHasItem' /\ SleeperIsConsumer'
  BY <1>2 DEF Acquire, Spurious
<1>3. ASSUME NEW t \in Threads, Push(t)
      PROVE  PusherHasItem' /\ SleeperIsConsumer'
  <2>1. PICK W \in NotifyOne : Return(t, W)
    BY <1>3 DEF Push
  <2>2. W \subseteq Sleeping
    BY <2>1 DEF NotifyOne
  <2>3. \A s \in Threads : pc'[s] # "idle" => pc[s] # "idle" /\ s # t
    BY <2>1, <2>2 DEF Return, Sleeping
  <2>4. \A s \in Threads : pc'[s] = "wait" => pc[s] = "wait"
    BY <2>1 DEF Return
  <2> QED
    BY <1>3, <2>3, <2>4 DEF Push, Runs
<1>4. ASSUME NEW t \in Threads, Empty(t) \/ Pop(t) \/ WaitAndPop(t)
      PROVE  PusherHasItem' /\ SleeperIsConsumer'
  BY <1>4 DEF MustWait, ComesBackEmptyHanded, Empty, Pop, WaitAndPop, Runs, Return
<1>5. ASSUME NEW t \in Threads, Cancel(t)
      PROVE  PusherHasItem' /\ SleeperIsConsumer'
  BY <1>5 DEF NotifyAll, Cancel, Runs, Return, Sleeping
<1>6. CASE UNCHANGED vars
  BY <1>6 DEF vars
<1> QED
  BY <1>1, <1>2, <1>3, <1>4, <1>5, <1>6 DEF Next, Run, Fresh, Ops

(* After Cancel nobody sleeps, and nobody goes to sleep. *)
LEMMA CancelStep ==
    ASSUME TypeOK, NoSleeperAfterCancel, [Next]_vars
    PROVE  NoSleeperAfterCancel'
<1> USE DEF TypeOK, NoSleeperAfterCancel, Sleeping
<1>1. ASSUME NEW t \in Threads, NEW o, NEW i, Call(t, o, i)
      PROVE  NoSleeperAfterCancel'
  BY <1>1 DEF Call
<1>2. ASSUME NEW t \in Threads, Acquire(t) \/ Spurious(t)
      PROVE  NoSleeperAfterCancel'
  BY <1>2 DEF Acquire, Spurious
<1>3. ASSUME NEW t \in Threads, Push(t) \/ Empty(t) \/ Pop(t)
      PROVE  NoSleeperAfterCancel'
  BY <1>3 DEF ComesBackEmptyHanded, Push, Empty, Pop, Runs, Return
<1>4. ASSUME NEW t \in Threads, WaitAndPop(t)
      PROVE  NoSleeperAfterCancel'
  BY <1>4 DEF MustWait, ComesBackEmptyHanded, WaitAndPop, Runs, Return
<1>5. ASSUME NEW t \in Threads, Cancel(t)
      PROVE  NoSleeperAfterCancel'
  BY <1>5 DEF NotifyAll, Cancel, Runs, Return
<1>6. CASE UNCHANGED vars
  BY <1>6 DEF vars
<1> QED
  BY <1>1, <1>2, <1>3, <1>4, <1>5, <1>6 DEF Next, Run
-----------------------------------------------------------------------------
(* No step loses a wake-up. *)
LEMMA WakeupStep ==
    ASSUME IInv, [Next]_vars
    PROVE  NoLostWakeup'
<1> USE DEF IInv, TypeOK
<1>0. Len(queue) \in Nat
  OBVIOUS
<1>1. ASSUME NEW t \in Threads, NEW o, NEW i, Call(t, o, i)
      PROVE  NoLostWakeup'
  <2>1. Sleeping' = Sleeping /\ Awake \subseteq Awake'
    BY <1>1 DEF Call, Sleeping, Awake
  <2>2. queue' = queue
    BY <1>1 DEF Call
  <2> QED
    BY <2>1, <2>2, <1>0, AwakeGrows, Finite DEF NoLostWakeup
<1>2. ASSUME NEW t \in Threads, Acquire(t) \/ Spurious(t)
      PROVE  NoLostWakeup'
  <2>1. Sleeping' \subseteq Sleeping /\ Awake \subseteq Awake'
    BY <1>2 DEF Acquire, Spurious, Sleeping, Awake
  <2>2. queue' = queue
    BY <1>2 DEF Acquire, Spurious
  <2> QED
    BY <2>1, <2>2, <1>0, AwakeGrows, Finite DEF NoLostWakeup
<1>3. ASSUME NEW t \in Threads, Push(t)
      PROVE  NoLostWakeup'
  <2>1. Len(queue') = Len(queue) + 1
    BY <1>3 DEF Push, PusherHasItem, Runs
  <2>2. PICK W \in NotifyOne : Return(t, W)
    BY <1>3 DEF Push
  <2>3. op' = op /\ pc[t] = "run" /\ op[t] = "Push"
    BY <1>3 DEF Push, Runs
  <2>4. CASE Sleeping = {}
    <3>1. W = {}
      BY <2>2, <2>4 DEF NotifyOne
    <3>2. Sleeping' = {}
      BY <2>2, <2>4, <3>1 DEF Return, Sleeping
    <3> QED
      BY <3>2 DEF NoLostWakeup
  <2>5. CASE Sleeping # {}
    <3>1. PICK s \in Sleeping : W = {s}
      BY <2>2, <2>5 DEF NotifyOne
    <3>2. s \notin Awake /\ Awake \union {s} \subseteq Awake'
      BY <2>2, <2>3, <3>1 DEF Return, Sleeping, Awake, SleeperIsConsumer
    <3>3. Len(queue) <= Cardinality(Awake)
      BY <2>5 DEF NoLostWakeup
    <3> QED
      BY <2>1, <3>2, <3>3, <1>0, AwakeGains, Finite DEF NoLostWakeup
  <2> QED
    BY <2>4, <2>5
<1>4. ASSUME NEW t \in Threads, Empty(t) \/ Pop(t)
      PROVE  NoLostWakeup'
  <2>1. Sleeping' = Sleeping /\ Awake \subseteq Awake'
    BY <1>4 DEF ComesBackEmptyHanded, Empty, Pop, Runs, Return, Sleeping, Awake
  <2>2. Len(queue') \in Nat /\ Len(queue') <= Len(queue)
    BY <1>4 DEF ComesBackEmptyHanded, Empty, Pop, TakeFront
  <2> QED
    BY <2>1, <2>2, <1>0, AwakeGrows, Finite DEF NoLostWakeup
<1>5. ASSUME NEW t \in Threads, WaitAndPop(t)
      PROVE  NoLostWakeup'
  <2>1. CASE queue = <<>> /\ queue' = queue
    <3>1. Len(queue') = 0
      BY <2>1
    <3> QED
      BY <3>1, Finite DEF NoLostWakeup
  <2>2. CASE shutdown
    <3>1. shutdown' /\ NoSleeperAfterCancel'
      BY <1>5, <2>2, CancelStep DEF MustWait, ComesBackEmptyHanded, WaitAndPop
    <3> QED
      BY <3>1 DEF NoSleeperAfterCancel, NoLostWakeup
  <2>3. CASE queue # <<>> /\ ~shutdown
    <3>1. Return(t, {}) /\ TakeFront /\ op' = op
      BY <1>5, <2>3 DEF MustWait, ComesBackEmptyHanded, WaitAndPop, Runs
    <3>2. Sleeping' = Sleeping
      BY <1>5, <3>1 DEF MustWait, ComesBackEmptyHanded, WaitAndPop, Runs, Return, Sleeping
    <3>3. t \in Awake /\ Awake \ {t} \subseteq Awake'
      BY <1>5, <3>1 DEF MustWait, ComesBackEmptyHanded, WaitAndPop, Runs, Return, Awake
    <3>4. Len(queue') = Len(queue) - 1
      BY <2>3, <3>1 DEF TakeFront
    <3> QED
      <4>1. Cardinality(Awake) <= Cardinality(Awake') + 1
        BY <3>3, AwakeLoses
      <4>2. ASSUME Sleeping' # {} PROVE Len(queue) <= Cardinality(Awake)
        BY <3>2, <4>2 DEF NoLostWakeup
      <4>3. ASSUME Sleeping' # {} PROVE Len(queue') <= Cardinality(Awake')
        BY <1>0, <3>4, <4>1, <4>2, <4>3, Finite
      <4> QED
        BY <4>3 DEF NoLostWakeup
  <2> QED
    BY <1>5, <2>1, <2>2, <2>3 DEF MustWait, ComesBackEmptyHanded, WaitAndPop
<1>6. ASSUME NEW t \in Threads, Cancel(t)
      PROVE  NoLostWakeup'
  <2>1. shutdown' /\ NoSleeperAfterCancel'
    BY <1>6, CancelStep DEF NotifyAll, Cancel
  <2> QED
    BY <2>1 DEF NoSleeperAfterCancel, NoLostWakeup
<1>7. CASE UNCHANGED vars
  BY <1>7 DEF vars, NoLostWakeup, Sleeping, Awake
<1> QED
  BY <1>1, <1>2, <1>3, <1>4, <1>5, <1>6, <1>7 DEF Next, Run

(* The initial state satisfies the inductive invariant. *)
LEMMA InitIInv == Init => IInv
<1> SUFFICES ASSUME Init PROVE IInv
  OBVIOUS
<1>1. Sleeping = {}
  BY DEF Init, Sleeping
<1>2. TypeOK
  <2>1. calls \in [Threads -> 0 .. MaxCalls]
    BY PCQueueAssumption DEF Init
  <2>2. queue \in Seq(Items) /\ popped \in Seq(Items)
    BY DEF Init
  <2> QED
    BY <2>1, <2>2 DEF Init, TypeOK, Ops
<1>3. PusherHasItem /\ SleeperIsConsumer
  BY DEF Init, PusherHasItem, SleeperIsConsumer
<1> QED
  BY <1>1, <1>2, <1>3 DEF IInv, NoSleeperAfterCancel, NoLostWakeup

(* IInv is an invariant of every behaviour. *)
THEOREM Inductive == Spec => []IInv
<1>1. IInv /\ [Next]_vars => IInv'
  BY TypeStep, RolesStep, CancelStep, WakeupStep DEF IInv
<1> QED
  BY <1>1, InitIInv, PTL DEF Spec

(* Type correctness. *)
THEOREM TypeCorrect == Spec => []TypeOK
<1>1. IInv => TypeOK
  BY DEF IInv
<1> QED
  BY <1>1, Inductive, PTL

(* Push wakes enough consumers: while one sleeps, every queued item has a     *)
(* consumer of its own on the way (PCQueue.h:44, 81-84).                      *)
THEOREM WakeupsAreNotLost == Spec => []NoLostWakeup
<1>1. IInv => NoLostWakeup
  BY DEF IInv
<1> QED
  BY <1>1, Inductive, PTL

(* Cancel wakes everyone and nobody sleeps afterwards (PCQueue.h:96-112).     *)
THEOREM CancelWakesAll == Spec => []NoSleeperAfterCancel
<1>1. IInv => NoSleeperAfterCancel
  BY DEF IInv
<1> QED
  BY <1>1, Inductive, PTL

(* Once _shutdown is set no call hands out an item, whatever is pushed later  *)
(* (PCQueue.h:63 and 86).                                                     *)
THEOREM CancelIsFinal == Spec => NothingHandedOutAfterCancel
<1>1. [Next]_vars => (shutdown => popped' = popped)
  <2> SUFFICES ASSUME [Next]_vars, shutdown PROVE popped' = popped
    OBVIOUS
  <2>1. ASSUME NEW t \in Threads, Run(t) PROVE popped' = popped
    BY <2>1 DEF MustWait, ComesBackEmptyHanded, Run, Push, Empty, Pop, WaitAndPop, Cancel
  <2> QED
    BY <2>1 DEF Next, vars, Call, Acquire, Spurious
<1> QED
  BY <1>1, PTL DEF Spec, NothingHandedOutAfterCancel

(* Every step is a Put, a Take or a Discard of the FIFO queue, or invisible   *)
(* to it: the mutex and the wake-ups do not disturb the order (PCQueue.h:39). *)
THEOREM Refinement == Spec => ImplementsFifo
<1>1. Init => Abstract!Init
  BY DEF Init, Abstract!Init
<1>2. IInv /\ [Next]_vars => [Abstract!Next]_<<queue, popped, deleted>>
  <2> SUFFICES ASSUME IInv, [Next]_vars, ~ UNCHANGED <<queue, popped, deleted>>
               PROVE  Abstract!Next
    OBVIOUS
  <2>1. PICK t \in Threads : Push(t) \/ Pop(t) \/ WaitAndPop(t) \/ Cancel(t)
    BY DEF Next, Run, vars, Call, Acquire, Spurious, Empty
  <2>2. CASE Push(t)
    <3>1. arg[t] \in Items
      BY <2>2 DEF IInv, PusherHasItem, Push, Runs
    <3>2. Abstract!Put(arg[t])
      BY <2>2 DEF Push, Abstract!Put
    <3> QED
      BY <3>1, <3>2 DEF Abstract!Next
  <2>3. CASE Pop(t) \/ WaitAndPop(t)
    <3>1. queue # <<>> /\ TakeFront /\ deleted' = deleted
      BY <2>3 DEF MustWait, ComesBackEmptyHanded, Pop, WaitAndPop
    <3> QED
      BY <3>1 DEF TakeFront, Abstract!Take, Abstract!Next
  <2>4. CASE Cancel(t)
    BY <2>4 DEF NotifyAll, Cancel, Elements, Abstract!Discard, Abstract!Next
  <2> QED
    BY <2>1, <2>2, <2>3, <2>4
<1> QED
  BY <1>1, <1>2, Inductive, PTL DEF Spec, ImplementsFifo, Abstract!Spec, Abstract!fifoVars
-----------------------------------------------------------------------------
(* What is added to OneOwner to make it inductive: an item on its way into    *)
(* the queue is carried by one thread and is nowhere else yet.                *)
CarriedOnce ==
    /\ \A s, t \in Threads : arg[s] = arg[t] /\ arg[s] # None => s = t
    /\ \A t \in Threads : arg[t] # None =>
           arg[t] \notin Elements(queue) \union Elements(popped) \union deleted

(* Appending adds one element at the end. *)
LEMMA AppendElements ==
    ASSUME NEW s \in Seq(Items), NEW i \in Items
    PROVE  /\ Elements(Append(s, i)) = Elements(s) \union {i}
           /\ (i \notin Elements(s) /\ \A m, n \in DOMAIN s : s[m] = s[n] => m = n)
                => \A m, n \in DOMAIN Append(s, i) : Append(s, i)[m] = Append(s, i)[n] => m = n
<1>1. DOMAIN s = 1 .. Len(s) /\ DOMAIN Append(s, i) = 1 .. (Len(s) + 1) /\ Len(s) \in Nat
  OBVIOUS
<1>2. \A n \in 1 .. Len(s) : Append(s, i)[n] = s[n]
  OBVIOUS
<1>3. Append(s, i)[Len(s) + 1] = i
  OBVIOUS
<1>4. Elements(Append(s, i)) \subseteq Elements(s) \union {i}
  BY <1>1, <1>2, <1>3 DEF Elements
<1>5. Elements(s) \subseteq Elements(Append(s, i))
  BY <1>1, <1>2 DEF Elements
<1>6. i \in Elements(Append(s, i))
  BY <1>1, <1>3 DEF Elements
<1>7. ASSUME i \notin Elements(s), \A m, n \in DOMAIN s : s[m] = s[n] => m = n,
             NEW m \in DOMAIN Append(s, i), NEW n \in DOMAIN Append(s, i),
             Append(s, i)[m] = Append(s, i)[n]
      PROVE  m = n
  BY <1>1, <1>2, <1>3, <1>7 DEF Elements
<1> QED
  BY <1>4, <1>5, <1>6, <1>7

(* Removing the head of a sequence without repetition removes that element. *)
LEMMA TailElements ==
    ASSUME NEW s \in Seq(Items), s # <<>>, \A m, n \in DOMAIN s : s[m] = s[n] => m = n
    PROVE  /\ Head(s) \in Elements(s)
           /\ Elements(Tail(s)) = Elements(s) \ {Head(s)}
           /\ \A m, n \in DOMAIN Tail(s) : Tail(s)[m] = Tail(s)[n] => m = n
<1>1. /\ Len(s) \in Nat \ {0} /\ DOMAIN s = 1 .. Len(s)
      /\ DOMAIN Tail(s) = 1 .. (Len(s) - 1) /\ Head(s) = s[1]
  OBVIOUS
<1>2. \A n \in 1 .. (Len(s) - 1) : Tail(s)[n] = s[n + 1]
  OBVIOUS
<1>3. Head(s) \in Elements(s)
  BY <1>1 DEF Elements
<1>4. Elements(Tail(s)) \subseteq Elements(s) \ {Head(s)}
  BY <1>1, <1>2 DEF Elements
<1>5. ASSUME NEW x \in Elements(s), x # Head(s)
      PROVE  x \in Elements(Tail(s))
  <2>1. PICK n \in 1 .. Len(s) : x = s[n]
    BY <1>1 DEF Elements
  <2>2. n - 1 \in 1 .. (Len(s) - 1) /\ Tail(s)[n - 1] = x
    BY <1>1, <1>2, <1>5, <2>1
  <2> QED
    BY <1>1, <2>2 DEF Elements
<1>6. ASSUME NEW m \in DOMAIN Tail(s), NEW n \in DOMAIN Tail(s), Tail(s)[m] = Tail(s)[n]
      PROVE  m = n
  <2>1. m + 1 \in DOMAIN s /\ n + 1 \in DOMAIN s /\ s[m + 1] = s[n + 1]
    BY <1>1, <1>2, <1>6
  <2>2. m + 1 = n + 1 /\ m \in Nat /\ n \in Nat
    BY <1>1, <2>1
  <2> QED
    BY <2>2
<1> QED
  BY <1>3, <1>4, <1>5, <1>6

(* TakeFront moves one item from the queue to its caller. *)
LEMMA TakeFrontOwners ==
    ASSUME TypeOK, OneOwner, CarriedOnce, queue # <<>>, TakeFront, UNCHANGED <<arg, deleted>>
    PROVE  OneOwner' /\ CarriedOnce'
<1> DEFINE h == Head(queue)
<1>1. queue \in Seq(Items) /\ popped \in Seq(Items) /\ h \in Items
  BY DEF TypeOK
<1>2. queue' = Tail(queue) /\ popped' = Append(popped, h)
  BY DEF TakeFront
<1>3. h \in Elements(queue) /\ Elements(queue') = Elements(queue) \ {h}
  BY <1>1, <1>2, TailElements DEF OneOwner
<1>4. h \notin Elements(popped)
  BY <1>3 DEF OneOwner
<1>5. Elements(popped') = Elements(popped) \union {h}
  BY <1>1, <1>2, AppendElements
<1>6. \A m, n \in DOMAIN queue' : queue'[m] = queue'[n] => m = n
  BY <1>1, <1>2, TailElements DEF OneOwner
<1>7. \A m, n \in DOMAIN popped' : popped'[m] = popped'[n] => m = n
  BY <1>1, <1>2, <1>4, AppendElements DEF OneOwner
<1>8. OneOwner'
  BY <1>3, <1>5, <1>6, <1>7 DEF OneOwner
<1>9. CarriedOnce'
  BY <1>3, <1>5 DEF CarriedOnce
<1> QED
  BY <1>8, <1>9

(* No step gives an item a second owner. *)
LEMMA OwnerStep ==
    ASSUME IInv, OneOwner, CarriedOnce, [Next]_vars
    PROVE  OneOwner' /\ CarriedOnce'
<1> USE DEF IInv
<1>1. ASSUME NEW t \in Threads, NEW i \in Fresh, Call(t, "Push", i)
      PROVE  OneOwner' /\ CarriedOnce'
  <2>1. /\ \A s \in Threads : arg[s] # i
        /\ i \notin Elements(queue) \union Elements(popped) \union deleted
    BY DEF Fresh
  <2>2. arg' = [arg EXCEPT ![t] = i] /\ UNCHANGED <<queue, popped, deleted>>
    BY <1>1 DEF Call
  <2> QED
    BY <2>1, <2>2 DEF OneOwner, CarriedOnce, TypeOK
<1>2. ASSUME NEW t \in Threads, NEW o, Call(t, o, None)
      PROVE  OneOwner' /\ CarriedOnce'
  BY <1>2 DEF Call, OneOwner, CarriedOnce, TypeOK
<1>3. ASSUME NEW t \in Threads, Acquire(t) \/ Spurious(t) \/ Empty(t)
      PROVE  OneOwner' /\ CarriedOnce'
  BY <1>3 DEF Acquire, Spurious, Empty, OneOwner, CarriedOnce
<1>4. ASSUME NEW t \in Threads, Push(t)
      PROVE  OneOwner' /\ CarriedOnce'
  <2>1. arg[t] \in Items /\ queue \in Seq(Items) /\ arg \in [Threads -> Items \union {None}]
    BY <1>4 DEF Push, Runs, PusherHasItem, TypeOK
  <2>2. arg[t] \notin Elements(queue) \union Elements(popped) \union deleted
    BY <2>1, PCQueueAssumption DEF CarriedOnce
  <2>3. /\ queue' = Append(queue, arg[t]) /\ UNCHANGED <<popped, deleted>>
        /\ arg' = [arg EXCEPT ![t] = None]
    BY <1>4 DEF Push
  <2>4. Elements(queue') = Elements(queue) \union {arg[t]}
    BY <2>1, <2>3, AppendElements
  <2>5. \A m, n \in DOMAIN queue' : queue'[m] = queue'[n] => m = n
    BY <2>1, <2>2, <2>3, AppendElements DEF OneOwner
  <2>6. OneOwner'
    BY <2>2, <2>3, <2>4, <2>5 DEF OneOwner
  <2>7. \A s \in Threads : arg'[s] # None => arg'[s] = arg[s] /\ arg[s] # arg[t]
    BY <2>1, <2>3, PCQueueAssumption DEF CarriedOnce
  <2>8. CarriedOnce'
    BY <2>3, <2>4, <2>7 DEF CarriedOnce
  <2> QED
    BY <2>6, <2>8
<1>5. ASSUME NEW t \in Threads, Pop(t) \/ WaitAndPop(t)
      PROVE  OneOwner' /\ CarriedOnce'
  <2>1. CASE UNCHANGED <<queue, popped>>
    BY <1>5, <2>1 DEF MustWait, ComesBackEmptyHanded, Pop, WaitAndPop, OneOwner, CarriedOnce
  <2>2. CASE queue # <<>> /\ TakeFront
    BY <1>5, <2>2, TakeFrontOwners DEF MustWait, ComesBackEmptyHanded, Pop, WaitAndPop
  <2> QED
    BY <1>5, <2>1, <2>2 DEF MustWait, ComesBackEmptyHanded, Pop, WaitAndPop
<1>6. ASSUME NEW t \in Threads, Cancel(t)
      PROVE  OneOwner' /\ CarriedOnce'
  BY <1>6 DEF NotifyAll, Cancel, OneOwner, CarriedOnce, Elements
<1>7. CASE UNCHANGED vars
  BY <1>7 DEF vars, OneOwner, CarriedOnce
<1> QED
  BY <1>1, <1>2, <1>3, <1>4, <1>5, <1>6, <1>7 DEF Next, Run

(* Every item that was pushed is queued once, or was handed to one caller, or *)
(* was deleted once: no double free (PCQueue.h:88-110).                       *)
THEOREM NoSecondOwner == Spec => []OneOwner
<1>1. Init => OneOwner /\ CarriedOnce
  BY DEF Init, OneOwner, CarriedOnce, Elements
<1>2. IInv /\ OneOwner /\ CarriedOnce /\ [Next]_vars => OneOwner' /\ CarriedOnce'
  BY OwnerStep
<1> QED
  BY <1>1, <1>2, Inductive, PTL DEF Spec
=============================================================================
