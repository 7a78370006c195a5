------------------------------- MODULE PCQueue -------------------------------
(***************************************************************************)
(* ProducerConsumerQueue (common/Threading/PCQueue.h): a std::queue behind *)
(* one mutex, with a condition variable on which WaitAndPop sleeps.        *)
(*                                                                         *)
(* A call is three kinds of steps: Call enters the function, Acquire takes *)
(* _queueLock, and the function's critical section runs and releases it.   *)
(* Everything the code shares is touched between lock and unlock (except   *)
(* by Size, see the README), so a critical section is one action.          *)
(*                                                                         *)
(* condition_variable::wait releases the mutex and sleeps in one step; a   *)
(* notified (or spuriously woken) thread has to win the mutex again and    *)
(* then re-evaluates the loop of PCQueue.h:81 from its top, so it is back  *)
(* at "lock".                                                              *)
(***************************************************************************)
EXTENDS Naturals, Sequences, FiniteSets

CONSTANTS Threads,      \* the threads that share the queue
          Items,        \* the pointers pushed; each is pushed at most once
          MaxCalls,     \* bound: calls each thread makes
          None          \* no thread, no item

ASSUME PCQueueAssumption ==
    /\ IsFiniteSet(Threads)
    /\ MaxCalls \in Nat
    /\ None \notin Threads
    /\ None \notin Items

VARIABLES queue,        \* _queue
          shutdown,     \* _shutdown
          owner,        \* the thread that holds _queueLock, or None
          pc,           \* where each thread is
          op,           \* the function each thread is in
          arg,          \* the item each thread is pushing, or None
          calls,        \* how many calls each thread has made
          popped,       \* history: the items handed out, in order
          deleted       \* history: the items Cancel deleted

vars == <<queue, shutdown, owner, pc, op, arg, calls, popped, deleted>>

Ops == {"Push", "Empty", "Pop", "WaitAndPop", "Cancel"}

Elements(s) == {s[n] : n \in DOMAIN s}

TypeOK ==
    /\ queue \in Seq(Items)
    /\ shutdown \in BOOLEAN
    /\ owner \in Threads \union {None}
    /\ pc \in [Threads -> {"idle", "lock", "run", "wait"}]
    /\ op \in [Threads -> Ops]
    /\ arg \in [Threads -> Items \union {None}]
    /\ calls \in [Threads -> 0 .. MaxCalls]
    /\ popped \in Seq(Items)
    /\ deleted \in SUBSET Items
-----------------------------------------------------------------------------
Init ==
    /\ queue = <<>>
    /\ shutdown = FALSE
    /\ owner = None
    /\ pc = [t \in Threads |-> "idle"]
    /\ op = [t \in Threads |-> "Empty"]
    /\ arg = [t \in Threads |-> None]
    /\ calls = [t \in Threads |-> 0]
    /\ popped = <<>>
    /\ deleted = {}

(* The items no caller has pushed yet. *)
Fresh == Items \ (Elements(queue) \union Elements(popped) \union deleted
                    \union {arg[t] : t \in Threads})

(* The threads that sleep in _condition.wait. *)
Sleeping == {t \in Threads : pc[t] = "wait"}

Call(t, o, i) ==
    /\ pc[t] = "idle"
    /\ calls[t] < MaxCalls
    /\ pc' = [pc EXCEPT ![t] = "lock"]
    /\ op' = [op EXCEPT ![t] = o]
    /\ arg' = [arg EXCEPT ![t] = i]
    /\ calls' = [calls EXCEPT ![t] = @ + 1]
    /\ UNCHANGED <<queue, shutdown, owner, popped, deleted>>

(* lock_guard / unique_lock, and the re-acquisition at the end of wait. *)
Acquire(t) ==
    /\ pc[t] = "lock"
    /\ owner = None
    /\ owner' = t
    /\ pc' = [pc EXCEPT ![t] = "run"]
    /\ UNCHANGED <<queue, shutdown, op, arg, calls, popped, deleted>>

(* t is at the top of the critical section of o, and leaves the lock. *)
Runs(t, o) ==
    /\ pc[t] = "run"
    /\ op[t] = o
    /\ owner' = None
    /\ UNCHANGED <<op, calls>>

(* The caller returns; the threads of W are woken. *)
Return(t, W) ==
    pc' = [s \in Threads |-> IF s = t THEN "idle"
                             ELSE IF s \in W THEN "lock" ELSE pc[s]]

(* Plausible bug: a notification only when the queue was empty. *)
NotifyIfEmpty ==
    IF Sleeping = {} \/ queue # <<>> THEN {{}} ELSE {{s} : s \in Sleeping}

(* What notify_one may do: wake one sleeping thread, or no one if none sleeps. *)
NotifyOne == IF Sleeping = {} THEN {{}} ELSE {{s} : s \in Sleeping}

(* Plausible bug: Cancel wakes one consumer only. *)
NotifyJustOne == NotifyOne

NotifyAll == {Sleeping}

Push(t) ==
    /\ Runs(t, "Push")
    /\ queue' = Append(queue, arg[t])
    /\ arg' = [arg EXCEPT ![t] = None]
    /\ \E W \in NotifyOne : Return(t, W)
    /\ UNCHANGED <<shutdown, popped, deleted>>

Empty(t) ==
    /\ Runs(t, "Empty")
    /\ Return(t, {})
    /\ UNCHANGED <<queue, shutdown, arg, popped, deleted>>

(* Plausible bug: front() without pop(). *)
TakeFrontKeepsIt == popped' = Append(popped, Head(queue)) /\ UNCHANGED queue

(* Plausible bug: back() for front(). *)
TakeBack ==
    /\ popped' = Append(popped, queue[Len(queue)])
    /\ queue' = SubSeq(queue, 1, Len(queue) - 1)

TakeFront ==
    /\ popped' = Append(popped, Head(queue))
    /\ queue' = Tail(queue)

(* Plausible bug: the check before front() forgets _shutdown. *)
ComesBackIfEmpty == queue = <<>>

(* Pop and WaitAndPop come back without an item. *)
ComesBackEmptyHanded == queue = <<>> \/ shutdown

Pop(t) ==
    /\ Runs(t, "Pop")
    /\ \/ ComesBackEmptyHanded /\ UNCHANGED <<queue, popped>>
       \/ ~ComesBackEmptyHanded /\ TakeFront
    /\ Return(t, {})
    /\ UNCHANGED <<shutdown, arg, deleted>>

(* Plausible bug: the loop waits for an item, whatever _shutdown says. *)
MustWaitForItem == queue = <<>>

MustWait == queue = <<>> /\ ~shutdown

(* One evaluation of the loop condition of WaitAndPop, up to the wait or to *)
(* the end of the function.                                                 *)
WaitAndPop(t) ==
    /\ Runs(t, "WaitAndPop")
    /\ \/ /\ MustWait
          /\ pc' = [pc EXCEPT ![t] = "wait"]
          /\ UNCHANGED <<queue, popped>>
       \/ /\ ~MustWait /\ ComesBackEmptyHanded
          /\ Return(t, {})
          /\ UNCHANGED <<queue, popped>>
       \/ /\ ~MustWait /\ ~ComesBackEmptyHanded
          /\ Return(t, {})
          /\ TakeFront
    /\ UNCHANGED <<shutdown, arg, deleted>>

Cancel(t) ==
    /\ Runs(t, "Cancel")
    /\ deleted' = deleted \union Elements(queue)
    /\ queue' = <<>>
    /\ shutdown' = TRUE
    /\ \E W \in NotifyAll : Return(t, W)
    /\ UNCHANGED <<arg, popped>>

(* A condition variable may return from wait without a notification. *)
Spurious(t) ==
    /\ pc[t] = "wait"
    /\ pc' = [pc EXCEPT ![t] = "lock"]
    /\ UNCHANGED <<queue, shutdown, owner, op, arg, calls, popped, deleted>>

Run(t) == Push(t) \/ Empty(t) \/ Pop(t) \/ WaitAndPop(t) \/ Cancel(t)

Next ==
    \E t \in Threads :
        \/ \E i \in Fresh : Call(t, "Push", i)
        \/ \E o \in Ops \ {"Push"} : Call(t, o, None)
        \/ Acquire(t)
        \/ Run(t)
        \/ Spurious(t)

Spec == Init /\ [][Next]_vars

(* A runnable thread is scheduled; nothing obliges a client to make a call. *)
Fairness == \A t \in Threads : WF_vars(Acquire(t)) /\ WF_vars(Run(t))

FairSpec == Spec /\ Fairness
-----------------------------------------------------------------------------
(* The threads in WaitAndPop that are not asleep and have not returned. *)
Awake == {t \in Threads : op[t] = "WaitAndPop" /\ pc[t] \in {"lock", "run"}}

(* No lost wake-up: while a consumer sleeps, every queued item has a consumer *)
(* of its own on the way to it.  This is what notify_one in Push, together    *)
(* with the loop in WaitAndPop, has to achieve (PCQueue.h:44 and 81), also    *)
(* when a Pop steals the item a sleeper was woken for.                        *)
NoLostWakeup == Sleeping # {} => Len(queue) <= Cardinality(Awake)

(* Cancel leaves nobody asleep, and nobody falls asleep after it: a consumer  *)
(* that would do so could never be stopped (PCQueue.h:81 and 111).            *)
NoSleeperAfterCancel == shutdown => Sleeping = {}

(* Every item has one owner: it is queued once, or handed to one caller, or   *)
(* deleted by Cancel; a second owner is a double free (PCQueue.h:91-93, 104). *)
OneOwner ==
    /\ \A m, n \in DOMAIN queue : queue[m] = queue[n] => m = n
    /\ \A m, n \in DOMAIN popped : popped[m] = popped[n] => m = n
    /\ Elements(queue) \intersect Elements(popped) = {}
    /\ deleted \intersect (Elements(queue) \union Elements(popped)) = {}

(* An item that is pushed after Cancel is never handed out, not even to a     *)
(* thread that was already waiting for the mutex (PCQueue.h:63 and 86).       *)
NothingHandedOutAfterCancel == [][shutdown => popped' = popped]_vars

(* The queue is a FIFO queue that can be emptied by Cancel (PCQueue.h:39-112). *)
Abstract == INSTANCE Fifo WITH q <- queue, taken <- popped, dropped <- deleted
ImplementsFifo == Abstract!Spec

(* After Cancel every thread blocked in WaitAndPop returns (PCQueue.h:96-112). *)
CancelReleasesConsumers ==
    \A t \in Threads :
        (shutdown /\ op[t] = "WaitAndPop") ~> (pc[t] = "idle")

(* Items and sleepers do not stay together: as long as items are queued,      *)
(* sleeping consumers are served (PCQueue.h:44 and 83).                       *)
SleepersAreServed == (queue # <<>> /\ Sleeping # {}) ~> (queue = <<>> \/ Sleeping = {})
=============================================================================
