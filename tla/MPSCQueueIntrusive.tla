-------------------------- MODULE MPSCQueueIntrusive --------------------------
(***************************************************************************)
(* MPSCQueueIntrusive (common/Threading/MPSCQueue.h): the lock-free queue  *)
(* whose links live inside the queued objects.  Nothing is allocated; a    *)
(* dummy object that belongs to the queue stands in whenever the consumer  *)
(* would otherwise have to hand out the object _head still points to.      *)
(*                                                                         *)
(* Each access to a link or to _head is a step.  An object belongs to the  *)
(* client before Enqueue and again once Dequeue has returned it, and the   *)
(* client may enqueue it again, so the same address comes back with        *)
(* another place in the list.                                              *)
(***************************************************************************)
EXTENDS Naturals, Sequences, FiniteSets

CONSTANTS Producers,    \* the threads that call Enqueue
          Objects,      \* the client's objects
          Dummy,        \* _dummyPtr
          MaxEnqueues,  \* bound: calls of Enqueue per producer
          Null          \* nullptr

ASSUME IntrusiveAssumption ==
    /\ Null \notin Objects \union {Dummy}
    /\ Dummy \notin Objects
    /\ MaxEnqueues \in Nat

VARIABLES head,         \* _head
          tail,         \* _tail
          link,         \* IntrusiveLink of every object and of the dummy
          ppc,          \* where each producer is in Enqueue
          input,        \* Enqueue's parameter
          prevHead,     \* Enqueue's local, per producer
          calls,        \* calls each producer made
          cpc,          \* where the consumer is in Dequeue
          front,        \* Dequeue's local `tail'
          dummyPrev,    \* prevHead of the Enqueue(_dummyPtr) inside Dequeue
          phase,        \* "open", "closing" (in the destructor), "closed"
          list,         \* history: the nodes from _tail to _head, in exchange order
          taken,        \* history: what Dequeue returned to the consumer
          dropped       \* history: what the destructor deleted

producerVars == <<ppc, input, prevHead, calls>>
vars == <<head, tail, link, producerVars, cpc, front, dummyPrev, phase, list, taken, dropped>>

Cells == Objects \union {Dummy}
-----------------------------------------------------------------------------
(* The constructor makes the dummy the only node and clears its link. *)
Init ==
    /\ head = Dummy /\ tail = Dummy
    /\ link = [c \in Cells |-> Null]
    /\ ppc = [p \in Producers |-> "idle"]
    /\ input = [p \in Producers |-> Null]
    /\ prevHead = [p \in Producers |-> Null]
    /\ calls = [p \in Producers |-> 0]
    /\ cpc = "idle"
    /\ front = Null
    /\ dummyPrev = Null
    /\ phase = "open"
    /\ list = <<Dummy>>
    /\ taken = <<>>
    /\ dropped = {}

Listed == {list[k] : k \in DOMAIN list}

(* What the client may enqueue: it is neither queued, nor on its way there, nor deleted. *)
ClientOwned == Objects \ (Listed \union {input[p] : p \in Producers} \union dropped)

(* input->link.store(nullptr) *)
EnqueueInit(p, n) ==
    /\ phase = "open"
    /\ ppc[p] = "idle" /\ calls[p] < MaxEnqueues
    /\ link' = [link EXCEPT ![n] = Null]
    /\ input' = [input EXCEPT ![p] = n]
    /\ ppc' = [ppc EXCEPT ![p] = "exchange"]
    /\ calls' = [calls EXCEPT ![p] = @ + 1]
    /\ UNCHANGED <<head, tail, prevHead, cpc, front, dummyPrev, phase, list, taken, dropped>>

(* prevHead = _head.exchange(input) *)
EnqueueExchange(p) ==
    /\ ppc[p] = "exchange"
    /\ prevHead' = [prevHead EXCEPT ![p] = head]
    /\ head' = input[p]
    /\ list' = Append(list, input[p])
    /\ ppc' = [ppc EXCEPT ![p] = "link"]
    /\ UNCHANGED <<tail, link, input, calls, cpc, front, dummyPrev, phase, taken, dropped>>

(* Plausible bug: the link is stored in the new node. *)
LinkedBack(p) == [link EXCEPT ![input[p]] = prevHead[p]]

Linked(p) == [link EXCEPT ![prevHead[p]] = input[p]]

(* prevHead->link.store(input) *)
EnqueueLink(p) ==
    /\ ppc[p] = "link"
    /\ link' = Linked(p)
    /\ ppc' = [ppc EXCEPT ![p] = "idle"]
    /\ input' = [input EXCEPT ![p] = Null]
    /\ prevHead' = [prevHead EXCEPT ![p] = Null]
    /\ UNCHANGED <<head, tail, calls, cpc, front, dummyPrev, phase, list, taken, dropped>>

(* return false; in the destructor it ends the loop. *)
ReturnFalse ==
    /\ cpc' = "idle"
    /\ front' = Null
    /\ phase' = IF phase = "closing" THEN "closed" ELSE phase
    /\ UNCHANGED <<tail, list, taken, dropped>>

(* Plausible bug: what follows the last node is assumed to be the dummy. *)
AssumedSuccessor(n) == Dummy

Successor(n) == link[n]

(* _tail.store(next), result = n, return true; the destructor deletes the result. *)
ReturnObject(n) ==
    /\ tail' = Successor(n)
    /\ list' = Tail(list)
    /\ cpc' = "idle"
    /\ front' = Null
    /\ IF phase = "closing"
       THEN dropped' = dropped \union {n} /\ UNCHANGED taken
       ELSE taken' = Append(taken, n) /\ UNCHANGED dropped
    /\ UNCHANGED phase

(* The link of n decides: return n, or look whether n is the last node. *)
ReturnOrTestHead(n) ==
    \/ link[n] # Null /\ ReturnObject(n)
    \/ /\ link[n] = Null
       /\ cpc' = "head"
       /\ front' = n
       /\ UNCHANGED <<tail, phase, list, taken, dropped>>

AtDummy == tail = Dummy

(* Load of tail->link, and what follows when tail is not the dummy. *)
DequeueFirst ==
    /\ cpc = "idle" /\ phase # "closed"
    /\ \/ /\ AtDummy /\ link[tail] = Null
          /\ ReturnFalse
       \/ /\ AtDummy /\ link[tail] # Null
          /\ tail' = link[tail]
          /\ list' = Tail(list)
          /\ front' = link[tail]
          /\ cpc' = "second"
          /\ UNCHANGED <<phase, taken, dropped>>
       \/ ~AtDummy /\ ReturnOrTestHead(tail)
    /\ UNCHANGED <<head, link, producerVars, dummyPrev>>

(* The dummy was skipped: load of the link of the node behind it. *)
DequeueSecond ==
    /\ cpc = "second"
    /\ ReturnOrTestHead(front)
    /\ UNCHANGED <<head, link, producerVars, dummyPrev>>

(* Plausible bug: tail == head is not tested before the dummy is enqueued. *)
AssumedLast == TRUE

FrontIsLast == front = head

(* Load of _head: false unless front is the last node. *)
DequeueHead ==
    /\ cpc = "head"
    /\ \/ ~FrontIsLast /\ ReturnFalse
       \/ /\ FrontIsLast
          /\ cpc' = "dummyInit"
          /\ UNCHANGED <<tail, front, phase, list, taken, dropped>>
    /\ UNCHANGED <<head, link, producerVars, dummyPrev>>

(* Enqueue(_dummyPtr), in the consumer. *)
DummyInit ==
    /\ cpc = "dummyInit"
    /\ link' = [link EXCEPT ![Dummy] = Null]
    /\ cpc' = "dummyExchange"
    /\ UNCHANGED <<head, tail, producerVars, front, dummyPrev, phase, list, taken, dropped>>

DummyExchange ==
    /\ cpc = "dummyExchange"
    /\ dummyPrev' = head
    /\ head' = Dummy
    /\ list' = Append(list, Dummy)
    /\ cpc' = "dummyLink"
    /\ UNCHANGED <<tail, link, producerVars, front, phase, taken, dropped>>

DummyLink ==
    /\ cpc = "dummyLink"
    /\ link' = [link EXCEPT ![dummyPrev] = Dummy]
    /\ dummyPrev' = Null
    /\ cpc' = "last"
    /\ UNCHANGED <<head, tail, producerVars, front, phase, list, taken, dropped>>

(* Plausible bug: once the dummy is enqueued, the caller is told to come back, *)
(* although in the destructor nobody does.                                     *)
NothingFollows == FALSE

FrontHasLink == link[front] # Null

(* The final load of tail->link. *)
DequeueLast ==
    /\ cpc = "last"
    /\ \/ FrontHasLink /\ ReturnObject(front)
       \/ ~FrontHasLink /\ ReturnFalse
    /\ UNCHANGED <<head, link, producerVars, dummyPrev>>

(* The destructor: the owner has stopped every producer and the consumer. *)
Destroy ==
    /\ phase = "open"
    /\ cpc = "idle"
    /\ \A p \in Producers : ppc[p] = "idle"
    /\ phase' = "closing"
    /\ UNCHANGED <<head, tail, link, producerVars, cpc, front, dummyPrev, list, taken, dropped>>

Dequeue ==
    \/ DequeueFirst \/ DequeueSecond \/ DequeueHead
    \/ DummyInit \/ DummyExchange \/ DummyLink \/ DequeueLast

Next ==
    \/ \E p \in Producers :
          \/ \E n \in ClientOwned : EnqueueInit(p, n)
          \/ EnqueueExchange(p)
          \/ EnqueueLink(p)
    \/ Dequeue
    \/ Destroy

Spec == Init /\ [][Next]_vars

(* A producer inside Enqueue is scheduled, and the consumer polls. *)
Fairness ==
    /\ \A p \in Producers : WF_vars(EnqueueExchange(p) \/ EnqueueLink(p))
    /\ WF_vars(Dequeue)

FairSpec == Spec /\ Fairness
-----------------------------------------------------------------------------
(* Somebody is between the exchange that put n behind m and the store of the link. *)
Linking(m, n) ==
    \/ \E p \in Producers : ppc[p] = "link" /\ prevHead[p] = m /\ input[p] = n
    \/ cpc = "dummyLink" /\ dummyPrev = m /\ n = Dummy

(* The list from _tail to _head has no repetition and is whole up to the      *)
(* links that are about to be stored (MPSCQueue.h:115-116).                   *)
ListIntact ==
    /\ list # <<>> /\ list[1] = tail /\ list[Len(list)] = head
    /\ \A j, k \in DOMAIN list : list[j] = list[k] => j = k
    /\ link[head] = Null
    /\ \A k \in 1 .. Len(list) - 1 :
          \/ link[list[k]] = list[k + 1]
          \/ link[list[k]] = Null /\ Linking(list[k], list[k + 1])

(* The queue writes no link of an object that it has returned to the client:  *)
(* by then the client may have deleted or re-enqueued it (MPSCQueue.h:116,    *)
(* 136, 149), and it never re-enqueues the dummy while the dummy is still in  *)
(* the list (MPSCQueue.h:144).                                                *)
NoTouchAfterHandOff ==
    /\ \A p \in Producers : ppc[p] = "link" => {prevHead[p], input[p]} \subseteq Listed
    /\ \A p \in Producers : ppc[p] = "exchange" => input[p] \notin Listed
    /\ front # Null => front = tail
    /\ cpc = "dummyLink" => dummyPrev \in Listed
    /\ cpc \in {"dummyInit", "dummyExchange"} => Dummy \notin Listed

(* With no producer inside Enqueue, Dequeue returns false on an empty queue   *)
(* only: the destructor, which stops at the first false, leaves nothing       *)
(* behind (MPSCQueue.h:107-109, 141, 152).                                    *)
DestructorLeavesNothing == phase = "closed" => Listed \subseteq {Dummy}

(* A list without the dummy, which is in it at most once. *)
DummyAt(s) == CHOOSE k \in DOMAIN s : s[k] = Dummy

WithoutDummy(s) ==
    IF \E k \in DOMAIN s : s[k] = Dummy
    THEN [k \in 1 .. Len(s) - 1 |-> IF k < DummyAt(s) THEN s[k] ELSE s[k + 1]]
    ELSE s

(* The client's objects in the list, oldest first. *)
Queued == WithoutDummy(list)

(* They are a FIFO queue ordered by the exchanges (MPSCQueue.h:112-153).      *)

Abstract == INSTANCE Fifo WITH Items <- Objects, q <- Queued
ImplementsFifo == Abstract!Spec

(* A polling consumer gets every object, also the last one, which can only be *)
(* returned once the dummy is behind it (MPSCQueue.h:140-151).                *)
Drains == (Queued # <<>>) ~> (Queued = <<>>)
=============================================================================
