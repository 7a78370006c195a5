------------------------------ MODULE MPSCQueue ------------------------------
(***************************************************************************)
(* MPSCQueueNonIntrusive (common/Threading/MPSCQueue.h): a lock-free list  *)
(* of heap nodes.  Any number of producers append at _head with one atomic *)
(* exchange and link the new node afterwards; one consumer removes at      *)
(* _tail, which always points to an already consumed stub node.            *)
(*                                                                         *)
(* Every access to memory the threads share is a step of its own: the      *)
(* exchange, the store of Next, the load of Next, the delete.  `new' may   *)
(* return any address that is not allocated, so addresses are reused.  The *)
(* acquire/release pairs of the code make the interleaving of these steps  *)
(* a faithful picture: each location is written once between its           *)
(* allocation and its delete, and _tail belongs to the consumer.           *)
(***************************************************************************)
EXTENDS Naturals, Sequences, FiniteSets

CONSTANTS Producers,    \* the threads that call Enqueue
          Nodes,        \* bound: the addresses `new Node' may return
          Items,        \* the pointers that are queued
          MaxEnqueues,  \* bound: calls of Enqueue per producer
          Null          \* nullptr

ASSUME MPSCAssumption ==
    /\ Null \notin Nodes
    /\ Null \notin Items
    /\ Nodes # {}
    /\ MaxEnqueues \in Nat

VARIABLES head,         \* _head
          tail,         \* _tail
          next,         \* Node::Next, for every address
          data,         \* Node::Data, for every address
          live,         \* the addresses that are allocated
          ppc,          \* where each producer is in Enqueue
          node,         \* Enqueue's local `node'
          prevHead,     \* Enqueue's local `prevHead'
          calls,        \* calls each producer made
          cpc,          \* where the consumer is in Dequeue
          old,          \* Dequeue's local `tail'
          phase,        \* "open", "closing" (in the destructor), "closed"
          list,         \* history: the nodes from _tail to _head, in exchange order
          taken,        \* history: what Dequeue returned to the consumer
          dropped       \* history: what the destructor deleted

producerVars == <<ppc, node, prevHead, calls>>
vars == <<head, tail, next, data, live, producerVars, cpc, old, phase, list, taken, dropped>>
-----------------------------------------------------------------------------
(* The constructor allocates the stub. *)
Init ==
    /\ \E stub \in Nodes :
          /\ head = stub /\ tail = stub
          /\ live = {stub}
          /\ list = <<stub>>
    /\ next = [n \in Nodes |-> Null]
    /\ data = [n \in Nodes |-> Null]
    /\ ppc = [p \in Producers |-> "idle"]
    /\ node = [p \in Producers |-> Null]
    /\ prevHead = [p \in Producers |-> Null]
    /\ calls = [p \in Producers |-> 0]
    /\ cpc = "idle"
    /\ old = Null
    /\ phase = "open"
    /\ taken = <<>>
    /\ dropped = {}

(* Node* node = new Node(input): Next is nullptr before anybody can see it. *)
EnqueueNew(p, n, i) ==
    /\ phase = "open"
    /\ ppc[p] = "idle" /\ calls[p] < MaxEnqueues
    /\ live' = live \union {n}
    /\ data' = [data EXCEPT ![n] = i]
    /\ next' = [next EXCEPT ![n] = Null]
    /\ node' = [node EXCEPT ![p] = n]
    /\ ppc' = [ppc EXCEPT ![p] = "exchange"]
    /\ calls' = [calls EXCEPT ![p] = @ + 1]
    /\ UNCHANGED <<head, tail, prevHead, cpc, old, phase, list, taken, dropped>>

(* prevHead = _head.exchange(node): from here on the node is queued. *)
EnqueueExchange(p) ==
    /\ ppc[p] = "exchange"
    /\ prevHead' = [prevHead EXCEPT ![p] = head]
    /\ head' = node[p]
    /\ list' = Append(list, node[p])
    /\ ppc' = [ppc EXCEPT ![p] = "link"]
    /\ UNCHANGED <<tail, next, data, live, node, calls, cpc, old, phase, taken, dropped>>

(* Plausible bug: the link points the wrong way. *)
LinkedBack(p) == [next EXCEPT ![node[p]] = prevHead[p]]

Linked(p) == [next EXCEPT ![prevHead[p]] = node[p]]

(* prevHead->Next.store(node): from here on the consumer can reach the node. *)
EnqueueLink(p) ==
    /\ ppc[p] = "link"
    /\ next' = Linked(p)
    /\ ppc' = [ppc EXCEPT ![p] = "idle"]
    /\ node' = [node EXCEPT ![p] = Null]
    /\ prevHead' = [prevHead EXCEPT ![p] = Null]
    /\ UNCHANGED <<head, tail, data, live, calls, cpc, old, phase, list, taken, dropped>>

(* tail->Next is nullptr: Dequeue returns false.  In the destructor that ends *)
(* the loop, and the last node is deleted.                                    *)
DequeueEmpty ==
    /\ cpc = "idle" /\ phase # "closed"
    /\ next[tail] = Null
    /\ IF phase = "closing"
       THEN /\ phase' = "closed"
            /\ live' = live \ {head}
       ELSE UNCHANGED <<phase, live>>
    /\ UNCHANGED <<head, tail, next, data, producerVars, cpc, old, list, taken, dropped>>

(* tail->Next is not nullptr. *)
DequeueLoad ==
    /\ cpc = "idle" /\ phase # "closed"
    /\ next[tail] # Null
    /\ old' = tail
    /\ cpc' = "advance"
    /\ UNCHANGED <<head, tail, next, data, live, producerVars, phase, list, taken, dropped>>

(* The item goes to the caller; the destructor is its own caller and deletes it. *)
HandOut(i) ==
    IF phase = "closing"
    THEN dropped' = dropped \union {i} /\ UNCHANGED taken
    ELSE taken' = Append(taken, i) /\ UNCHANGED dropped

(* Plausible bug: the item is read from the stub, one element behind. *)
StubData == data[old]

FrontData == data[next[old]]

(* result = next->Data and _tail.store(next): next is now the stub. *)
DequeueAdvance ==
    /\ cpc = "advance"
    /\ HandOut(FrontData)
    /\ tail' = next[old]
    /\ list' = Tail(list)
    /\ cpc' = "delete"
    /\ UNCHANGED <<head, next, data, live, producerVars, old, phase>>

(* Plausible bug: the node that was just read is deleted, not its predecessor. *)
DeletesNext == {next[old]}

(* Plausible bug: the old stub is never deleted. *)
DeletesNothing == {}

Deletes == {old}

(* delete tail *)
DequeueDelete ==
    /\ cpc = "delete"
    /\ live' = live \ Deletes
    /\ old' = Null
    /\ cpc' = "idle"
    /\ UNCHANGED <<head, tail, next, data, producerVars, phase, list, taken, dropped>>

(* The destructor: the owner has stopped every producer and the consumer. *)
Destroy ==
    /\ phase = "open"
    /\ cpc = "idle"
    /\ \A p \in Producers : ppc[p] = "idle"
    /\ phase' = "closing"
    /\ UNCHANGED <<head, tail, next, data, live, producerVars, cpc, old, list, taken, dropped>>

Dequeue == DequeueEmpty \/ DequeueLoad \/ DequeueAdvance \/ DequeueDelete

Next ==
    \/ \E p \in Producers :
          \/ \E n \in Nodes \ live, i \in Items : EnqueueNew(p, n, i)
          \/ EnqueueExchange(p)
          \/ EnqueueLink(p)
    \/ Dequeue
    \/ Destroy

Spec == Init /\ [][Next]_vars

(* A producer inside Enqueue is scheduled, and the consumer polls. *)
Fairness ==
    /\ \A p \in Producers : WF_vars(EnqueueExchange(p) \/ EnqueueLink(p))
    /\ WF_vars(Dequeue)

FairSpec == Spec /\ Fairness
-----------------------------------------------------------------------------
Listed == {list[k] : k \in DOMAIN list}

(* A producer that has exchanged _head but has not stored Next yet. *)
Linking(p, m, n) == ppc[p] = "link" /\ prevHead[p] = m /\ node[p] = n

(* The list from _tail to _head is whole: each node is followed by the node   *)
(* that replaced it as _head, or by nothing as long as exactly the producer   *)
(* of that node is between its exchange and its store (MPSCQueue.h:54-55).    *)
ListIntact ==
    phase # "closed" =>
      /\ list # <<>>
      /\ list[1] = tail
      /\ list[Len(list)] = head
      /\ next[head] = Null
      /\ \A k \in 1 .. Len(list) - 1 :
            \/ next[list[k]] = list[k + 1]
            \/ /\ next[list[k]] = Null
               /\ \E p \in Producers : Linking(p, list[k], list[k + 1])

(* Nobody dereferences a node that was deleted, although the consumer deletes *)
(* nodes while producers still hold pointers (MPSCQueue.h:55, 61, 65, 67).    *)
NoUseAfterFree ==
    /\ phase # "closed" => {head, tail} \subseteq live
    /\ phase # "closed" /\ next[tail] # Null => next[tail] \in live
    /\ \A p \in Producers : ppc[p] = "exchange" => node[p] \in live \ Listed
    /\ \A p \in Producers : ppc[p] = "link" => {node[p], prevHead[p]} \subseteq live
    /\ cpc = "advance" => {old, next[old]} \subseteq live

(* Every allocated node is in the list, in the hands of one producer that has *)
(* not published it yet, or about to be deleted; after the destructor none is *)
(* left (MPSCQueue.h:43-48, 53, 67).                                          *)
NoLeak ==
    live = (IF phase = "closed" THEN {} ELSE Listed)
           \union {node[p] : p \in {x \in Producers : ppc[x] = "exchange"}}
           \union (IF cpc = "delete" THEN {old} ELSE {})

(* The queue is the data of the list behind the stub. *)
Queued == IF phase = "closed" THEN <<>> ELSE [k \in 1 .. Len(list) - 1 |-> data[list[k + 1]]]

(* Producers and consumer together implement a FIFO queue whose elements are  *)
(* ordered by the exchanges (MPSCQueue.h:51-69).                              *)
Abstract == INSTANCE Fifo WITH q <- Queued
ImplementsFifo == Abstract!Spec

(* A polling consumer gets everything, since each producer finishes its store *)
(* (MPSCQueue.h:55).                                                          *)
Drains == (Queued # <<>>) ~> (Queued = <<>>)
=============================================================================
