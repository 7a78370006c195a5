--------------------------- MODULE MPSCQueueProofs ---------------------------
(***************************************************************************)
(* Proofs about the lock-free queue of nodes, for any number of producers, *)
(* addresses and calls of Enqueue.                                         *)
(***************************************************************************)
EXTENDS MPSCQueue, SequenceTheorems, TLAPS

Kinds ==
    /\ head \in Nodes /\ tail \in Nodes
    /\ next \in [Nodes -> Nodes \union {Null}]
    /\ data \in [Nodes -> Items \union {Null}]
    /\ live \in SUBSET Nodes
    /\ ppc \in [Producers -> {"idle", "exchange", "link"}]
    /\ node \in [Producers -> Nodes \union {Null}]
    /\ prevHead \in [Producers -> Nodes \union {Null}]
    /\ cpc \in {"idle", "advance", "delete"}
    /\ phase \in {"open", "closing", "closed"}
    /\ list \in Seq(Nodes) /\ list # <<>>

(* No address is twice in the list, and every node but the stub has an item. *)
ListOfNodes ==
    /\ \A j, k \in 1 .. Len(list) : list[j] = list[k] => j = k
    /\ \A k \in 2 .. Len(list) : data[list[k]] \in Items

(* A node that is not published yet belongs to one producer. *)
Unpublished ==
    /\ \A p \in Producers : ppc[p] = "exchange" =>
          /\ node[p] \in live \ Listed
          /\ next[node[p]] = Null
          /\ data[node[p]] \in Items
    /\ \A p, q \in Producers :
          ppc[p] = "exchange" /\ ppc[q] = "exchange" /\ node[p] = node[q] => p = q

(* A link that is still to be stored is one of two neighbours in the list,    *)
(* and one producer will store it: the consumer cannot get past it.           *)
ToBeLinked ==
    /\ \A p \in Producers : ppc[p] = "link" =>
          /\ \E k \in 1 .. Len(list) - 1 : prevHead[p] = list[k] /\ node[p] = list[k + 1]
          /\ next[prevHead[p]] = Null
    /\ \A p, q \in Producers :
          ppc[p] = "link" /\ ppc[q] = "link" /\ prevHead[p] = prevHead[q] => p = q

(* What the consumer holds. *)
Held ==
    /\ cpc = "advance" => old = tail /\ next[tail] # Null
    /\ cpc = "delete" => /\ old \in live \ Listed
                         /\ \A p \in Producers : ppc[p] = "exchange" => node[p] # old
    /\ phase # "open" => \A p \in Producers : ppc[p] = "idle"
    /\ phase = "closed" => cpc = "idle"

IInv ==
    /\ Kinds
    /\ ListOfNodes
    /\ Unpublished
    /\ ToBeLinked
    /\ Held
    /\ ListIntact
    /\ NoLeak
-----------------------------------------------------------------------------
LEMMA ListedIs ==
    ASSUME list \in Seq(Nodes)
    PROVE  /\ Len(list) \in Nat /\ (list # <<>> => Len(list) > 0)
           /\ \A n : n \in Listed <=> \E k \in 1 .. Len(list) : n = list[k]
           /\ Listed \subseteq Nodes
BY DEF Listed

(* A node that becomes the last one of the list. *)
LEMMA Appended ==
    ASSUME list \in Seq(Nodes), NEW n \in Nodes, list' = Append(list, n)
    PROVE  /\ list' \in Seq(Nodes) /\ list' # <<>>
           /\ Len(list') = Len(list) + 1
           /\ \A k \in 1 .. Len(list) : list'[k] = list[k]
           /\ list'[Len(list) + 1] = n
           /\ Listed' = Listed \union {n}
<1>1. /\ list' \in Seq(Nodes) /\ list' # <<>> /\ Len(list) \in Nat
      /\ Len(list') = Len(list) + 1
      /\ \A k \in 1 .. Len(list) : list'[k] = list[k]
      /\ list'[Len(list) + 1] = n
  BY AppendProperties
<1>2. DOMAIN list' = 1 .. Len(list) + 1 /\ DOMAIN list = 1 .. Len(list)
  BY <1>1
<1>3. Listed' \subseteq Listed \union {n}
  BY <1>1, <1>2 DEF Listed
<1>4. Listed \union {n} \subseteq Listed'
  BY <1>1, <1>2 DEF Listed
<1> QED
  BY <1>1, <1>3, <1>4

(* The stub leaves the list, and its successor is the stub now. *)
LEMMA Removed ==
    ASSUME list \in Seq(Nodes), Len(list) > 1, list' = Tail(list),
           \A j, k \in 1 .. Len(list) : list[j] = list[k] => j = k
    PROVE  /\ list' \in Seq(Nodes) /\ list' # <<>>
           /\ Len(list') = Len(list) - 1
           /\ \A k \in 1 .. Len(list) - 1 : list'[k] = list[k + 1]
           /\ Listed' = Listed \ {list[1]}
<1>1. /\ list' \in Seq(Nodes) /\ Len(list) \in Nat
      /\ Len(list') = Len(list) - 1
      /\ \A k \in 1 .. Len(list) - 1 : list'[k] = list[k + 1]
  BY HeadTailProperties
<1>2. DOMAIN list' = 1 .. Len(list) - 1 /\ DOMAIN list = 1 .. Len(list)
  BY <1>1
<1>3. Listed' \subseteq Listed \ {list[1]}
  BY <1>1, <1>2 DEF Listed
<1>4. ASSUME NEW k \in 1 .. Len(list), k # 1
      PROVE  list[k] \in Listed'
  <2>1. k - 1 \in 1 .. Len(list) - 1 /\ list'[k - 1] = list[k]
    BY <1>1, <1>4
  <2> QED
    BY <1>2, <2>1 DEF Listed
<1>5. Listed \ {list[1]} \subseteq Listed'
  BY <1>2, <1>4 DEF Listed
<1>6. list' # <<>>
  <2>1. Len(list') # 0
    BY <1>1
  <2>2. Len(<<>>) = 0
    OBVIOUS
  <2> QED
    BY <2>1, <2>2
<1> QED
  BY <1>1, <1>3, <1>5, <1>6

LEMMA InitHolds == Init => IInv
<1> SUFFICES ASSUME Init
             PROVE  IInv
  OBVIOUS
<1>1. PICK stub \in Nodes : head = stub /\ tail = stub /\ live = {stub} /\ list = <<stub>>
  BY DEF Init
<1>2. list \in Seq(Nodes) /\ list # <<>> /\ Len(list) = 1 /\ list[1] = stub
  BY <1>1
<1>3. Listed = {stub}
  BY <1>1 DEF Listed
<1>4. Kinds
  BY <1>1, <1>2 DEF Init, Kinds
<1>5. ListOfNodes
  BY <1>2 DEF ListOfNodes
<1>6. Unpublished /\ ToBeLinked /\ Held
  BY DEF Init, Unpublished, ToBeLinked, Held
<1>7. ListIntact
  BY <1>1, <1>2 DEF Init, ListIntact
<1>8. NoLeak
  BY <1>1, <1>3 DEF Init, NoLeak
<1> QED
  BY <1>4, <1>5, <1>6, <1>7, <1>8 DEF IInv

(* What ListIntact says before the queue is destroyed. *)
LEMMA Whole ==
    ASSUME IInv, phase # "closed"
    PROVE  /\ Len(list) \in Nat /\ Len(list) > 0
           /\ list[1] = tail /\ list[Len(list)] = head /\ next[head] = Null
           /\ \A k \in 1 .. Len(list) - 1 :
                 \/ next[list[k]] = list[k + 1]
                 \/ /\ next[list[k]] = Null
                    /\ \E p \in Producers : Linking(p, list[k], list[k + 1])
           /\ Listed \subseteq live
           /\ Len(list) > 1 \/ next[tail] = Null
BY ListedIs DEF IInv, Kinds, ListIntact, NoLeak
-----------------------------------------------------------------------------
LEMMA EnqueueNewKeeps ==
    ASSUME IInv, NEW p \in Producers, NEW n \in Nodes \ live, NEW i \in Items,
           EnqueueNew(p, n, i)
    PROVE  IInv'
<1>1. /\ phase = "open" /\ ppc[p] = "idle"
      /\ live' = live \union {n}
      /\ data' = [data EXCEPT ![n] = i]
      /\ next' = [next EXCEPT ![n] = Null]
      /\ node' = [node EXCEPT ![p] = n]
      /\ ppc' = [ppc EXCEPT ![p] = "exchange"]
      /\ UNCHANGED <<head, tail, prevHead, cpc, old, phase, list>>
  BY DEF EnqueueNew
<1>2. Kinds /\ ListOfNodes /\ Unpublished /\ ToBeLinked /\ Held /\ ListIntact /\ NoLeak
  BY DEF IInv
<1>3. /\ Len(list) \in Nat /\ Len(list) > 0 /\ Listed' = Listed
      /\ \A m : m \in Listed <=> \E k \in 1 .. Len(list) : m = list[k]
      /\ Listed \subseteq live
  BY <1>1, <1>2, ListedIs, Whole DEF Kinds, Listed
<1>4. n \notin Listed /\ \A k \in 1 .. Len(list) : list[k] # n /\ list[k] \in Nodes
  BY <1>2, <1>3, ListedIs DEF Kinds
<1>5. \A q \in Producers : ppc'[q] = IF q = p THEN "exchange" ELSE ppc[q]
  BY <1>1, <1>2 DEF Kinds
<1>6. \A q \in Producers : node'[q] = IF q = p THEN n ELSE node[q]
  BY <1>1, <1>2 DEF Kinds
<1>7. \A m \in Nodes : next'[m] = IF m = n THEN Null ELSE next[m]
  BY <1>1, <1>2 DEF Kinds
<1>8. \A m \in Nodes : data'[m] = IF m = n THEN i ELSE data[m]
  BY <1>1, <1>2 DEF Kinds
<1>10. Kinds'
  BY <1>1, <1>2 DEF Kinds
<1>11. ListOfNodes'
  BY <1>1, <1>2, <1>3, <1>4, <1>8 DEF ListOfNodes
<1>12. Unpublished'
  BY <1>1, <1>2, <1>3, <1>4, <1>5, <1>6, <1>7, <1>8 DEF Unpublished, Kinds
<1>13. ToBeLinked'
  <2>1. ASSUME NEW q \in Producers, ppc'[q] = "link"
        PROVE  /\ q # p /\ ppc[q] = "link" /\ node'[q] = node[q]
               /\ next'[prevHead[q]] = next[prevHead[q]]
    BY <1>2, <1>3, <1>4, <1>5, <1>6, <1>7, <2>1 DEF ToBeLinked
  <2> QED
    BY <1>1, <1>2, <2>1 DEF ToBeLinked
<1>14. Held'
  <2>1. next'[tail] = next[tail]
    BY <1>1, <1>3, <1>4, <1>7, Whole
  <2>2. cpc = "delete" => n # old
    BY <1>2 DEF Held
  <2> QED
    BY <1>1, <1>2, <1>3, <1>5, <1>6, <2>1, <2>2 DEF Held
<1>15. ListIntact'
  <2>1. next'[head] = next[head]
    BY <1>1, <1>4, <1>7, Whole DEF IInv, Kinds
  <2>2. ASSUME NEW k \in 1 .. Len(list) - 1
        PROVE  \/ next'[list[k]] = list[k + 1]
               \/ /\ next'[list[k]] = Null
                  /\ \E q \in Producers : Linking(q, list[k], list[k + 1])'
    <3>1. next'[list[k]] = next[list[k]]
      BY <1>3, <1>4, <1>7
    <3>2. ASSUME NEW q \in Producers, Linking(q, list[k], list[k + 1])
          PROVE  Linking(q, list[k], list[k + 1])'
      BY <1>1, <1>5, <1>6, <3>2 DEF Linking
    <3> QED
      BY <1>1, <3>1, <3>2, Whole
  <2> QED
    BY <1>1, <2>1, <2>2, Whole DEF ListIntact
<1>16. NoLeak'
  BY <1>1, <1>2, <1>3, <1>5, <1>6 DEF NoLeak
<1> QED
  BY <1>10, <1>11, <1>12, <1>13, <1>14, <1>15, <1>16 DEF IInv

LEMMA EnqueueExchangeKeeps ==
    ASSUME IInv, NEW p \in Producers, EnqueueExchange(p)
    PROVE  IInv'
<1> DEFINE n == node[p]
<1>1. /\ ppc[p] = "exchange"
      /\ prevHead' = [prevHead EXCEPT ![p] = head]
      /\ head' = n
      /\ list' = Append(list, n)
      /\ ppc' = [ppc EXCEPT ![p] = "link"]
      /\ UNCHANGED <<tail, next, data, live, node, cpc, old, phase>>
  BY DEF EnqueueExchange
<1>2. Kinds /\ ListOfNodes /\ Unpublished /\ ToBeLinked /\ Held /\ ListIntact /\ NoLeak
  BY DEF IInv
<1>3. /\ phase = "open"
      /\ n \in live \ Listed /\ n \in Nodes /\ next[n] = Null /\ data[n] \in Items
  BY <1>1, <1>2 DEF Held, Unpublished, Kinds
<1> HIDE DEF n
<1>4. /\ list' \in Seq(Nodes) /\ list' # <<>>
      /\ Len(list') = Len(list) + 1 /\ Len(list) \in Nat /\ Len(list) > 0
      /\ \A k \in 1 .. Len(list) : list'[k] = list[k] /\ list[k] # n
      /\ list'[Len(list) + 1] = n
      /\ Listed' = Listed \union {n}
  BY <1>1, <1>2, <1>3, Appended, ListedIs DEF Kinds
<1>5. \A q \in Producers : ppc'[q] = IF q = p THEN "link" ELSE ppc[q]
  BY <1>1, <1>2 DEF Kinds
<1>6. \A q \in Producers : prevHead'[q] = IF q = p THEN head ELSE prevHead[q]
  BY <1>1, <1>2 DEF Kinds
<1>7. \A q \in Producers : q # p /\ ppc[q] = "exchange" => node[q] # n
  BY <1>1, <1>2 DEF Unpublished, n
<1>8. /\ list[1] = tail /\ list[Len(list)] = head /\ next[head] = Null
      /\ \A k \in 1 .. Len(list) - 1 :
            \/ next[list[k]] = list[k + 1]
            \/ /\ next[list[k]] = Null
               /\ \E q \in Producers : Linking(q, list[k], list[k + 1])
  BY <1>3, Whole
<1>10. Kinds'
  BY <1>1, <1>2, <1>3, <1>4 DEF Kinds
<1>11. ListOfNodes'
  <2>1. ASSUME NEW j \in 1 .. Len(list'), NEW k \in 1 .. Len(list'), list'[j] = list'[k]
        PROVE  j = k
    <3>1. (j \in 1 .. Len(list) \/ j = Len(list) + 1) /\ (k \in 1 .. Len(list) \/ k = Len(list) + 1)
      BY <1>4
    <3> QED
      BY <1>2, <1>4, <2>1, <3>1 DEF ListOfNodes
  <2>2. ASSUME NEW k \in 2 .. Len(list')
        PROVE  data'[list'[k]] \in Items
    <3>1. k \in 2 .. Len(list) \/ k = Len(list) + 1
      BY <1>4
    <3> QED
      BY <1>1, <1>2, <1>3, <1>4, <3>1 DEF ListOfNodes
  <2> QED
    BY <2>1, <2>2 DEF ListOfNodes
<1>12. Unpublished'
  BY <1>1, <1>2, <1>4, <1>5, <1>7 DEF Unpublished
<1>13. ToBeLinked'
  <2>1. ASSUME NEW q \in Producers, ppc'[q] = "link"
        PROVE  /\ \E k \in 1 .. Len(list') - 1 : prevHead'[q] = list'[k] /\ node[q] = list'[k + 1]
               /\ next[prevHead'[q]] = Null
    <3>1. CASE q = p
      <4>1. /\ Len(list) \in 1 .. Len(list') - 1
            /\ prevHead'[q] = list'[Len(list)] /\ node[q] = list'[Len(list) + 1]
        BY <1>4, <1>6, <1>8, <3>1 DEF n
      <4> QED
        BY <1>6, <1>8, <3>1, <4>1
    <3>2. CASE q # p
      <4>1. ppc[q] = "link" /\ prevHead'[q] = prevHead[q]
        BY <1>5, <1>6, <2>1, <3>2
      <4>2. PICK k \in 1 .. Len(list) - 1 : prevHead[q] = list[k] /\ node[q] = list[k + 1]
        BY <1>2, <4>1 DEF ToBeLinked
      <4>3. k \in 1 .. Len(list') - 1 /\ list'[k] = list[k] /\ list'[k + 1] = list[k + 1]
        BY <1>4
      <4> QED
        BY <1>2, <4>1, <4>2, <4>3 DEF ToBeLinked
    <3> QED
      BY <3>1, <3>2
  <2>2. ASSUME NEW q \in Producers, ppc[q] = "link"
        PROVE  prevHead[q] # head
    <3>1. PICK k \in 1 .. Len(list) - 1 : prevHead[q] = list[k]
      BY <1>2, <2>2 DEF ToBeLinked
    <3> QED
      BY <1>2, <1>4, <1>8, <3>1 DEF ListOfNodes
  <2>3. ASSUME NEW q \in Producers, NEW r \in Producers, ppc'[q] = "link", ppc'[r] = "link",
               prevHead'[q] = prevHead'[r]
        PROVE  q = r
    BY <1>2, <1>5, <1>6, <2>2, <2>3 DEF ToBeLinked
  <2> QED
    BY <1>1, <2>1, <2>3 DEF ToBeLinked
<1>14. Held'
  <2>1. cpc = "delete" => old # n
    BY <1>1, <1>2 DEF Held, n
  <2> QED
    BY <1>1, <1>2, <1>3, <1>4, <1>5, <2>1 DEF Held
<1>15. ListIntact'
  <2>1. list'[1] = tail /\ list'[Len(list')] = n /\ next[n] = Null
    BY <1>3, <1>4, <1>8
  <2>2. ASSUME NEW k \in 1 .. Len(list') - 1
        PROVE  \/ next[list'[k]] = list'[k + 1]
               \/ /\ next[list'[k]] = Null
                  /\ \E q \in Producers :
                        ppc'[q] = "link" /\ prevHead'[q] = list'[k] /\ node[q] = list'[k + 1]
    <3>1. CASE k = Len(list)
      <4>1. ppc'[p] = "link" /\ prevHead'[p] = list'[k] /\ node[p] = list'[k + 1]
        BY <1>4, <1>5, <1>6, <1>8, <3>1 DEF n
      <4> QED
        BY <1>4, <1>8, <3>1, <4>1
    <3>2. CASE k # Len(list)
      <4>1. k \in 1 .. Len(list) - 1 /\ list'[k] = list[k] /\ list'[k + 1] = list[k + 1]
        BY <1>4, <3>2
      <4>2. CASE next[list[k]] = list[k + 1]
        BY <4>1, <4>2
      <4>3. CASE next[list[k]] = Null /\ \E q \in Producers : Linking(q, list[k], list[k + 1])
        <5>1. PICK q \in Producers :
                 ppc[q] = "link" /\ prevHead[q] = list[k] /\ node[q] = list[k + 1]
          BY <4>3 DEF Linking
        <5>2. ppc'[q] = "link" /\ prevHead'[q] = list'[k] /\ node[q] = list'[k + 1]
          BY <1>1, <1>5, <1>6, <4>1, <5>1
        <5> QED
          BY <4>1, <4>3, <5>2
      <4> QED
        BY <1>8, <4>1, <4>2, <4>3
    <3> QED
      BY <1>4, <3>1, <3>2
  <2> QED
    BY <1>1, <1>4, <2>1, <2>2 DEF ListIntact, Linking
<1>16. NoLeak'
  BY <1>1, <1>2, <1>3, <1>4, <1>5, <1>7 DEF NoLeak, n
<1> QED
  BY <1>10, <1>11, <1>12, <1>13, <1>14, <1>15, <1>16 DEF IInv

LEMMA EnqueueLinkKeeps ==
    ASSUME IInv, NEW p \in Producers, EnqueueLink(p)
    PROVE  IInv'
<1> DEFINE m == prevHead[p]
           n == node[p]
<1>1. /\ ppc[p] = "link"
      /\ next' = [next EXCEPT ![m] = n]
      /\ ppc' = [ppc EXCEPT ![p] = "idle"]
      /\ node' = [node EXCEPT ![p] = Null]
      /\ prevHead' = [prevHead EXCEPT ![p] = Null]
      /\ UNCHANGED <<head, tail, data, live, cpc, old, phase, list>>
  BY DEF EnqueueLink, Linked
<1>2. Kinds /\ ListOfNodes /\ Unpublished /\ ToBeLinked /\ Held /\ ListIntact /\ NoLeak
  BY DEF IInv
<1>3. PICK j \in 1 .. Len(list) - 1 : m = list[j] /\ n = list[j + 1]
  BY <1>1, <1>2 DEF ToBeLinked
<1>4. /\ phase = "open" /\ next[m] = Null
      /\ Len(list) \in Nat /\ Len(list) > 0 /\ Listed' = Listed
      /\ \A k \in 1 .. Len(list) : list[k] \in Nodes /\ list[k] \in Listed
  BY <1>1, <1>2, ListedIs DEF Held, ToBeLinked, Kinds, Listed
<1>5. m \in Listed /\ m \in Nodes /\ n \in Nodes /\ n # Null
  BY <1>3, <1>4, MPSCAssumption
<1>6. \A q \in Producers : q # p /\ ppc[q] = "link" => prevHead[q] # m
  BY <1>1, <1>2 DEF ToBeLinked
<1> HIDE DEF m, n
<1>7. \A q \in Producers : /\ ppc'[q] = IF q = p THEN "idle" ELSE ppc[q]
                           /\ node'[q] = IF q = p THEN Null ELSE node[q]
                           /\ prevHead'[q] = IF q = p THEN Null ELSE prevHead[q]
  BY <1>1, <1>2 DEF Kinds
<1>8. \A x \in Nodes : next'[x] = IF x = m THEN n ELSE next[x]
  BY <1>1, <1>2 DEF Kinds
<1>10. Kinds'
  BY <1>1, <1>2, <1>5 DEF Kinds
<1>11. ListOfNodes'
  BY <1>1, <1>2 DEF ListOfNodes
<1>12. Unpublished'
  BY <1>1, <1>2, <1>4, <1>5, <1>7, <1>8 DEF Unpublished, Kinds
<1>13. ToBeLinked'
  <2>1. ASSUME NEW q \in Producers, ppc'[q] = "link"
        PROVE  /\ q # p /\ ppc[q] = "link"
               /\ prevHead'[q] = prevHead[q] /\ node'[q] = node[q]
               /\ \E k \in 1 .. Len(list) - 1 : prevHead[q] = list[k] /\ node[q] = list[k + 1]
               /\ next'[prevHead[q]] = Null
    <3>1. q # p /\ ppc[q] = "link" /\ prevHead[q] # m
      BY <1>6, <1>7, <2>1
    <3>2. PICK k \in 1 .. Len(list) - 1 : prevHead[q] = list[k] /\ node[q] = list[k + 1]
      BY <1>2, <3>1 DEF ToBeLinked
    <3> QED
      BY <1>2, <1>4, <1>7, <1>8, <3>1, <3>2 DEF ToBeLinked
  <2> QED
    BY <1>1, <1>2, <2>1 DEF ToBeLinked
<1>14. Held'
  BY <1>1, <1>2, <1>4, <1>5, <1>7, <1>8 DEF Held, Kinds
<1>15. ListIntact'
  <2>1. m # head /\ list[1] = tail /\ list[Len(list)] = head /\ next[head] = Null
    BY <1>2, <1>3, <1>4, Whole DEF ListOfNodes
  <2>2. next'[head] = Null
    BY <1>2, <1>8, <2>1 DEF Kinds
  <2>3. ASSUME NEW k \in 1 .. Len(list) - 1
        PROVE  \/ next'[list[k]] = list[k + 1]
               \/ /\ next'[list[k]] = Null
                  /\ \E q \in Producers : Linking(q, list[k], list[k + 1])'
    <3>1. CASE k = j
      BY <1>3, <1>5, <1>8, <3>1
    <3>2. CASE k # j
      <4>1. list[k] # m /\ next'[list[k]] = next[list[k]]
        BY <1>2, <1>3, <1>4, <1>8, <3>2 DEF ListOfNodes
      <4>2. ASSUME NEW q \in Producers, Linking(q, list[k], list[k + 1])
            PROVE  Linking(q, list[k], list[k + 1])'
        <5>1. q # p
          BY <4>1, <4>2 DEF Linking, m
        <5> QED
          BY <1>1, <1>7, <4>2, <5>1 DEF Linking
      <4> QED
        BY <1>4, <4>1, <4>2, Whole
    <3> QED
      BY <3>1, <3>2
  <2> QED
    BY <1>1, <1>2, <2>1, <2>2, <2>3 DEF ListIntact, Kinds
<1>16. NoLeak'
  BY <1>1, <1>2, <1>4, <1>7 DEF NoLeak
<1> QED
  BY <1>10, <1>11, <1>12, <1>13, <1>14, <1>15, <1>16 DEF IInv

(* With nothing behind the stub and nobody inside Enqueue, the stub is all.   *)
LEMMA EmptyWhenQuiet ==
    ASSUME IInv, phase = "closing", next[tail] = Null
    PROVE  Len(list) = 1 /\ Listed = {head}
<1>0. Len(list) \in Nat /\ Len(list) > 0
  BY Whole
<1>1. /\ Len(list) \in Nat /\ Len(list) > 0
      /\ list[1] = tail /\ list[Len(list)] = head
      /\ \A k \in 1 .. Len(list) - 1 :
            \/ next[list[k]] = list[k + 1]
            \/ /\ next[list[k]] = Null
               /\ \E p \in Producers : Linking(p, list[k], list[k + 1])
  BY Whole
<1>2. \A k \in 1 .. Len(list) : list[k] # Null
  BY MPSCAssumption DEF IInv, Kinds
<1>3. \A p \in Producers : ppc[p] = "idle"
  BY DEF IInv, Held
<1>4. Len(list) = 1
  <2> SUFFICES ASSUME Len(list) # 1
               PROVE  FALSE
    OBVIOUS
  <2>0. \A l \in Nat : l > 0 /\ l # 1 => 1 \in 1 .. l - 1 /\ 1 + 1 \in 1 .. l
    OBVIOUS
  <2>1. 1 \in 1 .. Len(list) - 1 /\ 1 + 1 \in 1 .. Len(list)
    BY <1>0, <2>0
  <2>2. next[list[1]] # list[1 + 1]
    BY <1>1, <1>2, <2>1
  <2> QED
    BY <1>1, <1>3, <2>1, <2>2 DEF Linking
<1>5. \A n : n \in Listed <=> \E k \in 1 .. Len(list) : n = list[k]
  BY ListedIs DEF IInv, Kinds
<1> QED
  BY <1>1, <1>4, <1>5

LEMMA DequeueEmptyKeeps ==
    ASSUME IInv, DequeueEmpty
    PROVE  IInv'
<1>1. /\ cpc = "idle" /\ phase # "closed" /\ next[tail] = Null
      /\ UNCHANGED <<head, tail, next, data, ppc, node, prevHead, cpc, old, list>>
      /\ IF phase = "closing" THEN phase' = "closed" /\ live' = live \ {head}
                              ELSE UNCHANGED <<phase, live>>
  BY DEF DequeueEmpty, producerVars
<1>2. Kinds /\ ListOfNodes /\ Unpublished /\ ToBeLinked /\ Held /\ ListIntact /\ NoLeak
  BY DEF IInv
<1>3. Listed' = Listed
  BY <1>1 DEF Listed
<1>4. CASE phase = "closing"
  <2>1. Listed = {head} /\ \A p \in Producers : ppc[p] = "idle"
    BY <1>1, <1>2, <1>4, EmptyWhenQuiet DEF Held
  <2>2. live' = {}
    BY <1>1, <1>2, <1>4, <2>1 DEF NoLeak
  <2>3. Kinds' /\ ListOfNodes'
    BY <1>1, <1>2, <1>4 DEF Kinds, ListOfNodes
  <2>4. Unpublished' /\ ToBeLinked' /\ Held'
    BY <1>1, <1>4, <2>1 DEF Unpublished, ToBeLinked, Held
  <2>5. ListIntact' /\ NoLeak'
    BY <1>1, <1>4, <2>1, <2>2 DEF ListIntact, NoLeak
  <2> QED
    BY <2>3, <2>4, <2>5 DEF IInv
<1>5. CASE phase # "closing"
  <2>1. UNCHANGED <<phase, live>>
    BY <1>1, <1>5
  <2>2. Kinds' /\ ListOfNodes' /\ Unpublished' /\ ToBeLinked' /\ Held'
    BY <1>1, <1>2, <1>3, <2>1 DEF Kinds, ListOfNodes, Unpublished, ToBeLinked, Held
  <2>3. ListIntact' /\ NoLeak'
    BY <1>1, <1>2, <1>3, <2>1 DEF ListIntact, NoLeak, Linking
  <2> QED
    BY <2>2, <2>3 DEF IInv
<1> QED
  BY <1>4, <1>5

LEMMA DequeueLoadKeeps ==
    ASSUME IInv, DequeueLoad
    PROVE  IInv'
<1>1. /\ cpc = "idle" /\ phase # "closed" /\ next[tail] # Null
      /\ old' = tail /\ cpc' = "advance"
      /\ UNCHANGED <<head, tail, next, data, live, ppc, node, prevHead, phase, list>>
  BY DEF DequeueLoad, producerVars
<1>2. Kinds /\ ListOfNodes /\ Unpublished /\ ToBeLinked /\ Held /\ ListIntact /\ NoLeak
  BY DEF IInv
<1>3. Listed' = Listed
  BY <1>1 DEF Listed
<1>4. Kinds' /\ ListOfNodes' /\ Unpublished' /\ ToBeLinked' /\ Held'
  BY <1>1, <1>2, <1>3 DEF Kinds, ListOfNodes, Unpublished, ToBeLinked, Held
<1>5. ListIntact' /\ NoLeak'
  BY <1>1, <1>2, <1>3 DEF ListIntact, NoLeak, Linking
<1> QED
  BY <1>4, <1>5 DEF IInv

(* The consumer is about to take the second node of the list. *)
LEMMA SecondIsNext ==
    ASSUME IInv, phase # "closed", next[tail] # Null
    PROVE  Len(list) > 1 /\ next[tail] = list[2]
<1>1. Len(list) > 1 /\ Len(list) \in Nat
  BY Whole
<1>2. 1 \in 1 .. Len(list) - 1 /\ 1 + 1 = 2
  BY <1>1
<1> QED
  BY <1>1, <1>2, Whole

LEMMA DequeueAdvanceKeeps ==
    ASSUME IInv, DequeueAdvance
    PROVE  IInv'
<1>1. /\ cpc = "advance" /\ tail' = next[old] /\ list' = Tail(list) /\ cpc' = "delete"
      /\ UNCHANGED <<head, next, data, live, ppc, node, prevHead, old, phase>>
  BY DEF DequeueAdvance, producerVars
<1>2. Kinds /\ ListOfNodes /\ Unpublished /\ ToBeLinked /\ Held /\ ListIntact /\ NoLeak
  BY DEF IInv
<1>3. phase # "closed" /\ old = tail /\ next[tail] # Null
  BY <1>1, <1>2 DEF Held
<1>4. Len(list) > 1 /\ tail' = list[2] /\ Len(list) \in Nat
  BY <1>1, <1>3, SecondIsNext, Whole
<1>5. /\ list' \in Seq(Nodes) /\ list' # <<>>
      /\ Len(list') = Len(list) - 1
      /\ \A k \in 1 .. Len(list) - 1 : list'[k] = list[k + 1]
      /\ Listed' = Listed \ {list[1]}
  BY <1>1, <1>2, <1>4, Removed DEF Kinds, ListOfNodes
<1>6. /\ list[1] = tail /\ list[Len(list)] = head /\ next[head] = Null
      /\ \A k \in 1 .. Len(list) - 1 :
            \/ next[list[k]] = list[k + 1]
            \/ /\ next[list[k]] = Null
               /\ \E p \in Producers : Linking(p, list[k], list[k + 1])
      /\ Listed \subseteq live
  BY <1>3, Whole
<1>7. tail \in Listed
  BY <1>2, <1>4, <1>6, ListedIs DEF Kinds
<1>10. Kinds'
  BY <1>1, <1>2, <1>4, <1>5 DEF Kinds
<1>11. ListOfNodes'
  <2>1. ASSUME NEW j \in 1 .. Len(list'), NEW k \in 1 .. Len(list'), list'[j] = list'[k]
        PROVE  j = k
    <3>1. j + 1 \in 1 .. Len(list) /\ k + 1 \in 1 .. Len(list) /\ list[j + 1] = list[k + 1]
      BY <1>4, <1>5, <2>1
    <3>2. j + 1 = k + 1
      BY <1>2, <3>1 DEF ListOfNodes
    <3> QED
      BY <3>2
  <2>2. ASSUME NEW k \in 2 .. Len(list')
        PROVE  data[list'[k]] \in Items
    <3>1. k + 1 \in 2 .. Len(list) /\ list'[k] = list[k + 1]
      BY <1>4, <1>5
    <3> QED
      BY <1>2, <3>1 DEF ListOfNodes
  <2> QED
    BY <1>1, <2>1, <2>2 DEF ListOfNodes
<1>12. Unpublished'
  BY <1>1, <1>2, <1>5 DEF Unpublished
<1>13. ToBeLinked'
  <2>1. ASSUME NEW p \in Producers, ppc[p] = "link"
        PROVE  \E k \in 1 .. Len(list') - 1 : prevHead[p] = list'[k] /\ node[p] = list'[k + 1]
    <3>1. PICK k \in 1 .. Len(list) - 1 : prevHead[p] = list[k] /\ node[p] = list[k + 1]
      BY <1>2, <2>1 DEF ToBeLinked
    <3>2. k # 1
      BY <1>2, <1>3, <1>6, <2>1, <3>1 DEF ToBeLinked
    <3>3. /\ k - 1 \in 1 .. Len(list') - 1
          /\ list'[k - 1] = list[k] /\ list'[k - 1 + 1] = list[k + 1]
      BY <1>4, <1>5, <3>2
    <3> QED
      BY <3>1, <3>3
  <2> QED
    BY <1>1, <1>2, <2>1 DEF ToBeLinked
<1>14. Held'
  BY <1>1, <1>2, <1>3, <1>5, <1>6, <1>7 DEF Held, Unpublished
<1>15. ListIntact'
  <2>1. list'[1] = tail' /\ list'[Len(list')] = head
    BY <1>4, <1>5, <1>6
  <2>2. ASSUME NEW k \in 1 .. Len(list') - 1
        PROVE  \/ next[list'[k]] = list'[k + 1]
               \/ /\ next[list'[k]] = Null
                  /\ \E q \in Producers :
                        ppc[q] = "link" /\ prevHead[q] = list'[k] /\ node[q] = list'[k + 1]
    <3>1. /\ k + 1 \in 1 .. Len(list) - 1
          /\ list'[k] = list[k + 1] /\ list'[k + 1] = list[k + 1 + 1]
      BY <1>4, <1>5
    <3> QED
      BY <1>6, <3>1 DEF Linking
  <2> QED
    BY <1>1, <1>5, <1>6, <2>1, <2>2 DEF ListIntact, Linking
<1>16. NoLeak'
  BY <1>1, <1>2, <1>3, <1>5, <1>6, <1>7 DEF NoLeak
<1> QED
  BY <1>10, <1>11, <1>12, <1>13, <1>14, <1>15, <1>16 DEF IInv

LEMMA DequeueDeleteKeeps ==
    ASSUME IInv, DequeueDelete
    PROVE  IInv'
<1>1. /\ cpc = "delete" /\ live' = live \ {old} /\ cpc' = "idle"
      /\ UNCHANGED <<head, tail, next, data, ppc, node, prevHead, phase, list>>
  BY DEF DequeueDelete, Deletes, producerVars
<1>2. Kinds /\ ListOfNodes /\ Unpublished /\ ToBeLinked /\ Held /\ ListIntact /\ NoLeak
  BY DEF IInv
<1>3. Listed' = Listed /\ phase # "closed"
  BY <1>1, <1>2 DEF Listed, Held
<1>4. Kinds' /\ ListOfNodes' /\ ToBeLinked' /\ Held'
  BY <1>1, <1>2, <1>3 DEF Kinds, ListOfNodes, ToBeLinked, Held
<1>5. Unpublished'
  BY <1>1, <1>2, <1>3 DEF Unpublished, Held
<1>6. ListIntact'
  BY <1>1, <1>2, <1>3 DEF ListIntact, Linking
<1>7. NoLeak'
  BY <1>1, <1>2, <1>3 DEF NoLeak, Held
<1> QED
  BY <1>4, <1>5, <1>6, <1>7 DEF IInv

LEMMA StepKeepsIInv == IInv /\ [Next]_vars => IInv'
<1> SUFFICES ASSUME IInv, [Next]_vars
             PROVE  IInv'
  OBVIOUS
<1>1. Kinds /\ ListOfNodes /\ Unpublished /\ ToBeLinked /\ Held /\ ListIntact /\ NoLeak
  BY DEF IInv
<1>2. CASE Destroy
  <2>1. /\ phase = "open" /\ phase' = "closing" /\ \A p \in Producers : ppc[p] = "idle"
        /\ UNCHANGED <<head, tail, next, data, live, ppc, node, prevHead, cpc, old, list>>
    BY <1>2 DEF Destroy, producerVars
  <2>2. Listed' = Listed
    BY <2>1 DEF Listed
  <2>3. Kinds' /\ ListOfNodes' /\ Unpublished' /\ ToBeLinked' /\ Held'
    BY <1>1, <2>1, <2>2 DEF Kinds, ListOfNodes, Unpublished, ToBeLinked, Held
  <2>4. ListIntact' /\ NoLeak'
    BY <1>1, <2>1, <2>2 DEF ListIntact, NoLeak, Linking
  <2> QED
    BY <2>3, <2>4 DEF IInv
<1>3. CASE UNCHANGED vars
  <2>1. UNCHANGED <<head, tail, next, data, live, ppc, node, prevHead, cpc, old, phase, list>>
    BY <1>3 DEF vars, producerVars
  <2>2. Listed' = Listed
    BY <2>1 DEF Listed
  <2>3. Kinds' /\ ListOfNodes' /\ Unpublished' /\ ToBeLinked' /\ Held'
    BY <1>1, <2>1, <2>2 DEF Kinds, ListOfNodes, Unpublished, ToBeLinked, Held
  <2>4. ListIntact' /\ NoLeak'
    BY <1>1, <2>1, <2>2 DEF ListIntact, NoLeak, Linking
  <2> QED
    BY <2>3, <2>4 DEF IInv
<1> QED
  BY <1>2, <1>3, EnqueueNewKeeps, EnqueueExchangeKeeps, EnqueueLinkKeeps, DequeueEmptyKeeps,
     DequeueLoadKeeps, DequeueAdvanceKeeps, DequeueDeleteKeeps DEF Next, Dequeue

(* IInv is an invariant of the specification. *)
LEMMA Inductive == Spec => []IInv
BY InitHolds, StepKeepsIInv, PTL DEF Spec

(* From _tail to _head the list is whole up to the links that are about to be *)
(* stored, for any number of producers (MPSCQueue.h:54-55).                   *)
THEOREM ListStaysIntact == Spec => []ListIntact
<1>1. IInv => ListIntact
  BY DEF IInv
<1> QED
  BY <1>1, Inductive, PTL

(* Each node that was allocated is in the list, in one producer's hands or    *)
(* about to be deleted, and the destructor leaves none                        *)
(* (MPSCQueue.h:43-48, 53, 67).                                               *)
THEOREM NothingLeaks == Spec => []NoLeak
<1>1. IInv => NoLeak
  BY DEF IInv
<1> QED
  BY <1>1, Inductive, PTL

(* No thread dereferences a node that the consumer has deleted, although      *)
(* addresses are reused (MPSCQueue.h:55, 61, 65, 67).                         *)
THEOREM NothingDeletedIsUsed == Spec => []NoUseAfterFree
<1>1. ASSUME IInv
      PROVE  NoUseAfterFree
  <2>1. Kinds /\ Unpublished /\ ToBeLinked /\ Held
    BY <1>1 DEF IInv
  <2>2. /\ Len(list) \in Nat
        /\ \A k \in 1 .. Len(list) : list[k] \in Listed
    BY <1>1, ListedIs DEF IInv, Kinds
  <2>3. ASSUME phase # "closed"
        PROVE  /\ {head, tail} \subseteq live
               /\ next[tail] # Null => next[tail] \in live
    <3>1. /\ Len(list) > 0 /\ list[1] = tail /\ list[Len(list)] = head
          /\ Listed \subseteq live
      BY <1>1, <2>3, Whole
    <3>2. next[tail] # Null => Len(list) > 1 /\ next[tail] = list[2]
      BY <1>1, <2>3, SecondIsNext
    <3> QED
      BY <2>2, <3>1, <3>2
  <2>4. ASSUME NEW p \in Producers, ppc[p] = "link"
        PROVE  {node[p], prevHead[p]} \subseteq live
    <3>1. phase # "closed"
      BY <2>1, <2>4 DEF Held
    <3>2. Listed \subseteq live
      BY <1>1, <3>1, Whole
    <3>3. PICK k \in 1 .. Len(list) - 1 : prevHead[p] = list[k] /\ node[p] = list[k + 1]
      BY <2>1, <2>4 DEF ToBeLinked
    <3> QED
      BY <2>2, <3>2, <3>3
  <2>5. ASSUME cpc = "advance"
        PROVE  {old, next[old]} \subseteq live
    <3>1. phase # "closed" /\ old = tail /\ next[tail] # Null
      BY <2>1, <2>5 DEF Held
    <3> QED
      BY <2>3, <3>1
  <2> QED
    BY <2>1, <2>3, <2>4, <2>5 DEF NoUseAfterFree, Unpublished
<1> QED
  BY <1>1, Inductive, PTL
-----------------------------------------------------------------------------
(* The refinement of Fifo. *)
LEMMA QueuedIs ==
    ASSUME IInv, phase # "closed"
    PROVE  /\ Queued = [k \in 1 .. Len(list) - 1 |-> data[list[k + 1]]]
           /\ Queued \in Seq(Items)
           /\ Len(Queued) = Len(list) - 1
           /\ \A k \in 1 .. Len(list) - 1 : Queued[k] = data[list[k + 1]]
<1>1. Len(list) - 1 \in Nat
  BY Whole
<1>2. \A k \in 1 .. Len(list) - 1 : data[list[k + 1]] \in Items
  BY <1>1 DEF IInv, ListOfNodes
<1> QED
  BY <1>1, <1>2 DEF Queued

(* The queue does not change as long as the nodes in the list and their data do not. *)
LEMMA SameQueue ==
    ASSUME IInv, list' = list, phase # "closed", phase' # "closed",
           \A k \in 1 .. Len(list) : data'[list[k]] = data[list[k]]
    PROVE  Queued' = Queued
<1>1. Len(list) \in Nat
  BY Whole
<1>2. \A k \in 1 .. Len(list) - 1 : data'[list[k + 1]] = data[list[k + 1]]
  BY <1>1
<1> QED
  BY <1>2 DEF Queued

(* The exchange puts the item of the new node at the end of the queue. *)
LEMMA ExchangePuts ==
    ASSUME IInv, NEW p \in Producers, EnqueueExchange(p)
    PROVE  data[node[p]] \in Items /\ Queued' = Append(Queued, data[node[p]])
<1>1. /\ ppc[p] = "exchange" /\ list' = Append(list, node[p])
      /\ UNCHANGED <<data, phase>>
  BY DEF EnqueueExchange
<1>2. phase # "closed" /\ data[node[p]] \in Items /\ node[p] \in Nodes /\ list \in Seq(Nodes)
  BY <1>1 DEF IInv, Kinds, Held, Unpublished
<1>3. /\ Queued = [k \in 1 .. Len(list) - 1 |-> data[list[k + 1]]]
      /\ Queued \in Seq(Items) /\ Len(Queued) = Len(list) - 1
      /\ \A k \in 1 .. Len(list) - 1 : Queued[k] = data[list[k + 1]]
  BY <1>2, QueuedIs
<1>4. /\ Len(list') = Len(list) + 1 /\ Len(list) \in Nat /\ Len(list) > 0
      /\ \A k \in 1 .. Len(list) : list'[k] = list[k]
      /\ list'[Len(list) + 1] = node[p]
  BY <1>1, <1>2, Appended, Whole
<1>5. Queued' = [k \in 1 .. Len(list) |-> data[list'[k + 1]]]
  BY <1>1, <1>2, <1>4 DEF Queued
<1>6. \A k \in 1 .. Len(list) :
         data[list'[k + 1]] = IF k = Len(list) THEN data[node[p]] ELSE Queued[k]
  BY <1>3, <1>4
<1>7. /\ Queued' \in Seq(Items) /\ Len(Queued') = Len(list)
      /\ \A k \in 1 .. Len(list) : Queued'[k] = IF k = Len(list) THEN data[node[p]] ELSE Queued[k]
  <2>1. \A k \in 1 .. Len(list) : data[list'[k + 1]] \in Items
    BY <1>2, <1>3, <1>4, <1>6, ElementOfSeq
  <2> QED
    BY <1>4, <1>5, <1>6, <2>1
<1>8. /\ Append(Queued, data[node[p]]) \in Seq(Items)
      /\ Len(Append(Queued, data[node[p]])) = Len(list)
      /\ \A k \in 1 .. Len(list) - 1 : Append(Queued, data[node[p]])[k] = Queued[k]
      /\ Append(Queued, data[node[p]])[Len(list)] = data[node[p]]
  <2> DEFINE x == data[node[p]]
             r == Queued
  <2>1. r \in Seq(Items) /\ x \in Items /\ Len(r) = Len(list) - 1 /\ Len(r) + 1 = Len(list)
    BY <1>2, <1>3, <1>4
  <2> HIDE DEF x, r
  <2>2. /\ Append(r, x) \in Seq(Items) /\ Len(Append(r, x)) = Len(r) + 1
        /\ \A k \in 1 .. Len(r) : Append(r, x)[k] = r[k]
        /\ Append(r, x)[Len(r) + 1] = x
    BY <2>1, AppendProperties
  <2> QED
    BY <2>1, <2>2 DEF x, r
<1>9. \A k \in 1 .. Len(list) : Queued'[k] = Append(Queued, data[node[p]])[k]
  BY <1>4, <1>7, <1>8
<1> QED
  BY <1>2, <1>7, <1>8, <1>9, SeqEqual

(* The consumer takes the first element of the queue. *)
LEMMA AdvanceTakes ==
    ASSUME IInv, DequeueAdvance
    PROVE  /\ Queued # <<>> /\ Head(Queued) = FrontData /\ Queued' = Tail(Queued)
<1>1. /\ cpc = "advance" /\ list' = Tail(list) /\ UNCHANGED <<data, phase>>
  BY DEF DequeueAdvance
<1>2. phase # "closed" /\ old = tail /\ next[tail] # Null /\ list \in Seq(Nodes)
  BY <1>1 DEF IInv, Held, Kinds
<1>3. Len(list) > 1 /\ next[old] = list[2] /\ Len(list) \in Nat
  BY <1>2, SecondIsNext, Whole
<1>4. /\ Queued \in Seq(Items) /\ Len(Queued) = Len(list) - 1
      /\ \A k \in 1 .. Len(list) - 1 : Queued[k] = data[list[k + 1]]
  BY <1>2, QueuedIs
<1>5. Queued # <<>>
  BY <1>3, <1>4
<1>6. Head(Queued) = FrontData
  <2>1. 1 \in 1 .. Len(list) - 1 /\ 1 + 1 = 2
    BY <1>3
  <2>2. Head(Queued) = Queued[1]
    BY <1>4, <1>5, HeadTailProperties
  <2> QED
    BY <1>3, <1>4, <2>1, <2>2 DEF FrontData
<1>7. Queued' = Tail(Queued)
  <2>1. /\ Len(list') = Len(list) - 1
        /\ \A k \in 1 .. Len(list) - 1 : list'[k] = list[k + 1]
    BY <1>1, <1>2, <1>3, HeadTailProperties
  <2>2. Queued' = [k \in 1 .. Len(list) - 2 |-> data[list'[k + 1]]]
    BY <1>1, <1>2, <1>3, <2>1 DEF Queued
  <2>3. /\ Tail(Queued) \in Seq(Items) /\ Len(Tail(Queued)) = Len(list) - 2
        /\ \A k \in 1 .. Len(list) - 2 : Tail(Queued)[k] = Queued[k + 1]
    BY <1>3, <1>4, <1>5, HeadTailProperties
  <2>4. \A k \in 1 .. Len(list) - 2 : data[list'[k + 1]] = Tail(Queued)[k]
    BY <1>3, <1>4, <2>1, <2>3
  <2>5. \A k \in 1 .. Len(list) - 2 : data[list'[k + 1]] \in Items
    BY <1>3, <2>3, <2>4, ElementOfSeq
  <2>6. Len(list) - 2 \in Nat
    BY <1>3
  <2>7. /\ Queued' \in Seq(Items) /\ Len(Queued') = Len(list) - 2
        /\ \A k \in 1 .. Len(list) - 2 : Queued'[k] = data[list'[k + 1]]
    BY <2>2, <2>5, <2>6
  <2> QED
    BY <2>3, <2>4, <2>7, SeqEqual
<1> QED
  BY <1>5, <1>6, <1>7

(* Producers, consumer and destructor together implement a FIFO queue in the  *)
(* order of the exchanges (MPSCQueue.h:51-69).                                *)
THEOREM Refinement == Spec => ImplementsFifo
<1>1. ASSUME Init
      PROVE  Abstract!Init
  <2>1. Len(list) = 1 /\ phase = "open" /\ taken = <<>> /\ dropped = {}
    BY <1>1 DEF Init
  <2> QED
    BY <2>1 DEF Abstract!Init, Queued
<1>2. ASSUME IInv, [Next]_vars
      PROVE  [Abstract!Next]_<<Queued, taken, dropped>>
  <2>1. ASSUME NEW p \in Producers, NEW n \in Nodes \ live, NEW i \in Items, EnqueueNew(p, n, i)
        PROVE  UNCHANGED <<Queued, taken, dropped>>
    <3>1. /\ phase = "open" /\ data' = [data EXCEPT ![n] = i]
          /\ UNCHANGED <<list, phase, taken, dropped>>
      BY <2>1 DEF EnqueueNew
    <3>2. /\ n \notin Listed /\ data \in [Nodes -> Items \union {Null}]
          /\ \A k \in 1 .. Len(list) : list[k] \in Listed /\ list[k] \in Nodes
      BY <1>2, <3>1, Whole, ListedIs DEF IInv, Kinds
    <3>3. \A k \in 1 .. Len(list) : data'[list[k]] = data[list[k]]
      BY <3>1, <3>2
    <3> QED
      BY <1>2, <3>1, <3>3, SameQueue
  <2>2. ASSUME NEW p \in Producers, EnqueueExchange(p)
        PROVE  Abstract!Next
    BY <1>2, <2>2, ExchangePuts DEF EnqueueExchange, Abstract!Put, Abstract!Next
  <2>3. ASSUME NEW p \in Producers, EnqueueLink(p)
        PROVE  UNCHANGED <<Queued, taken, dropped>>
    BY <2>3 DEF EnqueueLink, Queued
  <2>4. CASE DequeueEmpty
    <3>1. next[tail] = Null /\ phase # "closed" /\ UNCHANGED <<data, list, taken, dropped>>
      BY <2>4 DEF DequeueEmpty
    <3>2. CASE phase = "closing"
      <4>1. phase' = "closed" /\ Len(list) = 1
        BY <1>2, <2>4, <3>1, <3>2, EmptyWhenQuiet DEF DequeueEmpty
      <4>2. Queued = <<>> /\ Queued' = <<>>
        BY <3>2, <4>1 DEF Queued
      <4> QED
        BY <3>1, <4>2
    <3>3. CASE phase # "closing"
      BY <2>4, <3>1, <3>3 DEF DequeueEmpty, Queued
    <3> QED
      BY <3>2, <3>3
  <2>5. CASE DequeueLoad
    BY <2>5 DEF DequeueLoad, Queued
  <2>6. CASE DequeueAdvance
    <3>1. Queued # <<>> /\ Head(Queued) = FrontData /\ Queued' = Tail(Queued)
      BY <1>2, <2>6, AdvanceTakes
    <3>2. HandOut(FrontData)
      BY <2>6 DEF DequeueAdvance
    <3> QED
      BY <3>1, <3>2 DEF HandOut, Abstract!Take, Abstract!Drop, Abstract!Next
  <2>7. CASE DequeueDelete
    BY <2>7 DEF DequeueDelete, Queued
  <2>8. CASE Destroy
    BY <2>8 DEF Destroy, Queued
  <2>9. CASE UNCHANGED vars
    BY <2>9 DEF vars, Queued
  <2> QED
    BY <1>2, <2>1, <2>2, <2>3, <2>4, <2>5, <2>6, <2>7, <2>8, <2>9 DEF Next, Dequeue
<1> QED
  BY <1>1, <1>2, Inductive, PTL DEF Spec, ImplementsFifo, Abstract!Spec, Abstract!fifoVars
=============================================================================
