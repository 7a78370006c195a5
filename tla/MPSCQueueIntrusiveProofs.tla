----------------------- MODULE MPSCQueueIntrusiveProofs -----------------------
(***************************************************************************)
(* Proofs about the lock-free queue of linked objects, for any number of   *)
(* producers, objects and calls of Enqueue.                                *)
(***************************************************************************)
EXTENDS MPSCQueueIntrusive, SequenceTheorems, TLAPS

Kinds ==
    /\ head \in Cells /\ tail \in Cells
    /\ link \in [Cells -> Cells \union {Null}]
    /\ ppc \in [Producers -> {"idle", "exchange", "link"}]
    /\ input \in [Producers -> Objects \union {Null}]
    /\ prevHead \in [Producers -> Cells \union {Null}]
    /\ cpc \in {"idle", "second", "head", "dummyInit", "dummyExchange", "dummyLink", "last"}
    /\ phase \in {"open", "closing", "closed"}
    /\ list \in Seq(Cells)

(* An object that is not published yet belongs to one producer. *)
Unpublished ==
    /\ \A p \in Producers : ppc[p] = "exchange" =>
          input[p] \in Objects \ Listed /\ link[input[p]] = Null
    /\ \A p, q \in Producers :
          ppc[p] = "exchange" /\ ppc[q] = "exchange" /\ input[p] = input[q] => p = q

(* A link that is still to be stored is one of two neighbours in the list,    *)
(* and one thread will store it: the consumer cannot get past it.             *)
ToBeLinked ==
    /\ \A p \in Producers : ppc[p] = "link" =>
          /\ \E k \in 1 .. Len(list) - 1 : prevHead[p] = list[k] /\ input[p] = list[k + 1]
          /\ link[prevHead[p]] = Null
    /\ cpc = "dummyLink" =>
          /\ \E k \in 1 .. Len(list) - 1 : dummyPrev = list[k] /\ Dummy = list[k + 1]
          /\ link[dummyPrev] = Null
          /\ \A p \in Producers : ppc[p] = "link" => prevHead[p] # dummyPrev
    /\ \A p, q \in Producers :
          ppc[p] = "link" /\ ppc[q] = "link" /\ prevHead[p] = prevHead[q] => p = q

(* Once Dequeue has skipped the dummy it works on the first object; the dummy *)
(* is outside the list until Dequeue puts it there, and then stays behind     *)
(* that object.                                                               *)
Held ==
    /\ cpc = "idle" => front = Null
    /\ cpc # "idle" => front = tail /\ front \in Objects
    /\ cpc \in {"dummyInit", "dummyExchange"} => Dummy \notin Listed
    /\ cpc = "dummyExchange" => link[Dummy] = Null
    /\ cpc \in {"dummyLink", "last"} => Dummy \in Listed

(* In the destructor the consumer is alone. *)
Alone ==
    /\ phase # "open" => \A p \in Producers : ppc[p] = "idle"
    /\ phase = "closing" /\ cpc = "head" => link[front] = Null
    /\ phase = "closed" => cpc = "idle"

IInv ==
    /\ Kinds
    /\ Unpublished
    /\ ToBeLinked
    /\ Held
    /\ Alone
    /\ ListIntact
    /\ DestructorLeavesNothing
-----------------------------------------------------------------------------
LEMMA ListedIs ==
    ASSUME list \in Seq(Cells)
    PROVE  /\ Len(list) \in Nat /\ (list # <<>> => Len(list) > 0)
           /\ DOMAIN list = 1 .. Len(list)
           /\ \A n : n \in Listed <=> \E k \in 1 .. Len(list) : n = list[k]
           /\ Listed \subseteq Cells
BY DEF Listed

(* A cell that becomes the last one of the list. *)
LEMMA Appended ==
    ASSUME list \in Seq(Cells), NEW n \in Cells, list' = Append(list, n)
    PROVE  /\ list' \in Seq(Cells) /\ list' # <<>>
           /\ Len(list') = Len(list) + 1
           /\ \A k \in 1 .. Len(list) : list'[k] = list[k]
           /\ list'[Len(list) + 1] = n
           /\ Listed' = Listed \union {n}
<1>1. /\ list' \in Seq(Cells) /\ list' # <<>> /\ Len(list) \in Nat
      /\ Len(list') = Len(list) + 1
      /\ \A k \in 1 .. Len(list) : list'[k] = list[k]
      /\ list'[Len(list) + 1] = n
  BY AppendProperties
<1>2. DOMAIN list' = 1 .. Len(list) + 1 /\ DOMAIN list = 1 .. Len(list)
  BY <1>1
<1>3. Listed' \subseteq Listed \union {n}
  BY <1>1, <1>2 DEF Listed
<1>4. Listed \union {n} \subseteq Listed'
  BY <1>1, <1>2 DEF Listed
<1> QED
  BY <1>1, <1>3, <1>4

(* The first cell leaves the list. *)
LEMMA Removed ==
    ASSUME list \in Seq(Cells), Len(list) > 1, list' = Tail(list),
           \A j, k \in 1 .. Len(list) : list[j] = list[k] => j = k
    PROVE  /\ list' \in Seq(Cells) /\ list' # <<>>
           /\ Len(list') = Len(list) - 1
           /\ \A k \in 1 .. Len(list) - 1 : list'[k] = list[k + 1]
           /\ Listed' = Listed \ {list[1]}
<1>1. /\ list' \in Seq(Cells) /\ Len(list) \in Nat
      /\ Len(list') = Len(list) - 1
      /\ \A k \in 1 .. Len(list) - 1 : list'[k] = list[k + 1]
  BY HeadTailProperties
<1>2. DOMAIN list' = 1 .. Len(list) - 1 /\ DOMAIN list = 1 .. Len(list)
  BY <1>1
<1>3. Listed' \subseteq Listed \ {list[1]}
  BY <1>1, <1>2 DEF Listed
<1>4. ASSUME NEW k \in 1 .. Len(list), k # 1
      PROVE  list[k] \in Listed'
  <2>1. k - 1 \in 1 .. Len(list) - 1 /\ list'[k - 1] = list[k]
    BY <1>1, <1>4
  <2> QED
    BY <1>2, <2>1 DEF Listed
<1>5. Listed \ {list[1]} \subseteq Listed'
  BY <1>2, <1>4 DEF Listed
<1>6. Len(list') # 0
  BY <1>1
<1>7. list' # <<>>
  BY <1>6
<1> QED
  BY <1>1, <1>3, <1>5, <1>7

LEMMA InitHolds == Init => IInv
<1> SUFFICES ASSUME Init
             PROVE  IInv
  OBVIOUS
<1>1. /\ list = <<Dummy>> /\ list \in Seq(Cells) /\ Len(list) = 1 /\ list[1] = Dummy
      /\ DOMAIN list = {1} /\ Dummy \in Cells
  BY DEF Init, Cells
<1>2. Listed = {Dummy}
  BY <1>1 DEF Listed
<1>3. Kinds
  BY <1>1, IntrusiveAssumption DEF Init, Kinds
<1>4. Unpublished /\ ToBeLinked /\ Held /\ Alone
  BY DEF Init, Unpublished, ToBeLinked, Held, Alone
<1>5. ListIntact
  BY <1>1 DEF Init, ListIntact
<1>6. DestructorLeavesNothing
  BY <1>2 DEF DestructorLeavesNothing
<1> QED
  BY <1>3, <1>4, <1>5, <1>6 DEF IInv

(* What the invariant says of the list, with numbers. *)
LEMMA Whole ==
    ASSUME IInv
    PROVE  /\ list \in Seq(Cells) /\ list # <<>>
           /\ Len(list) \in Nat /\ Len(list) > 0
           /\ list[1] = tail /\ list[Len(list)] = head /\ link[head] = Null
           /\ \A k \in 1 .. Len(list) : list[k] \in Listed /\ list[k] \in Cells
           /\ tail \in Listed /\ head \in Listed
           /\ \A j, k \in 1 .. Len(list) : list[j] = list[k] => j = k
           /\ \A k \in 1 .. Len(list) - 1 :
                 \/ link[list[k]] = list[k + 1]
                 \/ link[list[k]] = Null /\ Linking(list[k], list[k + 1])
<1>1. /\ list \in Seq(Cells) /\ list # <<>>
      /\ list[1] = tail /\ list[Len(list)] = head /\ link[head] = Null
      /\ \A j, k \in DOMAIN list : list[j] = list[k] => j = k
      /\ \A k \in 1 .. Len(list) - 1 :
            \/ link[list[k]] = list[k + 1]
            \/ link[list[k]] = Null /\ Linking(list[k], list[k + 1])
  BY DEF IInv, Kinds, ListIntact
<1>2. /\ Len(list) \in Nat /\ Len(list) > 0
      /\ DOMAIN list = 1 .. Len(list)
      /\ \A k \in 1 .. Len(list) : list[k] \in Listed /\ list[k] \in Cells
  BY <1>1, ListedIs
<1>3. 1 \in 1 .. Len(list) /\ Len(list) \in 1 .. Len(list)
  BY <1>2
<1> QED
  BY <1>1, <1>2, <1>3
-----------------------------------------------------------------------------
(* Linking, after the step. *)
LinkingThen(m, n) ==
    \/ \E p \in Producers : ppc'[p] = "link" /\ prevHead'[p] = m /\ input'[p] = n
    \/ cpc' = "dummyLink" /\ dummyPrev' = m /\ n = Dummy

(* ListIntact after a step, from LinkingThen. *)
LEMMA IntactThen ==
    ASSUME list' \in Seq(Cells), list' # <<>>, list'[1] = tail', list'[Len(list')] = head',
           link'[head'] = Null,
           \A j, k \in 1 .. Len(list') : list'[j] = list'[k] => j = k,
           \A k \in 1 .. Len(list') - 1 :
              \/ link'[list'[k]] = list'[k + 1]
              \/ link'[list'[k]] = Null /\ LinkingThen(list'[k], list'[k + 1])
    PROVE  ListIntact'
<1>1. DOMAIN list' = 1 .. Len(list')
  OBVIOUS
<1> QED
  BY <1>1 DEF ListIntact, Linking, LinkingThen

(* Three changes of the list, whoever makes them. *)
LEMMA ExchangeKeepsList ==
    ASSUME IInv, NEW n \in Cells, n \notin Listed, link[n] = Null,
           head' = n, list' = Append(list, n), UNCHANGED <<tail, link>>,
           \A a, b : Linking(a, b) => LinkingThen(a, b), LinkingThen(head, n)
    PROVE  ListIntact'
<1>1. /\ list \in Seq(Cells) /\ Len(list) \in Nat /\ Len(list) > 0
      /\ list[1] = tail /\ list[Len(list)] = head /\ link[head] = Null
      /\ \A k \in 1 .. Len(list) : list[k] # n
      /\ \A j, k \in 1 .. Len(list) : list[j] = list[k] => j = k
  BY Whole
<1>2. \A k \in 1 .. Len(list) - 1 :
            \/ link[list[k]] = list[k + 1]
            \/ link[list[k]] = Null /\ Linking(list[k], list[k + 1])
  BY Whole
<1>3. /\ list' \in Seq(Cells) /\ list' # <<>>
      /\ Len(list') = Len(list) + 1
      /\ \A k \in 1 .. Len(list) : list'[k] = list[k]
      /\ list'[Len(list) + 1] = n
  BY <1>1, Appended
<1>4. ASSUME NEW j \in 1 .. Len(list'), NEW k \in 1 .. Len(list'), list'[j] = list'[k]
      PROVE  j = k
  <2>1. (j \in 1 .. Len(list) \/ j = Len(list) + 1) /\ (k \in 1 .. Len(list) \/ k = Len(list) + 1)
    BY <1>1, <1>3
  <2> QED
    BY <1>1, <1>3, <1>4, <2>1
<1>5. ASSUME NEW k \in 1 .. Len(list') - 1
      PROVE  \/ link'[list'[k]] = list'[k + 1]
             \/ link'[list'[k]] = Null /\ LinkingThen(list'[k], list'[k + 1])
  <2>1. CASE k = Len(list)
    <3>1. list'[k] = head /\ list'[k + 1] = n
      BY <1>1, <1>3, <2>1
    <3> QED
      BY <1>1, <1>3, <2>1, <3>1
  <2>2. CASE k # Len(list)
    <3>1. k \in 1 .. Len(list) - 1 /\ list'[k] = list[k] /\ list'[k + 1] = list[k + 1]
      BY <1>1, <1>3, <2>2
    <3> QED
      BY <1>2, <3>1
  <2> QED
    BY <2>1, <2>2
<1>6. list'[1] = tail' /\ list'[Len(list')] = head' /\ link'[head'] = Null
  BY <1>1, <1>3
<1> QED
  BY <1>3, <1>4, <1>5, <1>6, IntactThen

LEMMA LinkKeepsList ==
    ASSUME IInv, NEW j \in 1 .. Len(list) - 1,
           link' = [link EXCEPT ![list[j]] = list[j + 1]], UNCHANGED <<head, tail, list>>,
           \A a, b : Linking(a, b) /\ a # list[j] => LinkingThen(a, b)
    PROVE  ListIntact'
<1>1. /\ list \in Seq(Cells) /\ list # <<>> /\ Len(list) \in Nat
      /\ list[1] = tail /\ list[Len(list)] = head /\ link[head] = Null
      /\ \A k \in 1 .. Len(list) : list[k] \in Cells
      /\ \A k, l \in 1 .. Len(list) : list[k] = list[l] => k = l
  BY Whole
<1>2. /\ Len(list) \in 1 .. Len(list) /\ Len(list) # j
      /\ \A k \in 1 .. Len(list) - 1 : k \in 1 .. Len(list)
  BY <1>1
<1>3. \A k \in 1 .. Len(list) :
         k # j => list[k] # list[j] /\ link'[list[k]] = link[list[k]]
  BY <1>1, <1>2 DEF IInv, Kinds
<1>4. link'[list[j]] = list[j + 1]
  BY <1>1, <1>2 DEF IInv, Kinds
<1>5. ASSUME NEW k \in 1 .. Len(list) - 1
      PROVE  \/ link'[list[k]] = list[k + 1]
             \/ link'[list[k]] = Null /\ LinkingThen(list[k], list[k + 1])
  <2>1. \/ link[list[k]] = list[k + 1]
        \/ link[list[k]] = Null /\ Linking(list[k], list[k + 1])
    BY Whole
  <2>2. k # j => list[k] # list[j] /\ link'[list[k]] = link[list[k]]
    BY <1>2, <1>3
  <2> QED
    BY <1>4, <2>1, <2>2
<1> QED
  BY <1>1, <1>2, <1>3, <1>5, IntactThen

(* The tail can only be passed once its link is stored. *)
LEMMA SecondIsNext ==
    ASSUME IInv, link[tail] # Null
    PROVE  Len(list) > 1 /\ link[tail] = list[2] /\ list[2] \in Cells /\ list[2] # tail
<1>1. /\ Len(list) \in Nat /\ Len(list) > 0
      /\ list[1] = tail /\ list[Len(list)] = head /\ link[head] = Null
  BY Whole
<1>2. Len(list) > 1
  BY <1>1
<1>3. /\ 1 \in 1 .. Len(list) - 1 /\ 1 + 1 = 2 /\ 1 \in 1 .. Len(list) /\ 2 \in 1 .. Len(list)
  BY <1>1, <1>2
<1>4. list[2] \in Cells /\ list[2] # list[1]
  BY <1>3, Whole
<1>5. link[list[1]] = list[1 + 1]
  BY <1>1, <1>3, Whole
<1> QED
  BY <1>1, <1>2, <1>3, <1>4, <1>5

(* The tail leaves the list. *)
LEMMA RemoveKeeps ==
    ASSUME IInv, link[tail] # Null, tail' = link[tail], list' = Tail(list),
           UNCHANGED <<head, link, producerVars, dummyPrev>>,
           cpc # "dummyLink", cpc' # "dummyLink"
    PROVE  /\ list' \in Seq(Cells) /\ tail' \in Cells /\ tail' # tail
           /\ Listed' = Listed \ {tail}
           /\ Unpublished' /\ ToBeLinked' /\ ListIntact'
<1>1. UNCHANGED <<ppc, input, prevHead>>
  BY DEF producerVars
<1>2. /\ list \in Seq(Cells) /\ Len(list) \in Nat
      /\ list[1] = tail /\ list[Len(list)] = head /\ link[head] = Null
      /\ \A k, l \in 1 .. Len(list) : list[k] = list[l] => k = l
      /\ \A k \in 1 .. Len(list) - 1 :
            \/ link[list[k]] = list[k + 1]
            \/ link[list[k]] = Null /\ Linking(list[k], list[k + 1])
  BY Whole
<1>3. Len(list) > 1 /\ tail' = list[2] /\ tail' \in Cells /\ tail' # tail
  BY SecondIsNext
<1>4. /\ list' \in Seq(Cells) /\ list' # <<>>
      /\ Len(list') = Len(list) - 1
      /\ \A k \in 1 .. Len(list) - 1 : list'[k] = list[k + 1]
      /\ Listed' = Listed \ {tail}
  BY <1>2, <1>3, Removed
<1>5. Unpublished'
  BY <1>1, <1>4 DEF IInv, Unpublished
<1>6. ToBeLinked'
  <2>1. ASSUME NEW p \in Producers, ppc[p] = "link"
        PROVE  \E k \in 1 .. Len(list') - 1 : prevHead[p] = list'[k] /\ input[p] = list'[k + 1]
    <3>1. PICK k \in 1 .. Len(list) - 1 : prevHead[p] = list[k] /\ input[p] = list[k + 1]
      BY <2>1 DEF IInv, ToBeLinked
    <3>2. link[prevHead[p]] = Null
      BY <2>1 DEF IInv, ToBeLinked
    <3>3. k # 1
      BY <1>2, <3>1, <3>2
    <3>4. /\ k - 1 \in 1 .. Len(list') - 1
          /\ list'[k - 1] = list[k] /\ list'[k - 1 + 1] = list[k + 1]
      BY <1>2, <1>4, <3>3
    <3> QED
      BY <3>1, <3>4
  <2> QED
    BY <1>1, <2>1 DEF IInv, ToBeLinked
<1>7. ListIntact'
  <2>1. ASSUME NEW j \in 1 .. Len(list'), NEW k \in 1 .. Len(list'), list'[j] = list'[k]
        PROVE  j = k
    <3>1. j + 1 \in 1 .. Len(list) /\ k + 1 \in 1 .. Len(list) /\ list[j + 1] = list[k + 1]
      BY <1>2, <1>4, <2>1
    <3>2. j + 1 = k + 1
      BY <1>2, <3>1
    <3> QED
      BY <3>2
  <2>2. ASSUME NEW k \in 1 .. Len(list') - 1
        PROVE  \/ link'[list'[k]] = list'[k + 1]
               \/ link'[list'[k]] = Null /\ LinkingThen(list'[k], list'[k + 1])
    <3>1. /\ k + 1 \in 1 .. Len(list) - 1
          /\ list'[k] = list[k + 1] /\ list'[k + 1] = list[k + 1 + 1]
      BY <1>2, <1>4
    <3>2. \/ link[list'[k]] = list'[k + 1]
          \/ link[list'[k]] = Null /\ Linking(list'[k], list'[k + 1])
      BY <1>2, <3>1
    <3>3. Linking(list'[k], list'[k + 1]) => LinkingThen(list'[k], list'[k + 1])
      BY <1>1 DEF Linking, LinkingThen
    <3> QED
      BY <3>2, <3>3
  <2>3. list'[1] = tail' /\ list'[Len(list')] = head'
    BY <1>2, <1>3, <1>4
  <2> QED
    BY <1>2, <1>4, <2>1, <2>2, <2>3, IntactThen
<1> QED
  BY <1>3, <1>4, <1>5, <1>6, <1>7

(* A step of the consumer that leaves the list and the links alone. *)
LEMMA LookKeeps ==
    ASSUME IInv, UNCHANGED <<head, tail, link, list, producerVars, dummyPrev>>,
           cpc # "dummyLink", cpc' # "dummyLink"
    PROVE  Listed' = Listed /\ Unpublished' /\ ToBeLinked' /\ ListIntact'
<1>1. UNCHANGED <<ppc, input, prevHead>> /\ Listed' = Listed
  BY DEF producerVars, Listed
<1>2. Unpublished' /\ ToBeLinked'
  BY <1>1 DEF IInv, Unpublished, ToBeLinked
<1>3. ListIntact'
  BY <1>1 DEF IInv, ListIntact, Linking
<1> QED
  BY <1>1, <1>2, <1>3

(* In the destructor nothing follows a tail without link. *)
LEMMA EmptyWhenQuiet ==
    ASSUME IInv, phase = "closing", link[tail] = Null, cpc # "dummyLink"
    PROVE  Len(list) = 1 /\ Listed = {tail} /\ head = tail
<1>1. /\ Len(list) \in Nat /\ Len(list) > 0
      /\ list[1] = tail /\ list[Len(list)] = head
      /\ \A k \in 1 .. Len(list) : list[k] \in Cells
  BY Whole
<1>2. \A a, b : ~Linking(a, b)
  BY DEF IInv, Alone, Linking
<1>3. Len(list) = 1
  <2> SUFFICES ASSUME Len(list) # 1
               PROVE  FALSE
    OBVIOUS
  <2>1. \A l \in Nat : l > 0 /\ l # 1 => 1 \in 1 .. l - 1 /\ 1 + 1 \in 1 .. l
    OBVIOUS
  <2>2. 1 \in 1 .. Len(list) - 1 /\ 1 + 1 \in 1 .. Len(list)
    BY <1>1, <2>1
  <2>3. link[list[1]] # list[1 + 1]
    BY <1>1, <2>2, IntrusiveAssumption DEF Cells
  <2> QED
    BY <1>2, <2>2, <2>3, Whole
<1>4. \A n : n \in Listed <=> \E k \in 1 .. Len(list) : n = list[k]
  BY Whole, ListedIs
<1> QED
  BY <1>1, <1>3, <1>4
-----------------------------------------------------------------------------
(* The steps of a producer. *)
LEMMA EnqueueInitKeeps ==
    ASSUME IInv, NEW p \in Producers, NEW n \in ClientOwned, EnqueueInit(p, n)
    PROVE  IInv'
<1>1. /\ phase = "open" /\ ppc[p] = "idle"
      /\ link' = [link EXCEPT ![n] = Null]
      /\ input' = [input EXCEPT ![p] = n]
      /\ ppc' = [ppc EXCEPT ![p] = "exchange"]
      /\ UNCHANGED <<head, tail, prevHead, cpc, front, dummyPrev, phase, list>>
  BY DEF EnqueueInit
<1>2. Kinds /\ Unpublished /\ ToBeLinked /\ Held /\ Alone
  BY DEF IInv
<1>3. /\ n \in Objects /\ n \in Cells /\ n # Dummy /\ n \notin Listed
      /\ \A q \in Producers : input[q] # n
  BY IntrusiveAssumption DEF ClientOwned, Cells
<1>4. Listed' = Listed
  BY <1>1 DEF Listed
<1>5. \A q \in Producers : /\ ppc'[q] = IF q = p THEN "exchange" ELSE ppc[q]
                           /\ input'[q] = IF q = p THEN n ELSE input[q]
  BY <1>1, <1>2 DEF Kinds
<1>6. \A c \in Cells : link'[c] = IF c = n THEN Null ELSE link[c]
  BY <1>1, <1>2 DEF Kinds
<1>7. /\ list \in Seq(Cells) /\ list # <<>> /\ Len(list) \in Nat
      /\ list[1] = tail /\ list[Len(list)] = head /\ link[head] = Null
      /\ \A k \in 1 .. Len(list) : list[k] \in Cells /\ list[k] # n
      /\ \A k, l \in 1 .. Len(list) : list[k] = list[l] => k = l
      /\ head \in Cells /\ head # n
  BY <1>2, <1>3, Whole DEF Kinds
<1>8. \A k \in 1 .. Len(list) - 1 : k \in 1 .. Len(list) /\ link'[list[k]] = link[list[k]]
  BY <1>6, <1>7
<1>10. Kinds'
  BY <1>1, <1>2, <1>3 DEF Kinds
<1>11. Unpublished'
  BY <1>1, <1>2, <1>3, <1>4, <1>5, <1>6 DEF Unpublished, Cells
<1>12. ToBeLinked'
  <2>1. ASSUME NEW q \in Producers, ppc'[q] = "link"
        PROVE  /\ q # p /\ ppc[q] = "link" /\ input'[q] = input[q]
               /\ link'[prevHead[q]] = link[prevHead[q]]
    BY <1>2, <1>5, <1>8, <2>1 DEF ToBeLinked
  <2>2. cpc = "dummyLink" => link'[dummyPrev] = link[dummyPrev]
    BY <1>2, <1>8 DEF ToBeLinked
  <2> QED
    BY <1>1, <1>2, <2>1, <2>2 DEF ToBeLinked
<1>13. Held'
  BY <1>1, <1>2, <1>3, <1>4, <1>6 DEF Held, Cells
<1>14. Alone'
  BY <1>1, <1>2 DEF Alone
<1>15. ListIntact'
  <2>1. ASSUME NEW k \in 1 .. Len(list) - 1
        PROVE  \/ link'[list[k]] = list[k + 1]
               \/ link'[list[k]] = Null /\ LinkingThen(list[k], list[k + 1])
    <3>1. \/ link[list[k]] = list[k + 1]
          \/ link[list[k]] = Null /\ Linking(list[k], list[k + 1])
      BY Whole
    <3>2. link'[list[k]] = link[list[k]]
      BY <1>8
    <3>3. ASSUME NEW q \in Producers, ppc[q] = "link"
          PROVE  ppc'[q] = "link" /\ prevHead'[q] = prevHead[q] /\ input'[q] = input[q]
      BY <1>1, <1>5, <3>3
    <3>4. Linking(list[k], list[k + 1]) => LinkingThen(list[k], list[k + 1])
      BY <1>1, <3>3 DEF Linking, LinkingThen
    <3> QED
      BY <3>1, <3>2, <3>4
  <2>2. link'[head] = Null
    BY <1>6, <1>7
  <2> QED
    BY <1>1, <1>7, <2>1, <2>2, IntactThen
<1>16. DestructorLeavesNothing'
  BY <1>1 DEF DestructorLeavesNothing
<1> QED
  BY <1>10, <1>11, <1>12, <1>13, <1>14, <1>15, <1>16 DEF IInv

(* Whoever publishes n, the links to be stored stay where they were. *)
LEMMA PublishKeepsLinks ==
    ASSUME IInv, NEW n \in Cells, n \notin Listed, list' = Append(list, n)
    PROVE  /\ \A p \in Producers : ppc[p] = "link" =>
                 /\ \E k \in 1 .. Len(list') - 1 : prevHead[p] = list'[k] /\ input[p] = list'[k + 1]
                 /\ prevHead[p] # head
           /\ cpc = "dummyLink" =>
                 /\ \E k \in 1 .. Len(list') - 1 : dummyPrev = list'[k] /\ Dummy = list'[k + 1]
                 /\ dummyPrev # head
           /\ \E k \in 1 .. Len(list') - 1 : head = list'[k] /\ n = list'[k + 1]
<1>1. /\ list \in Seq(Cells) /\ Len(list) \in Nat /\ Len(list) > 0
      /\ list[Len(list)] = head
      /\ \A k, l \in 1 .. Len(list) : list[k] = list[l] => k = l
  BY Whole
<1>2. /\ Len(list') = Len(list) + 1
      /\ \A k \in 1 .. Len(list) : list'[k] = list[k]
      /\ list'[Len(list) + 1] = n
  BY <1>1, Appended
<1>3. ASSUME NEW k \in 1 .. Len(list) - 1
      PROVE  /\ k \in 1 .. Len(list') - 1
             /\ list'[k] = list[k] /\ list'[k + 1] = list[k + 1] /\ list[k] # head
  BY <1>1, <1>2
<1>4. Len(list) \in 1 .. Len(list') - 1 /\ list'[Len(list)] = head /\ list'[Len(list) + 1] = n
  BY <1>1, <1>2
<1>5. ASSUME NEW p \in Producers, ppc[p] = "link"
      PROVE  /\ \E k \in 1 .. Len(list') - 1 : prevHead[p] = list'[k] /\ input[p] = list'[k + 1]
             /\ prevHead[p] # head
  <2>1. PICK k \in 1 .. Len(list) - 1 : prevHead[p] = list[k] /\ input[p] = list[k + 1]
    BY <1>5 DEF IInv, ToBeLinked
  <2> QED
    BY <1>3, <2>1
<1>6. ASSUME cpc = "dummyLink"
      PROVE  /\ \E k \in 1 .. Len(list') - 1 : dummyPrev = list'[k] /\ Dummy = list'[k + 1]
             /\ dummyPrev # head
  <2>1. PICK k \in 1 .. Len(list) - 1 : dummyPrev = list[k] /\ Dummy = list[k + 1]
    BY <1>6 DEF IInv, ToBeLinked
  <2> QED
    BY <1>3, <2>1
<1> QED
  BY <1>4, <1>5, <1>6

LEMMA EnqueueExchangeKeeps ==
    ASSUME IInv, NEW p \in Producers, EnqueueExchange(p)
    PROVE  IInv'
<1> DEFINE n == input[p]
<1>1. /\ ppc[p] = "exchange"
      /\ prevHead' = [prevHead EXCEPT ![p] = head]
      /\ head' = n
      /\ list' = Append(list, n)
      /\ ppc' = [ppc EXCEPT ![p] = "link"]
      /\ UNCHANGED <<tail, link, input, cpc, front, dummyPrev, phase>>
  BY DEF EnqueueExchange
<1>2. Kinds /\ Unpublished /\ ToBeLinked /\ Held /\ Alone
  BY DEF IInv
<1>3. /\ phase = "open"
      /\ n \in Objects /\ n \in Cells /\ n # Dummy /\ n \notin Listed /\ link[n] = Null
      /\ \A q \in Producers : q # p /\ ppc[q] = "exchange" => input[q] # n
  BY <1>1, <1>2, IntrusiveAssumption DEF Alone, Unpublished, Cells
<1> HIDE DEF n
<1>4. list' \in Seq(Cells) /\ Listed' = Listed \union {n}
  BY <1>1, <1>2, <1>3, Appended DEF Kinds
<1>5. \A q \in Producers : /\ ppc'[q] = IF q = p THEN "link" ELSE ppc[q]
                           /\ prevHead'[q] = IF q = p THEN head ELSE prevHead[q]
  BY <1>1, <1>2 DEF Kinds
<1>6. /\ \A q \in Producers : ppc[q] = "link" =>
            /\ \E k \in 1 .. Len(list') - 1 : prevHead[q] = list'[k] /\ input[q] = list'[k + 1]
            /\ prevHead[q] # head
      /\ cpc = "dummyLink" =>
            /\ \E k \in 1 .. Len(list') - 1 : dummyPrev = list'[k] /\ Dummy = list'[k + 1]
            /\ dummyPrev # head
      /\ \E k \in 1 .. Len(list') - 1 : head = list'[k] /\ n = list'[k + 1]
  BY <1>1, <1>3, PublishKeepsLinks
<1>7. link[head] = Null /\ head \in Cells
  BY <1>2, Whole DEF Kinds
<1>10. Kinds'
  BY <1>1, <1>2, <1>3, <1>4, <1>7 DEF Kinds
<1>11. Unpublished'
  BY <1>1, <1>2, <1>3, <1>4, <1>5 DEF Unpublished
<1>12. ToBeLinked'
  <2>1. ASSUME NEW q \in Producers, ppc'[q] = "link"
        PROVE  /\ \E k \in 1 .. Len(list') - 1 : prevHead'[q] = list'[k] /\ input[q] = list'[k + 1]
               /\ link[prevHead'[q]] = Null
               /\ cpc = "dummyLink" => prevHead'[q] # dummyPrev
    <3>1. CASE q = p
      BY <1>5, <1>6, <1>7, <3>1 DEF n
    <3>2. CASE q # p
      <4>1. ppc[q] = "link" /\ prevHead'[q] = prevHead[q]
        BY <1>5, <2>1, <3>2
      <4> QED
        BY <1>2, <1>6, <4>1 DEF ToBeLinked
    <3> QED
      BY <3>1, <3>2
  <2>2. ASSUME NEW q \in Producers, NEW r \in Producers, ppc'[q] = "link", ppc'[r] = "link",
               prevHead'[q] = prevHead'[r]
        PROVE  q = r
    BY <1>2, <1>5, <1>6, <2>2 DEF ToBeLinked
  <2>3. cpc' = "dummyLink" =>
           /\ \E k \in 1 .. Len(list') - 1 : dummyPrev = list'[k] /\ Dummy = list'[k + 1]
           /\ link[dummyPrev] = Null
    BY <1>1, <1>2, <1>6 DEF ToBeLinked
  <2> QED
    BY <1>1, <2>1, <2>2, <2>3 DEF ToBeLinked
<1>13. Held'
  BY <1>1, <1>2, <1>3, <1>4 DEF Held
<1>14. Alone'
  BY <1>1, <1>2, <1>3 DEF Alone
<1>15. ListIntact'
  <2>1. ASSUME NEW a, NEW b, Linking(a, b)
        PROVE  LinkingThen(a, b)
    BY <1>1, <1>5, <2>1 DEF Linking, LinkingThen
  <2>2. LinkingThen(head, n)
    BY <1>1, <1>5 DEF LinkingThen, n
  <2> QED
    BY <1>1, <1>3, <2>1, <2>2, ExchangeKeepsList
<1>16. DestructorLeavesNothing'
  BY <1>1, <1>3 DEF DestructorLeavesNothing
<1> QED
  BY <1>10, <1>11, <1>12, <1>13, <1>14, <1>15, <1>16 DEF IInv

LEMMA EnqueueLinkKeeps ==
    ASSUME IInv, NEW p \in Producers, EnqueueLink(p)
    PROVE  IInv'
<1> DEFINE m == prevHead[p]
           n == input[p]
<1>1. /\ ppc[p] = "link"
      /\ link' = [link EXCEPT ![m] = n]
      /\ ppc' = [ppc EXCEPT ![p] = "idle"]
      /\ input' = [input EXCEPT ![p] = Null]
      /\ prevHead' = [prevHead EXCEPT ![p] = Null]
      /\ UNCHANGED <<head, tail, cpc, front, dummyPrev, phase, list>>
  BY DEF EnqueueLink, Linked
<1>2. Kinds /\ Unpublished /\ ToBeLinked /\ Held /\ Alone
  BY DEF IInv
<1>3. PICK j \in 1 .. Len(list) - 1 : m = list[j] /\ n = list[j + 1]
  BY <1>1, <1>2 DEF ToBeLinked
<1>4. /\ Len(list) \in Nat /\ phase = "open" /\ Listed' = Listed
      /\ \A k \in 1 .. Len(list) : list[k] \in Cells /\ list[k] \in Listed
  BY <1>1, <1>2, Whole DEF Alone, Listed
<1>5. m \in Listed /\ m \in Cells /\ n \in Cells
  BY <1>3, <1>4
<1>6. /\ \A q \in Producers : q # p /\ ppc[q] = "link" => prevHead[q] # m
      /\ cpc = "dummyLink" => dummyPrev # m
  BY <1>1, <1>2 DEF ToBeLinked
<1> HIDE DEF m, n
<1>7. \A q \in Producers : /\ ppc'[q] = IF q = p THEN "idle" ELSE ppc[q]
                           /\ input'[q] = IF q = p THEN Null ELSE input[q]
                           /\ prevHead'[q] = IF q = p THEN Null ELSE prevHead[q]
  BY <1>1, <1>2 DEF Kinds
<1>8. \A c \in Cells : c # m => link'[c] = link[c]
  BY <1>1, <1>2 DEF Kinds
<1>10. Kinds'
  BY <1>1, <1>2, <1>5 DEF Kinds
<1>11. Unpublished'
  BY <1>1, <1>2, <1>4, <1>5, <1>7, <1>8 DEF Unpublished, Cells
<1>12. ToBeLinked'
  <2>1. ASSUME NEW q \in Producers, ppc'[q] = "link"
        PROVE  /\ q # p /\ ppc[q] = "link" /\ prevHead'[q] = prevHead[q] /\ input'[q] = input[q]
               /\ \E k \in 1 .. Len(list) - 1 : prevHead[q] = list[k] /\ input[q] = list[k + 1]
               /\ link'[prevHead[q]] = Null
    <3>1. q # p /\ ppc[q] = "link" /\ prevHead[q] # m
      BY <1>6, <1>7, <2>1
    <3>2. PICK k \in 1 .. Len(list) - 1 : prevHead[q] = list[k] /\ input[q] = list[k + 1]
      BY <1>2, <3>1 DEF ToBeLinked
    <3> QED
      BY <1>2, <1>4, <1>7, <1>8, <3>1, <3>2 DEF ToBeLinked
  <2>2. ASSUME cpc = "dummyLink"
        PROVE  /\ \E k \in 1 .. Len(list) - 1 : dummyPrev = list[k] /\ Dummy = list[k + 1]
               /\ link'[dummyPrev] = Null
    <3>1. PICK k \in 1 .. Len(list) - 1 : dummyPrev = list[k] /\ Dummy = list[k + 1]
      BY <1>2, <2>2 DEF ToBeLinked
    <3> QED
      BY <1>2, <1>4, <1>6, <1>8, <2>2, <3>1 DEF ToBeLinked
  <2> QED
    BY <1>1, <1>2, <2>1, <2>2 DEF ToBeLinked
<1>13. Held'
  BY <1>1, <1>2, <1>4, <1>5, <1>8 DEF Held, Cells
<1>14. Alone'
  BY <1>1, <1>2, <1>4 DEF Alone
<1>15. ListIntact'
  <2>1. ASSUME NEW a, NEW b, Linking(a, b), a # list[j]
        PROVE  LinkingThen(a, b)
    BY <1>1, <1>3, <1>7, <2>1 DEF Linking, LinkingThen, m
  <2> QED
    BY <1>1, <1>3, <2>1, LinkKeepsList
<1>16. DestructorLeavesNothing'
  BY <1>1, <1>4 DEF DestructorLeavesNothing
<1> QED
  BY <1>10, <1>11, <1>12, <1>13, <1>14, <1>15, <1>16 DEF IInv
-----------------------------------------------------------------------------
(* The steps of the consumer: how a call of Dequeue goes on or ends. *)
LEMMA ReturnObjectKeeps ==
    ASSUME IInv, ReturnObject(tail), link[tail] # Null, cpc # "dummyLink", phase # "closed",
           UNCHANGED <<head, link, producerVars, dummyPrev>>
    PROVE  IInv'
<1>1. /\ tail' = link[tail] /\ list' = Tail(list) /\ cpc' = "idle" /\ front' = Null
      /\ UNCHANGED <<phase, ppc, input, prevHead>>
  BY DEF ReturnObject, Successor, producerVars
<1>2. /\ list' \in Seq(Cells) /\ tail' \in Cells
      /\ Unpublished' /\ ToBeLinked' /\ ListIntact'
  BY <1>1, RemoveKeeps
<1>3. Kinds'
  BY <1>1, <1>2 DEF IInv, Kinds
<1>4. Held' /\ Alone' /\ DestructorLeavesNothing'
  BY <1>1 DEF IInv, Held, Alone, DestructorLeavesNothing
<1> QED
  BY <1>2, <1>3, <1>4 DEF IInv

LEMMA ReturnFalseKeeps ==
    ASSUME IInv, ReturnFalse, cpc # "dummyLink", phase # "closed",
           phase = "closing" => Listed \subseteq {Dummy},
           UNCHANGED <<head, link, producerVars, dummyPrev>>
    PROVE  IInv'
<1>1. /\ cpc' = "idle" /\ front' = Null
      /\ phase' = IF phase = "closing" THEN "closed" ELSE phase
      /\ UNCHANGED <<tail, list, ppc, input, prevHead>>
  BY DEF ReturnFalse, producerVars
<1>2. Listed' = Listed /\ Unpublished' /\ ToBeLinked' /\ ListIntact'
  BY <1>1, LookKeeps
<1>3. Kinds'
  BY <1>1 DEF IInv, Kinds
<1>4. Held' /\ Alone' /\ DestructorLeavesNothing'
  BY <1>1, <1>2 DEF IInv, Held, Alone, DestructorLeavesNothing, Kinds
<1> QED
  BY <1>2, <1>3, <1>4 DEF IInv

LEMMA ReturnOrTestHeadKeeps ==
    ASSUME IInv, ReturnOrTestHead(tail), tail # Dummy,
           cpc # "dummyLink", phase # "closed",
           UNCHANGED <<head, link, producerVars, dummyPrev>>
    PROVE  IInv'
<1>1. CASE link[tail] # Null /\ ReturnObject(tail)
  BY <1>1, ReturnObjectKeeps
<1>2. CASE /\ link[tail] = Null /\ cpc' = "head" /\ front' = tail
           /\ UNCHANGED <<tail, phase, list, taken, dropped>>
  <2>1. Listed' = Listed /\ Unpublished' /\ ToBeLinked' /\ ListIntact'
    BY <1>2, LookKeeps
  <2>2. UNCHANGED <<ppc, input, prevHead>> /\ tail \in Objects
    BY DEF producerVars, IInv, Kinds, Cells
  <2>3. Kinds'
    BY <1>2, <2>2 DEF IInv, Kinds
  <2>4. Held' /\ Alone' /\ DestructorLeavesNothing'
    BY <1>2, <2>1, <2>2 DEF IInv, Held, Alone, DestructorLeavesNothing
  <2> QED
    BY <2>1, <2>3, <2>4 DEF IInv
<1> QED
  BY <1>1, <1>2 DEF ReturnOrTestHead

LEMMA DequeueFirstKeeps ==
    ASSUME IInv, DequeueFirst
    PROVE  IInv'
<1>1. cpc = "idle" /\ phase # "closed" /\ UNCHANGED <<head, link, producerVars, dummyPrev>>
  BY DEF DequeueFirst
<1>2. CASE AtDummy /\ link[tail] = Null /\ ReturnFalse
  <2>1. phase = "closing" => Listed \subseteq {Dummy}
    BY <1>1, <1>2, EmptyWhenQuiet DEF AtDummy
  <2> QED
    BY <1>1, <1>2, <2>1, ReturnFalseKeeps
<1>3. CASE /\ AtDummy /\ link[tail] # Null
           /\ tail' = link[tail] /\ list' = Tail(list) /\ front' = link[tail] /\ cpc' = "second"
           /\ UNCHANGED <<phase, taken, dropped>>
  <2>1. /\ list' \in Seq(Cells) /\ tail' \in Cells /\ tail' # tail
        /\ Unpublished' /\ ToBeLinked' /\ ListIntact'
    BY <1>1, <1>3, RemoveKeeps
  <2>2. tail' \in Objects /\ UNCHANGED <<ppc, input, prevHead>>
    BY <1>1, <1>3, <2>1 DEF AtDummy, Cells, producerVars
  <2>3. Kinds'
    BY <1>1, <1>3, <2>1, <2>2 DEF IInv, Kinds
  <2>4. Held' /\ Alone' /\ DestructorLeavesNothing'
    BY <1>1, <1>3, <2>2 DEF IInv, Held, Alone, DestructorLeavesNothing
  <2> QED
    BY <2>1, <2>3, <2>4 DEF IInv
<1>4. CASE ~AtDummy /\ ReturnOrTestHead(tail)
  BY <1>1, <1>4, ReturnOrTestHeadKeeps DEF AtDummy
<1> QED
  BY <1>2, <1>3, <1>4 DEF DequeueFirst

LEMMA DequeueSecondKeeps ==
    ASSUME IInv, DequeueSecond
    PROVE  IInv'
<1>1. /\ cpc = "second" /\ ReturnOrTestHead(front)
      /\ UNCHANGED <<head, link, producerVars, dummyPrev>>
  BY DEF DequeueSecond
<1>2. front = tail /\ tail # Dummy /\ phase # "closed"
  BY <1>1, IntrusiveAssumption DEF IInv, Held, Alone
<1> QED
  BY <1>1, <1>2, ReturnOrTestHeadKeeps

LEMMA DequeueHeadKeeps ==
    ASSUME IInv, DequeueHead
    PROVE  IInv'
<1>1. cpc = "head" /\ UNCHANGED <<head, link, producerVars, dummyPrev>>
  BY DEF DequeueHead
<1>2. front = tail /\ front \in Objects /\ phase # "closed"
  BY <1>1 DEF IInv, Held, Alone
<1>3. CASE ~FrontIsLast /\ ReturnFalse
  <2>1. phase # "closing"
    BY <1>1, <1>2, <1>3, EmptyWhenQuiet DEF FrontIsLast, IInv, Alone
  <2> QED
    BY <1>1, <1>2, <1>3, <2>1, ReturnFalseKeeps
<1>4. CASE FrontIsLast /\ cpc' = "dummyInit" /\ UNCHANGED <<tail, front, phase, list, taken, dropped>>
  <2>1. Dummy \notin Listed
    <3>1. /\ list[1] = tail /\ list[Len(list)] = tail /\ Len(list) \in Nat /\ Len(list) > 0
          /\ \A j, k \in 1 .. Len(list) : list[j] = list[k] => j = k
          /\ list \in Seq(Cells)
      BY <1>2, <1>4, Whole DEF FrontIsLast
    <3>2. 1 \in 1 .. Len(list) /\ Len(list) \in 1 .. Len(list)
      BY <3>1
    <3>3. Len(list) = 1
      BY <3>1, <3>2
    <3>4. \A n : n \in Listed <=> \E k \in 1 .. Len(list) : n = list[k]
      BY <3>1, ListedIs
    <3> QED
      BY <1>2, <3>1, <3>3, <3>4, IntrusiveAssumption
  <2>2. Listed' = Listed /\ Unpublished' /\ ToBeLinked' /\ ListIntact'
    BY <1>1, <1>4, LookKeeps
  <2>3. UNCHANGED <<ppc, input, prevHead>>
    BY <1>1 DEF producerVars
  <2>4. Kinds'
    BY <1>1, <1>4, <2>3 DEF IInv, Kinds
  <2>5. Held' /\ Alone' /\ DestructorLeavesNothing'
    BY <1>1, <1>2, <1>4, <2>1, <2>2, <2>3 DEF IInv, Held, Alone, DestructorLeavesNothing
  <2> QED
    BY <2>2, <2>4, <2>5 DEF IInv
<1> QED
  BY <1>3, <1>4 DEF DequeueHead

LEMMA DequeueLastKeeps ==
    ASSUME IInv, DequeueLast
    PROVE  IInv'
<1>1. cpc = "last" /\ UNCHANGED <<head, link, producerVars, dummyPrev>>
  BY DEF DequeueLast
<1>2. front = tail /\ front \in Objects /\ phase # "closed" /\ Dummy \in Listed
  BY <1>1 DEF IInv, Held, Alone
<1>3. CASE FrontHasLink /\ ReturnObject(front)
  BY <1>1, <1>2, <1>3, ReturnObjectKeeps DEF FrontHasLink
<1>4. CASE ~FrontHasLink /\ ReturnFalse
  <2>1. phase # "closing"
    BY <1>1, <1>2, <1>4, EmptyWhenQuiet, IntrusiveAssumption DEF FrontHasLink
  <2> QED
    BY <1>1, <1>2, <1>4, <2>1, ReturnFalseKeeps
<1> QED
  BY <1>3, <1>4 DEF DequeueLast
-----------------------------------------------------------------------------
(* The consumer as a producer: Enqueue(_dummyPtr). *)
LEMMA DummyInitKeeps ==
    ASSUME IInv, DummyInit
    PROVE  IInv'
<1>1. /\ cpc = "dummyInit" /\ cpc' = "dummyExchange"
      /\ link' = [link EXCEPT ![Dummy] = Null]
      /\ UNCHANGED <<head, tail, ppc, input, prevHead, front, dummyPrev, phase, list>>
  BY DEF DummyInit, producerVars
<1>2. Kinds /\ Unpublished /\ ToBeLinked /\ Held /\ Alone
  BY DEF IInv
<1>3. Dummy \notin Listed /\ Dummy \in Cells /\ Listed' = Listed
  BY <1>1, <1>2 DEF Held, Cells, Listed
<1>4. \A c \in Cells : link'[c] = IF c = Dummy THEN Null ELSE link[c]
  BY <1>1, <1>2 DEF Kinds
<1>5. /\ list \in Seq(Cells) /\ list # <<>> /\ Len(list) \in Nat
      /\ list[1] = tail /\ list[Len(list)] = head /\ link[head] = Null
      /\ \A k \in 1 .. Len(list) : list[k] \in Cells /\ list[k] # Dummy
      /\ \A k, l \in 1 .. Len(list) : list[k] = list[l] => k = l
      /\ head \in Cells /\ head # Dummy
  BY <1>2, <1>3, Whole DEF Kinds
<1>6. \A k \in 1 .. Len(list) - 1 : k \in 1 .. Len(list) /\ link'[list[k]] = link[list[k]]
  BY <1>4, <1>5
<1>7. Kinds'
  BY <1>1, <1>2 DEF Kinds
<1>8. Unpublished'
  BY <1>1, <1>2, <1>3, <1>4 DEF Unpublished, Cells
<1>9. ToBeLinked'
  <2>1. ASSUME NEW q \in Producers, ppc[q] = "link"
        PROVE  link'[prevHead[q]] = Null
    BY <1>2, <1>6, <2>1 DEF ToBeLinked
  <2> QED
    BY <1>1, <1>2, <2>1 DEF ToBeLinked
<1>10. Held' /\ Alone' /\ DestructorLeavesNothing'
  BY <1>1, <1>2, <1>3, <1>4 DEF Held, Alone, DestructorLeavesNothing
<1>11. ListIntact'
  <2>1. ASSUME NEW k \in 1 .. Len(list) - 1
        PROVE  \/ link'[list[k]] = list[k + 1]
               \/ link'[list[k]] = Null /\ LinkingThen(list[k], list[k + 1])
    BY <1>1, <1>6, Whole DEF Linking, LinkingThen
  <2>2. link'[head] = Null
    BY <1>4, <1>5
  <2> QED
    BY <1>1, <1>5, <2>1, <2>2, IntactThen
<1> QED
  BY <1>7, <1>8, <1>9, <1>10, <1>11 DEF IInv

LEMMA DummyExchangeKeeps ==
    ASSUME IInv, DummyExchange
    PROVE  IInv'
<1>1. /\ cpc = "dummyExchange" /\ cpc' = "dummyLink"
      /\ dummyPrev' = head /\ head' = Dummy /\ list' = Append(list, Dummy)
      /\ UNCHANGED <<tail, link, ppc, input, prevHead, front, phase>>
  BY DEF DummyExchange, producerVars
<1>2. Kinds /\ Unpublished /\ ToBeLinked /\ Held /\ Alone
  BY DEF IInv
<1>3. Dummy \notin Listed /\ Dummy \in Cells /\ link[Dummy] = Null
  BY <1>1, <1>2 DEF Held, Cells
<1>4. list' \in Seq(Cells) /\ Listed' = Listed \union {Dummy}
  BY <1>1, <1>2, <1>3, Appended DEF Kinds
<1>5. /\ \A q \in Producers : ppc[q] = "link" =>
            /\ \E k \in 1 .. Len(list') - 1 : prevHead[q] = list'[k] /\ input[q] = list'[k + 1]
            /\ prevHead[q] # head
      /\ \E k \in 1 .. Len(list') - 1 : head = list'[k] /\ Dummy = list'[k + 1]
      /\ link[head] = Null
  BY <1>1, <1>3, PublishKeepsLinks, Whole
<1>6. Kinds'
  BY <1>1, <1>2, <1>3, <1>4 DEF Kinds
<1>7. Unpublished'
  BY <1>1, <1>2, <1>4, IntrusiveAssumption DEF Unpublished
<1>8. ToBeLinked'
  BY <1>1, <1>2, <1>5 DEF ToBeLinked
<1>9. Held' /\ Alone' /\ DestructorLeavesNothing'
  BY <1>1, <1>2, <1>4 DEF Held, Alone, DestructorLeavesNothing
<1>10. ListIntact'
  <2>1. ASSUME NEW a, NEW b, Linking(a, b)
        PROVE  LinkingThen(a, b)
    BY <1>1, <2>1 DEF Linking, LinkingThen
  <2>2. LinkingThen(head, Dummy)
    BY <1>1 DEF LinkingThen
  <2> QED
    BY <1>1, <1>3, <2>1, <2>2, ExchangeKeepsList
<1> QED
  BY <1>6, <1>7, <1>8, <1>9, <1>10 DEF IInv

LEMMA DummyLinkKeeps ==
    ASSUME IInv, DummyLink
    PROVE  IInv'
<1>1. /\ cpc = "dummyLink" /\ cpc' = "last"
      /\ link' = [link EXCEPT ![dummyPrev] = Dummy]
      /\ UNCHANGED <<head, tail, ppc, input, prevHead, front, phase, list>>
  BY DEF DummyLink, producerVars
<1>2. Kinds /\ Unpublished /\ ToBeLinked /\ Held /\ Alone
  BY DEF IInv
<1>3. PICK j \in 1 .. Len(list) - 1 : dummyPrev = list[j] /\ Dummy = list[j + 1]
  BY <1>1, <1>2 DEF ToBeLinked
<1>4. /\ Len(list) \in Nat /\ Listed' = Listed
      /\ \A k \in 1 .. Len(list) : list[k] \in Cells /\ list[k] \in Listed
  BY <1>1, Whole DEF Listed
<1>5. dummyPrev \in Listed /\ dummyPrev \in Cells /\ Dummy \in Cells
  BY <1>3, <1>4
<1>6. \A c \in Cells : c # dummyPrev => link'[c] = link[c]
  BY <1>1, <1>2 DEF Kinds
<1>7. Kinds'
  BY <1>1, <1>2, <1>5 DEF Kinds
<1>8. Unpublished'
  BY <1>1, <1>2, <1>4, <1>5, <1>6 DEF Unpublished, Cells
<1>9. ToBeLinked'
  <2>1. ASSUME NEW q \in Producers, ppc[q] = "link"
        PROVE  link'[prevHead[q]] = Null
    <3>1. PICK k \in 1 .. Len(list) - 1 : prevHead[q] = list[k]
      BY <1>2, <2>1 DEF ToBeLinked
    <3>2. prevHead[q] # dummyPrev /\ prevHead[q] \in Cells /\ link[prevHead[q]] = Null
      BY <1>1, <1>2, <1>4, <2>1, <3>1 DEF ToBeLinked
    <3> QED
      BY <1>6, <3>2
  <2> QED
    BY <1>1, <1>2, <2>1 DEF ToBeLinked
<1>10. Held' /\ Alone' /\ DestructorLeavesNothing'
  BY <1>1, <1>2, <1>4 DEF Held, Alone, IInv, DestructorLeavesNothing
<1>11. ListIntact'
  <2>1. ASSUME NEW a, NEW b, Linking(a, b), a # list[j]
        PROVE  LinkingThen(a, b)
    BY <1>1, <1>3, <2>1 DEF Linking, LinkingThen
  <2> QED
    BY <1>1, <1>3, <2>1, LinkKeepsList
<1> QED
  BY <1>7, <1>8, <1>9, <1>10, <1>11 DEF IInv

LEMMA StepKeepsIInv == IInv /\ [Next]_vars => IInv'
<1> SUFFICES ASSUME IInv, [Next]_vars
             PROVE  IInv'
  OBVIOUS
<1>1. CASE Destroy
  <2>1. /\ phase' = "closing" /\ cpc = "idle" /\ \A p \in Producers : ppc[p] = "idle"
        /\ UNCHANGED <<head, tail, link, producerVars, cpc, front, dummyPrev, list>>
    BY <1>1 DEF Destroy
  <2>2. Listed' = Listed /\ Unpublished' /\ ToBeLinked' /\ ListIntact'
    BY <2>1, LookKeeps
  <2>3. UNCHANGED <<ppc, input, prevHead>>
    BY <2>1 DEF producerVars
  <2>4. Kinds' /\ Held' /\ Alone' /\ DestructorLeavesNothing'
    BY <2>1, <2>2, <2>3 DEF IInv, Kinds, Held, Alone, DestructorLeavesNothing
  <2> QED
    BY <2>2, <2>4 DEF IInv
<1>2. CASE UNCHANGED vars
  <2>1. /\ UNCHANGED <<head, tail, link, ppc, input, prevHead, cpc, front, dummyPrev, phase, list>>
        /\ Listed' = Listed
    BY <1>2 DEF vars, producerVars, Listed
  <2>2. Kinds' /\ Unpublished' /\ ToBeLinked' /\ Held' /\ Alone'
    BY <2>1 DEF IInv, Kinds, Unpublished, ToBeLinked, Held, Alone
  <2>3. ListIntact' /\ DestructorLeavesNothing'
    BY <2>1 DEF IInv, ListIntact, Linking, DestructorLeavesNothing
  <2> QED
    BY <2>2, <2>3 DEF IInv
<1> QED
  BY <1>1, <1>2, EnqueueInitKeeps, EnqueueExchangeKeeps, EnqueueLinkKeeps, DequeueFirstKeeps,
     DequeueSecondKeeps, DequeueHeadKeeps, DummyInitKeeps, DummyExchangeKeeps, DummyLinkKeeps,
     DequeueLastKeeps DEF Next, Dequeue

(* IInv is an invariant of the specification. *)
LEMMA Inductive == Spec => []IInv
BY InitHolds, StepKeepsIInv, PTL DEF Spec

(* The list of objects and dummy stays whole and free of repetitions, for any *)
(* number of producers (MPSCQueue.h:115-116).                                 *)
THEOREM ListStaysIntact == Spec => []ListIntact
<1>1. IInv => ListIntact
  BY DEF IInv
<1> QED
  BY <1>1, Inductive, PTL

(* No link of an object that was returned is written by the queue, and the    *)
(* dummy is not enqueued while it is queued (MPSCQueue.h:116, 136, 144, 149). *)
THEOREM ReturnedIsUntouched == Spec => []NoTouchAfterHandOff
<1>1. ASSUME IInv
      PROVE  NoTouchAfterHandOff
  <2>1. /\ Len(list) \in Nat
        /\ \A k \in 1 .. Len(list) : list[k] \in Listed
    BY <1>1, Whole
  <2>2. ASSUME NEW p \in Producers, ppc[p] = "link"
        PROVE  {prevHead[p], input[p]} \subseteq Listed
    BY <1>1, <2>1, <2>2 DEF IInv, ToBeLinked
  <2>3. cpc = "dummyLink" => dummyPrev \in Listed
    BY <1>1, <2>1 DEF IInv, ToBeLinked
  <2> QED
    BY <1>1, <2>2, <2>3 DEF IInv, Unpublished, Held, NoTouchAfterHandOff
<1> QED
  BY <1>1, Inductive, PTL

(* The destructor, which stops at the first false, has then deleted every     *)
(* object (MPSCQueue.h:107-109).                                              *)
THEOREM NothingIsLeft == Spec => []DestructorLeavesNothing
<1>1. IInv => DestructorLeavesNothing
  BY DEF IInv
<1> QED
  BY <1>1, Inductive, PTL
-----------------------------------------------------------------------------
(* Lists without repetition, and what is left of them without the dummy. *)
Distinct(s) == \A j, k \in 1 .. Len(s) : s[j] = s[k] => j = k

LEMMA NoDummy ==
    ASSUME NEW s \in Seq(Cells), \A k \in 1 .. Len(s) : s[k] # Dummy
    PROVE  WithoutDummy(s) = s /\ s \in Seq(Objects)
<1>1. WithoutDummy(s) = s
  BY DEF WithoutDummy
<1>2. \A k \in 1 .. Len(s) : s[k] \in Objects
  BY ElementOfSeq DEF Cells
<1> QED
  BY <1>1, <1>2

LEMMA OneDummy ==
    ASSUME NEW s \in Seq(Cells), Distinct(s), NEW d \in 1 .. Len(s), s[d] = Dummy
    PROVE  /\ WithoutDummy(s) \in Seq(Objects)
           /\ Len(WithoutDummy(s)) = Len(s) - 1
           /\ \A k \in 1 .. Len(s) - 1 : WithoutDummy(s)[k] = IF k < d THEN s[k] ELSE s[k + 1]
<1>1. Len(s) \in Nat /\ DOMAIN s = 1 .. Len(s)
  OBVIOUS
<1>2. DummyAt(s) = d
  BY <1>1 DEF DummyAt, Distinct
<1>3. WithoutDummy(s) = [k \in 1 .. Len(s) - 1 |-> IF k < d THEN s[k] ELSE s[k + 1]]
  BY <1>1, <1>2 DEF WithoutDummy
<1>4. ASSUME NEW k \in 1 .. Len(s) - 1
      PROVE  (IF k < d THEN s[k] ELSE s[k + 1]) \in Objects
  <2>1. k \in 1 .. Len(s) /\ k + 1 \in 1 .. Len(s)
    BY <1>1
  <2>2. k < d => s[k] # Dummy
    BY <2>1 DEF Distinct
  <2>3. ~(k < d) => s[k + 1] # Dummy
    BY <2>1 DEF Distinct
  <2> QED
    BY <2>1, <2>2, <2>3, ElementOfSeq DEF Cells
<1>5. Len(s) - 1 \in Nat
  BY <1>1
<1> QED
  BY <1>3, <1>4, <1>5

(* An object that is appended is appended to what is left, too. *)
LEMMA WithoutAppend ==
    ASSUME NEW s \in Seq(Cells), Distinct(s), NEW n \in Objects,
           \A k \in 1 .. Len(s) : s[k] # n
    PROVE  WithoutDummy(Append(s, n)) = Append(WithoutDummy(s), n)
<1> DEFINE t == Append(s, n)
<1>1. /\ n \in Cells /\ n # Dummy /\ Len(s) \in Nat
      /\ t \in Seq(Cells) /\ Len(t) = Len(s) + 1
      /\ \A k \in 1 .. Len(s) : t[k] = s[k]
      /\ t[Len(s) + 1] = n
  BY AppendProperties, IntrusiveAssumption DEF Cells
<1>2. CASE \A k \in 1 .. Len(s) : s[k] # Dummy
  <2>1. \A k \in 1 .. Len(t) : t[k] # Dummy
    <3> SUFFICES ASSUME NEW k \in 1 .. Len(t)
                 PROVE  t[k] # Dummy
      OBVIOUS
    <3>1. k \in 1 .. Len(s) \/ k = Len(s) + 1
      BY <1>1
    <3> QED
      BY <1>1, <1>2, <3>1
  <2> HIDE DEF t
  <2>2. WithoutDummy(t) = t /\ WithoutDummy(s) = s
    BY <1>1, <1>2, <2>1, NoDummy
  <2> QED
    BY <2>2 DEF t
<1>3. ASSUME NEW d \in 1 .. Len(s), s[d] = Dummy
      PROVE  WithoutDummy(t) = Append(WithoutDummy(s), n)
  <2> HIDE DEF t
  <2>1. Distinct(t)
    <3> SUFFICES ASSUME NEW j \in 1 .. Len(t), NEW k \in 1 .. Len(t), t[j] = t[k]
                 PROVE  j = k
      BY DEF Distinct
    <3>1. (j \in 1 .. Len(s) \/ j = Len(s) + 1) /\ (k \in 1 .. Len(s) \/ k = Len(s) + 1)
      BY <1>1
    <3> QED
      BY <1>1, <3>1 DEF Distinct
  <2>2. d \in 1 .. Len(t) /\ t[d] = Dummy
    BY <1>1, <1>3
  <2> DEFINE u == WithoutDummy(s)
             w == WithoutDummy(t)
             v == Append(u, n)
  <2>3. /\ u \in Seq(Objects) /\ Len(u) = Len(s) - 1
        /\ \A k \in 1 .. Len(s) - 1 : u[k] = IF k < d THEN s[k] ELSE s[k + 1]
    BY <1>3, OneDummy
  <2>4. /\ w \in Seq(Objects) /\ Len(w) = Len(t) - 1
        /\ \A k \in 1 .. Len(t) - 1 : w[k] = IF k < d THEN t[k] ELSE t[k + 1]
    BY <1>1, <2>1, <2>2, OneDummy
  <2> HIDE DEF u, w
  <2>5. /\ v \in Seq(Objects) /\ Len(v) = Len(u) + 1
        /\ \A k \in 1 .. Len(u) : v[k] = u[k]
        /\ v[Len(u) + 1] = n
    BY <2>3, AppendProperties
  <2> HIDE DEF v
  <2>6. Len(w) = Len(s) /\ Len(v) = Len(s)
    BY <1>1, <2>3, <2>4, <2>5
  <2>7. ASSUME NEW k \in 1 .. Len(s)
        PROVE  w[k] = v[k]
    <3>1. CASE k = Len(s)
      <4>1. w[k] = t[k + 1] /\ v[k] = n
        BY <1>1, <1>3, <2>3, <2>4, <2>5, <3>1
      <4> QED
        BY <1>1, <3>1, <4>1
    <3>2. CASE k # Len(s)
      <4>1. /\ k \in 1 .. Len(s) - 1 /\ k \in 1 .. Len(u) /\ k \in 1 .. Len(t) - 1
            /\ k \in 1 .. Len(s) /\ k + 1 \in 1 .. Len(s)
        BY <1>1, <2>3, <3>2
      <4> QED
        BY <1>1, <2>3, <2>4, <2>5, <4>1
    <3> QED
      BY <3>1, <3>2
  <2>8. w = v
    BY <2>4, <2>5, <2>6, <2>7, SeqEqual
  <2> QED
    BY <2>8 DEF u, v, w
<1> QED
  BY <1>2, <1>3

(* The dummy is not seen when it is appended... *)
LEMMA WithoutAppendedDummy ==
    ASSUME NEW s \in Seq(Cells), Distinct(s), \A k \in 1 .. Len(s) : s[k] # Dummy
    PROVE  WithoutDummy(Append(s, Dummy)) = WithoutDummy(s)
<1> DEFINE t == Append(s, Dummy)
           w == WithoutDummy(t)
<1>1. /\ Dummy \in Cells /\ Len(s) \in Nat
      /\ t \in Seq(Cells) /\ Len(t) = Len(s) + 1
      /\ \A k \in 1 .. Len(s) : t[k] = s[k]
      /\ t[Len(s) + 1] = Dummy
  BY AppendProperties DEF Cells
<1> HIDE DEF t
<1>2. Distinct(t)
  <2> SUFFICES ASSUME NEW j \in 1 .. Len(t), NEW k \in 1 .. Len(t), t[j] = t[k]
               PROVE  j = k
    BY DEF Distinct
  <2>1. (j \in 1 .. Len(s) \/ j = Len(s) + 1) /\ (k \in 1 .. Len(s) \/ k = Len(s) + 1)
    BY <1>1
  <2> QED
    BY <1>1, <2>1 DEF Distinct
<1>3. Len(s) + 1 \in 1 .. Len(t)
  BY <1>1
<1>4. /\ w \in Seq(Objects) /\ Len(w) = Len(t) - 1
      /\ \A k \in 1 .. Len(t) - 1 : w[k] = IF k < Len(s) + 1 THEN t[k] ELSE t[k + 1]
  BY <1>1, <1>2, <1>3, OneDummy
<1> HIDE DEF w
<1>5. s \in Seq(Objects) /\ WithoutDummy(s) = s
  BY NoDummy
<1>6. Len(w) = Len(s) /\ \A k \in 1 .. Len(s) : w[k] = s[k]
  BY <1>1, <1>4
<1>7. w = s
  BY <1>4, <1>5, <1>6, SeqEqual
<1> QED
  BY <1>5, <1>7 DEF t, w

(* ...nor when it is removed at the front. *)
LEMMA WithoutRemovedDummy ==
    ASSUME NEW s \in Seq(Cells), Distinct(s), Len(s) > 1, s[1] = Dummy
    PROVE  WithoutDummy(Tail(s)) = WithoutDummy(s)
<1> DEFINE t == Tail(s)
           w == WithoutDummy(s)
<1>1. /\ Len(s) \in Nat /\ t \in Seq(Cells) /\ Len(t) = Len(s) - 1
      /\ \A k \in 1 .. Len(s) - 1 : t[k] = s[k + 1]
  BY HeadTailProperties
<1> HIDE DEF t
<1>2. 1 \in 1 .. Len(s)
  BY <1>1
<1>3. ASSUME NEW k \in 1 .. Len(t)
      PROVE  t[k] # Dummy
  <2>1. k + 1 \in 1 .. Len(s) /\ k + 1 # 1 /\ t[k] = s[k + 1]
    BY <1>1
  <2> QED
    BY <1>2, <2>1 DEF Distinct
<1>4. t \in Seq(Objects) /\ WithoutDummy(t) = t
  BY <1>1, <1>3, NoDummy
<1>5. /\ w \in Seq(Objects) /\ Len(w) = Len(s) - 1
      /\ \A k \in 1 .. Len(s) - 1 : w[k] = IF k < 1 THEN s[k] ELSE s[k + 1]
  BY <1>2, OneDummy
<1> HIDE DEF w
<1>6. Len(w) = Len(t) /\ \A k \in 1 .. Len(w) : w[k] = t[k]
  BY <1>1, <1>5
<1>7. w = t
  BY <1>4, <1>5, <1>6, SeqEqual
<1> QED
  BY <1>4, <1>7 DEF t, w

(* An object at the front is the first of what is left. *)
LEMMA WithoutTail ==
    ASSUME NEW s \in Seq(Cells), Distinct(s), Len(s) > 1, s[1] # Dummy
    PROVE  /\ WithoutDummy(s) # <<>> /\ Head(WithoutDummy(s)) = s[1]
           /\ WithoutDummy(Tail(s)) = Tail(WithoutDummy(s))
<1> DEFINE t == Tail(s)
           u == WithoutDummy(s)
           w == WithoutDummy(t)
           v == Tail(u)
<1>1. /\ Len(s) \in Nat /\ t \in Seq(Cells) /\ Len(t) = Len(s) - 1
      /\ \A k \in 1 .. Len(s) - 1 : t[k] = s[k + 1]
  BY HeadTailProperties
<1>2. CASE \A k \in 1 .. Len(s) : s[k] # Dummy
  <2>1. u = s /\ s # <<>> /\ Head(s) = s[1]
    BY <1>1, <1>2, NoDummy
  <2>2. \A k \in 1 .. Len(t) : t[k] # Dummy
    BY <1>1, <1>2
  <2>3. w = t
    BY <1>1, <2>2, NoDummy
  <2> QED
    BY <2>1, <2>3
<1>3. ASSUME NEW d \in 1 .. Len(s), s[d] = Dummy
      PROVE  u # <<>> /\ Head(u) = s[1] /\ w = v
  <2>1. /\ u \in Seq(Objects) /\ Len(u) = Len(s) - 1
        /\ \A k \in 1 .. Len(s) - 1 : u[k] = IF k < d THEN s[k] ELSE s[k + 1]
    BY <1>3, OneDummy
  <2>2. d - 1 \in 1 .. Len(t) /\ t[d - 1] = Dummy /\ d > 1
    BY <1>1, <1>3
  <2> HIDE DEF t
  <2>3. Distinct(t)
    <3> SUFFICES ASSUME NEW j \in 1 .. Len(t), NEW k \in 1 .. Len(t), t[j] = t[k]
                 PROVE  j = k
      BY DEF Distinct
    <3>1. j + 1 \in 1 .. Len(s) /\ k + 1 \in 1 .. Len(s) /\ s[j + 1] = s[k + 1]
      BY <1>1
    <3>2. j + 1 = k + 1
      BY <3>1 DEF Distinct
    <3> QED
      BY <3>2
  <2>4. /\ w \in Seq(Objects) /\ Len(w) = Len(t) - 1
        /\ \A k \in 1 .. Len(t) - 1 : w[k] = IF k < d - 1 THEN t[k] ELSE t[k + 1]
    BY <1>1, <2>2, <2>3, OneDummy
  <2> HIDE DEF u, w
  <2>5. u # <<>> /\ Head(u) = u[1] /\ u[1] = s[1]
    <3>1. 1 \in 1 .. Len(s) - 1 /\ Len(u) # 0
      BY <1>1, <2>1
    <3>2. u # <<>>
      BY <3>1
    <3> QED
      BY <2>1, <2>2, <3>1, <3>2, HeadTailProperties
  <2>6. /\ v \in Seq(Objects) /\ Len(v) = Len(u) - 1
        /\ \A k \in 1 .. Len(u) - 1 : v[k] = u[k + 1]
    BY <2>1, <2>5, HeadTailProperties
  <2> HIDE DEF v
  <2>7. Len(w) = Len(s) - 2 /\ Len(v) = Len(s) - 2
    BY <1>1, <2>1, <2>4, <2>6
  <2>8. ASSUME NEW k \in 1 .. Len(s) - 2
        PROVE  w[k] = v[k]
    <3>1. /\ k \in 1 .. Len(t) - 1 /\ k \in 1 .. Len(u) - 1
          /\ k + 1 \in 1 .. Len(s) - 1 /\ k \in 1 .. Len(s) - 1
      BY <1>1, <2>1
    <3>2. t[k] = s[k + 1] /\ t[k + 1] = s[k + 1 + 1]
      BY <1>1, <3>1
    <3> QED
      BY <1>3, <2>1, <2>4, <2>6, <3>1, <3>2
  <2>9. w = v
    <3>1. w \in Seq(Objects) /\ v \in Seq(Objects) /\ Len(w) = Len(v)
      BY <2>4, <2>6, <2>7
    <3>2. \A k \in 1 .. Len(w) : w[k] = v[k]
      BY <2>7, <2>8
    <3> QED
      BY <3>1, <3>2, SeqEqual
  <2> QED
    BY <2>5, <2>9
<1> QED
  BY <1>2, <1>3

(* Handing out the first object is a step of the abstract queue. *)
LEMMA ReturnTakes ==
    ASSUME IInv, ReturnObject(tail), tail # Dummy, link[tail] # Null
    PROVE  Abstract!Next
<1>1. /\ list \in Seq(Cells) /\ Distinct(list) /\ list[1] = tail /\ Len(list) > 1
  BY Whole, SecondIsNext DEF Distinct
<1>2. list' = Tail(list)
  BY DEF ReturnObject
<1>3. Queued # <<>> /\ Head(Queued) = tail /\ Queued' = Tail(Queued)
  BY <1>1, <1>2, WithoutTail DEF Queued
<1> QED
  BY <1>3 DEF ReturnObject, Abstract!Take, Abstract!Drop, Abstract!Next

(* Producers, consumer and destructor together implement a FIFO queue in the  *)
(* order of the exchanges, in which the dummy is not seen                     *)
(* (MPSCQueue.h:112-153).                                                     *)
THEOREM Refinement == Spec => ImplementsFifo
<1>1. ASSUME Init
      PROVE  Abstract!Init
  <2>1. Dummy \in Cells
    BY DEF Cells
  <2>2. <<>> \in Seq(Cells) /\ Distinct(<<>>) /\ \A k \in 1 .. Len(<<>>) : <<>>[k] # Dummy
    BY DEF Distinct
  <2>3. list = Append(<<>>, Dummy) /\ taken = <<>> /\ dropped = {}
    BY <1>1 DEF Init
  <2>4. WithoutDummy(<<>>) = <<>>
    BY <2>2, NoDummy
  <2>5. Queued = <<>>
    BY <2>2, <2>3, <2>4, WithoutAppendedDummy DEF Queued
  <2> QED
    BY <2>3, <2>5 DEF Abstract!Init
<1>2. ASSUME IInv, [Next]_vars
      PROVE  [Abstract!Next]_<<Queued, taken, dropped>>
  <2>0. /\ list \in Seq(Cells) /\ Distinct(list) /\ list[1] = tail
        /\ \A k \in 1 .. Len(list) : list[k] \in Listed
    BY <1>2, Whole DEF Distinct
  <2>1. ASSUME NEW p \in Producers, NEW n \in ClientOwned, EnqueueInit(p, n)
        PROVE  UNCHANGED <<Queued, taken, dropped>>
    BY <2>1 DEF EnqueueInit, Queued
  <2>2. ASSUME NEW p \in Producers, EnqueueExchange(p)
        PROVE  Abstract!Next
    <3>1. input[p] \in Objects \ Listed
      BY <1>2, <2>2 DEF EnqueueExchange, IInv, Unpublished
    <3>2. Queued' = Append(Queued, input[p])
      BY <2>0, <2>2, <3>1, WithoutAppend DEF EnqueueExchange, Queued
    <3> QED
      BY <2>2, <3>1, <3>2 DEF EnqueueExchange, Abstract!Put, Abstract!Next
  <2>3. ASSUME NEW p \in Producers, EnqueueLink(p)
        PROVE  UNCHANGED <<Queued, taken, dropped>>
    BY <2>3 DEF EnqueueLink, Queued
  <2>4. ASSUME ReturnOrTestHead(tail), tail # Dummy
        PROVE  [Abstract!Next]_<<Queued, taken, dropped>>
    BY <1>2, <2>4, ReturnTakes DEF ReturnOrTestHead, Queued
  <2>5. CASE DequeueFirst
    <3>1. CASE AtDummy /\ link[tail] = Null /\ ReturnFalse
      BY <3>1 DEF ReturnFalse, Queued
    <3>2. CASE AtDummy /\ link[tail] # Null /\ list' = Tail(list) /\ UNCHANGED <<taken, dropped>>
      <4>1. Len(list) > 1
        BY <1>2, <3>2, SecondIsNext
      <4>2. Queued' = Queued
        BY <2>0, <3>2, <4>1, WithoutRemovedDummy DEF AtDummy, Queued
      <4> QED
        BY <3>2, <4>2
    <3>3. CASE ~AtDummy /\ ReturnOrTestHead(tail)
      BY <2>4, <3>3 DEF AtDummy
    <3> QED
      BY <2>5, <3>1, <3>2, <3>3 DEF DequeueFirst
  <2>6. CASE DequeueSecond
    <3>1. front = tail /\ tail # Dummy /\ ReturnOrTestHead(front)
      BY <1>2, <2>6, IntrusiveAssumption DEF DequeueSecond, IInv, Held
    <3> QED
      BY <2>4, <3>1
  <2>7. CASE DequeueHead
    BY <2>7 DEF DequeueHead, ReturnFalse, Queued
  <2>8. CASE DummyInit
    BY <2>8 DEF DummyInit, Queued
  <2>9. CASE DummyExchange
    <3>1. Dummy \notin Listed
      BY <1>2, <2>9 DEF DummyExchange, IInv, Held
    <3>2. Queued' = Queued
      BY <2>0, <2>9, <3>1, WithoutAppendedDummy DEF DummyExchange, Queued
    <3> QED
      BY <2>9, <3>2 DEF DummyExchange
  <2>10. CASE DummyLink
    BY <2>10 DEF DummyLink, Queued
  <2>11. CASE DequeueLast
    <3>1. front = tail /\ tail # Dummy
      BY <1>2, <2>11, IntrusiveAssumption DEF DequeueLast, IInv, Held
    <3>2. CASE FrontHasLink /\ ReturnObject(front)
      BY <1>2, <3>1, <3>2, ReturnTakes DEF FrontHasLink
    <3>3. CASE ReturnFalse
      BY <3>3 DEF ReturnFalse, Queued
    <3> QED
      BY <2>11, <3>2, <3>3 DEF DequeueLast
  <2>12. CASE Destroy \/ UNCHANGED vars
    BY <2>12 DEF Destroy, vars, Queued
  <2> QED
    BY <1>2, <2>1, <2>2, <2>3, <2>5, <2>6, <2>7, <2>8, <2>9, <2>10, <2>11, <2>12
    DEF Next, Dequeue
<1> QED
  BY <1>1, <1>2, Inductive, PTL DEF Spec, ImplementsFifo, Abstract!Spec, Abstract!fifoVars
=============================================================================
