---------------------------- MODULE ProgramProofs ----------------------------
(***************************************************************************)
(* Proofs about the programs with a dialog: PrTest, for any repository, any*)
(* requests and any number of tests, and Cleanup, for any files with any   *)
(* texts.  The two state machines share nothing but this module.           *)
(***************************************************************************)
EXTENDS Cleanup, PrTest, SequenceTheorems, FiniteSetTheorems, WellFoundedInduction, TLAPS

-----------------------------------------------------------------------------
(* PrTest.                                                                   *)

(* What is checked out, or is about to be, exists. *)
RefsExist ==
    /\ pr \in PRs
    /\ DOMAIN branches \subseteq DOMAIN Initial \union PRs
    /\ head \in DOMAIN branches
    /\ \A c \in checkouts : c.branch \in DOMAIN branches

(* A test that has come so far makes a new branch. *)
BranchIsNew == stage \in {"master", "create", "creating"} => pr \notin DOMAIN branches

InitialBranchesStay ==
    \A b \in DOMAIN Initial : b \in DOMAIN branches /\ branches[b] = Initial[b]

(* No checkout of another branch is running. *)
OnlyOf(b) == \A c \in checkouts : c.branch = b

(* How far the branch of the test is: before it is made, master is checked    *)
(* out as soon as nothing is running; afterwards nothing leads away from it.  *)
OnItsWay ==
    /\ stage = "create" =>
          OnlyOf(Master) /\ (checkouts = {} => head = Master) /\ Master \in DOMAIN Initial
    /\ stage = "creating" => checkouts = {} /\ base = Initial[Master]
    /\ stage \in {"checkout", "pull", "fetched", "merging"} =>
          OnlyOf(pr) /\ head = pr /\ branches[pr] = Initial[Master]
    /\ stage = "next" =>
          OnlyOf(pr) /\ head = pr /\ branches[pr] = Initial[Master] \union {pr}

IInv ==
    /\ RefsExist
    /\ ~trouble => BranchIsNew /\ InitialBranchesStay /\ OnItsWay

-----------------------------------------------------------------------------
LEMMA InitHolds == TestInit => IInv
BY DEF TestInit, IInv, RefsExist, BranchIsNew, InitialBranchesStay, OnItsWay, OnlyOf

(* The steps of the dialog, and of `git remote show', leave the repository    *)
(* and the running checkouts alone.                                           *)
LEMMA DialogKeepsIInv ==
    ASSUME IInv,
           \/ TestPR \/ SendPathInfo \/ RemoteShowWrites \/ IsCorrectUpstream
           \/ NewBranch \/ GoNext \/ Moved
    PROVE  IInv'
<1>0. ~trouble' => ~trouble
  BY DEF TestPR, SendPathInfo, RemoteShowWrites, IsCorrectUpstream,
         NewBranch, Fails, GoNext, Moved
<1>1. /\ UNCHANGED <<repository, checkouts>>
      /\ pr' \in PRs
  BY DEF IInv, RefsExist, TestPR, SendPathInfo, RemoteShowWrites, IsCorrectUpstream,
         NewBranch, Fails, GoNext, Moved, program
<1>2. \/ stage' \in {"menu", "path", "upstream", "overflow", "exit", "exists"}
      \/ stage' = "master" /\ (pr' \notin DOMAIN branches \/ trouble')
  BY DEF TestPR, SendPathInfo, RemoteShowWrites, IsCorrectUpstream,
         NewBranch, Fails, GoNext, Moved, program, IsExistBranch
<1> QED
  BY <1>0, <1>1, <1>2 DEF IInv, RefsExist, BranchIsNew, InitialBranchesStay, OnItsWay, OnlyOf, repository

(* Before the checkout of master nothing else may be running, or it begins    *)
(* among trouble: whatever is running leads to a branch that exists, and the  *)
(* branch of this test does not.                                              *)
LEMMA CheckoutMasterKeepsIInv ==
    ASSUME IInv, CheckoutMaster
    PROVE  IInv'
<1> USE DEF CheckoutMaster, Checkout, IsExistBranch, repository, Begins, Fails
<1>1. RefsExist'
  BY DEF IInv, RefsExist
<1>2. ASSUME ~trouble'
      PROVE  BranchIsNew' /\ InitialBranchesStay' /\ OnItsWay'
  <2>1. /\ Master \in DOMAIN branches
        /\ checkouts' = checkouts \union {[test |-> tests, branch |-> Master, switching |-> FALSE]}
        /\ ~trouble
        /\ \A c \in checkouts : c.branch = pr
    BY <1>2
  <2>2. checkouts = {}
    BY <2>1 DEF IInv, RefsExist, BranchIsNew
  <2>3. Master \in DOMAIN Initial
    BY <2>1, PrTestAssumption DEF IInv, RefsExist
  <2>4. checkouts' # {} /\ OnlyOf(Master)'
    BY <2>1, <2>2 DEF OnlyOf
  <2> QED
    BY <2>1, <2>3, <2>4 DEF IInv, BranchIsNew, InitialBranchesStay, OnItsWay
<1> QED
  BY <1>1, <1>2 DEF IInv

(* The new branch begins where master is. *)
LEMMA CreationKeepsIInv ==
    ASSUME IInv, CreateBranch \/ BranchCreated
    PROVE  IInv'
<1>1. CASE CreateBranch
  <2> USE <1>1 DEF CreateBranch, repository, Begins
  <2>1. RefsExist'
    BY DEF IInv, RefsExist
  <2>2. ASSUME ~trouble'
        PROVE  BranchIsNew' /\ InitialBranchesStay' /\ OnItsWay'
    <3>1. BranchIsNew /\ InitialBranchesStay /\ OnItsWay /\ ~trouble /\ \A c \in checkouts : c.branch = pr
      BY <2>2 DEF IInv
    <3>2. checkouts = {}
      BY <3>1, PrTestAssumption DEF OnItsWay, OnlyOf, IInv, RefsExist
    <3>3. base' = Initial[Master]
      BY <3>1, <3>2 DEF OnItsWay, InitialBranchesStay
    <3> QED
      BY <3>1, <3>2, <3>3 DEF BranchIsNew, OnItsWay, InitialBranchesStay
  <2> QED
    BY <2>1, <2>2 DEF IInv
<1>2. CASE BranchCreated
  <2> USE <1>2 DEF BranchCreated, OnNewBranch, Fails, repository
  <2>1. CASE trouble'
    BY <2>1 DEF IInv, RefsExist
  <2>2. CASE ~trouble'
    <3>1. /\ ~trouble
          /\ branches' = [b \in DOMAIN branches \union {pr} |->
                            IF b = pr THEN base ELSE branches[b]]
          /\ head' = pr /\ pr \notin DOMAIN branches
      BY <2>2
    <3>2. checkouts = {} /\ base = Initial[Master] /\ InitialBranchesStay
      BY <3>1 DEF IInv, OnItsWay
    <3>3. RefsExist' /\ BranchIsNew'
      BY <3>1, <3>2 DEF IInv, RefsExist, BranchIsNew
    <3>4. InitialBranchesStay'
      BY <3>1, <3>2 DEF InitialBranchesStay
    <3>5. OnItsWay'
      BY <3>1, <3>2 DEF OnItsWay, OnlyOf
    <3> QED
      BY <3>3, <3>4, <3>5 DEF IInv
  <2> QED
    BY <2>1, <2>2
<1> QED
  BY <1>1, <1>2

(* Nothing leads away from the new branch, and the request goes into it.      *)
LEMMA PullKeepsIInv ==
    ASSUME IInv, CheckoutBranch \/ CheckoutPR \/ Merge \/ Pulled
    PROVE  IInv'
<1>1. CASE CheckoutBranch
  <2> USE <1>1 DEF CheckoutBranch, Checkout, IsExistBranch, repository, Begins, Fails
  <2>1. RefsExist'
    BY DEF IInv, RefsExist
  <2>2. ASSUME ~trouble'
        PROVE  BranchIsNew' /\ InitialBranchesStay' /\ OnItsWay'
    <3>1. /\ ~trouble
          /\ checkouts' = checkouts \union {[test |-> tests, branch |-> pr, switching |-> FALSE]}
      BY <2>2
    <3>2. InitialBranchesStay /\ OnItsWay
      BY <3>1 DEF IInv
    <3>3. OnlyOf(pr)'
      BY <3>1, <3>2 DEF OnItsWay, OnlyOf
    <3> QED
      BY <3>2, <3>3 DEF BranchIsNew, OnItsWay, InitialBranchesStay
  <2> QED
    BY <2>1, <2>2 DEF IInv
<1>2. CASE CheckoutPR
  BY <1>2 DEF CheckoutPR, Begins, Fails, repository,
              IInv, RefsExist, BranchIsNew, InitialBranchesStay, OnItsWay, OnlyOf
<1>3. CASE Merge
  BY <1>3 DEF Merge, Begins, Fails, repository,
              IInv, RefsExist, BranchIsNew, InitialBranchesStay, OnItsWay, OnlyOf
<1>4. CASE Pulled
  <2> USE <1>4 DEF Pulled
  <2>1. RefsExist'
    BY DEF IInv, RefsExist
  <2>2. ASSUME ~trouble
        PROVE  BranchIsNew' /\ InitialBranchesStay' /\ OnItsWay'
    <3>1. /\ InitialBranchesStay /\ OnlyOf(pr) /\ head = pr
          /\ branches[pr] = Initial[Master]
      BY <2>2 DEF IInv, OnItsWay
    <3>2. pr \notin DOMAIN Initial /\ pr \in DOMAIN branches
      BY <3>1, PrTestAssumption DEF IInv, RefsExist
    <3>3. branches' = [branches EXCEPT ![pr] = Initial[Master] \union {pr}]
      BY <3>1
    <3>4. InitialBranchesStay'
      BY <3>1, <3>2, <3>3 DEF InitialBranchesStay
    <3> QED
      BY <3>1, <3>2, <3>3, <3>4 DEF BranchIsNew, OnItsWay, OnlyOf
  <2> QED
    BY <2>1, <2>2 DEF IInv
<1> QED
  BY <1>1, <1>2, <1>3, <1>4

(* A checkout that ends, or gives up, takes the test no other way: it is that *)
(* of master, or of the branch of the test, wherever it matters.              *)
LEMMA CheckoutsKeepIInv ==
    ASSUME IInv, NEW c \in checkouts, Switch(c) \/ Switched(c)
    PROVE  IInv'
<1>1. CASE Switch(c)
  <2> USE <1>1 DEF Switch, Fails, repository, program
  <2>1. /\ \A d \in checkouts' : \E e \in checkouts : d.branch = e.branch
        /\ ~trouble' => checkouts' # {} /\ ~trouble
    <3>1. CASE checkouts' = checkouts \ {c} /\ trouble'
      BY <3>1
    <3>2. CASE /\ checkouts' = (checkouts \ {c}) \union {[c EXCEPT !.switching = TRUE]}
               /\ trouble' = trouble
      <4>1. [c EXCEPT !.switching = TRUE].branch = c.branch
        OBVIOUS
      <4> QED
        BY <3>2, <4>1
    <3> QED
      BY <3>1, <3>2
  <2> QED
    BY <2>1 DEF IInv, RefsExist, BranchIsNew, InitialBranchesStay, OnItsWay, OnlyOf
<1>2. CASE Switched(c)
  BY <1>2 DEF Switched, program, IInv, RefsExist, BranchIsNew, InitialBranchesStay, OnItsWay, OnlyOf
<1> QED
  BY <1>1, <1>2

LEMMA StepKeepsIInv == IInv /\ [TestNext]_testVars => IInv'
<1> SUFFICES ASSUME IInv, [TestNext]_testVars
             PROVE  IInv'
  OBVIOUS
<1>1. CASE UNCHANGED testVars
  BY <1>1 DEF testVars, program, repository, IInv, RefsExist, BranchIsNew, InitialBranchesStay, OnItsWay, OnlyOf
<1>2. CASE TestNext
  BY <1>2, DialogKeepsIInv, CheckoutMasterKeepsIInv, CreationKeepsIInv, PullKeepsIInv,
     CheckoutsKeepIInv DEF TestNext, Program, Git
<1> QED
  BY <1>1, <1>2

(* For any branches and requests, and any number of tests: while no command   *)
(* fails or begins next to a checkout of another branch, every test leaves    *)
(* its branch checked out with master and the request, and the others alone   *)
(* (PrTest/Main.cpp:169-178).                                                 *)
THEOREM RequestsAreIsolated == TestSpec => []EachPRInItsBranch
<1>1. IInv => EachPRInItsBranch
  BY DEF IInv, OnItsWay, InitialBranchesStay, EachPRInItsBranch
<1> QED
  BY <1>1, InitHolds, StepKeepsIInv, PTL DEF TestSpec

-----------------------------------------------------------------------------
(* The branches that somebody works on. *)
UsersBranches == DOMAIN Initial \ {Master}

(* Checkouts lead to master and to the branches of requests only; so, once a  *)
(* test has made its branch, none of the others is checked out until its end. *)
OutOfTheWay ==
    /\ pr \in PRs
    /\ \A c \in checkouts : c.branch \notin UsersBranches
    /\ ~uncreated /\ stage \in {"checkout", "pull", "fetched", "merging"} => head \notin UsersBranches
    /\ ~uncreated => \A b \in UsersBranches : b \in DOMAIN branches /\ branches[b] = Initial[b]

LEMMA StepKeepsOutOfTheWay == OutOfTheWay /\ [TestNext]_testVars => OutOfTheWay'
<1> SUFFICES ASSUME OutOfTheWay, [TestNext]_testVars
             PROVE  OutOfTheWay'
  OBVIOUS
<1>1. pr \in PRs /\ pr \notin UsersBranches /\ Master \notin UsersBranches
  BY PrTestAssumption DEF OutOfTheWay, UsersBranches
<1>2. ASSUME UNCHANGED <<repository, checkouts, uncreated>>, pr' \in PRs,
             stage' \in {"checkout", "pull", "fetched", "merging"} =>
                stage \in {"checkout", "pull", "fetched", "merging"}
      PROVE  OutOfTheWay'
  BY <1>2 DEF OutOfTheWay, repository
<1>3. CASE \/ TestPR \/ SendPathInfo \/ RemoteShowWrites \/ IsCorrectUpstream
           \/ NewBranch \/ GoNext \/ Moved
  BY <1>1, <1>2, <1>3 DEF TestPR, SendPathInfo, RemoteShowWrites, IsCorrectUpstream,
                          NewBranch, GoNext, Moved, program, repository
<1>4. CASE CheckoutMaster
  BY <1>1, <1>4 DEF CheckoutMaster, Checkout, OutOfTheWay, repository
<1>5. CASE CreateBranch
  BY <1>1, <1>2, <1>5 DEF CreateBranch
<1>6. CASE BranchCreated
  BY <1>1, <1>6 DEF BranchCreated, OnNewBranch, OutOfTheWay, repository
<1>7. CASE CheckoutBranch
  BY <1>1, <1>7 DEF CheckoutBranch, Checkout, OutOfTheWay, repository
<1>8. CASE CheckoutPR \/ Merge
  BY <1>1, <1>2, <1>8 DEF CheckoutPR, Merge, repository
<1>9. CASE Pulled
  BY <1>1, <1>9 DEF Pulled, OutOfTheWay
<1>10. ASSUME NEW c \in checkouts, Switch(c) PROVE OutOfTheWay'
  <2>1. [c EXCEPT !.switching = TRUE].branch = c.branch
    OBVIOUS
  <2>2. \A d \in checkouts' : d.branch \notin UsersBranches
    BY <1>10, <2>1 DEF Switch, OutOfTheWay
  <2> QED
    BY <1>10, <2>2 DEF Switch, OutOfTheWay, program, repository
<1>11. ASSUME NEW c \in checkouts, Switched(c) PROVE OutOfTheWay'
  BY <1>11 DEF Switched, OutOfTheWay, program
<1>12. CASE UNCHANGED testVars
  BY <1>12 DEF testVars, program, repository, OutOfTheWay
<1> QED
  BY <1>3, <1>4, <1>5, <1>6, <1>7, <1>8, <1>9, <1>10, <1>11, <1>12 DEF TestNext, Program, Git

(* For any branches, requests and tests, and any way in which checkouts       *)
(* overlap with what follows them or fail: as long as git makes the branches  *)
(* of the requests, nothing is merged into a branch that somebody works on    *)
(* (PrTest/Main.cpp:175-178, LaunchProcess.cpp:98, 225).                      *)
THEOREM OwnBranchesStay == TestSpec => []OwnBranchesAreUntouched
<1>1. TestInit => OutOfTheWay
  BY DEF TestInit, OutOfTheWay, UsersBranches
<1>2. OutOfTheWay => OwnBranchesAreUntouched
  BY DEF OutOfTheWay, OwnBranchesAreUntouched, UsersBranches
<1> QED
  BY <1>1, <1>2, StepKeepsOutOfTheWay, PTL DEF TestSpec

-----------------------------------------------------------------------------
(* Cleanup.                                                                  *)

(* What is collected and what is left to do come from the directory that the  *)
(* user has named in this run.                                                *)
ChosenInv ==
    /\ pc = "path" => storage = {}
    /\ pc \in {"confirm", "work"} =>
          \E d \in path : storage \subseteq Searched(method, d) \intersect Extensions(method)
    /\ pc = "work" => todo \subseteq storage

LEMMA ChosenIsKept == ChosenInv /\ [Next]_vars => ChosenInv'
<1> SUFFICES ASSUME ChosenInv, [Next]_vars PROVE ChosenInv'
  OBVIOUS
<1>1. ASSUME NEW m \in Methods, Select(m) PROVE ChosenInv'
  BY <1>1 DEF ChosenInv, Select, CleanPath
<1>2. CASE WrongPath
  BY <1>2 DEF ChosenInv, WrongPath, CleanPath
<1>3. ASSUME NEW d \in Dirs, FillFileList(d) PROVE ChosenInv'
  BY <1>3 DEF ChosenInv, FillFileList
<1>4. ASSUME NEW yes \in BOOLEAN, Confirm(yes) PROVE ChosenInv'
  BY <1>4 DEF ChosenInv, Confirm
<1>5. ASSUME NEW f \in Files, CleanFile(f) PROVE ChosenInv'
  BY <1>5 DEF ChosenInv, CleanFile, Turn
<1>6. ASSUME NEW f \in Files, WriteBreaksOff(f) PROVE ChosenInv'
  BY <1>6 DEF ChosenInv, WriteBreaksOff, Turn, CleanPath
<1>7. CASE UNCHANGED vars
  BY <1>7 DEF ChosenInv, vars
<1> QED
  BY <1>1, <1>2, <1>3, <1>4, <1>5, <1>6, <1>7 DEF Next

-----------------------------------------------------------------------------
(* Induction up to a number.                                                  *)

(* A set of numbers that is not empty has a smallest element. *)
LEMMA SmallestExists ==
    ASSUME NEW S \in SUBSET Nat, S # {}
    PROVE  \E x \in S : \A y \in S : ~ (y < x)
<1>1. \E x \in S : \A y \in S : ~ (<<y, x>> \in OpToRel(<, Nat))
  BY WFMin, NatLessThanWellFounded, Zenon
<1>2. PICK x \in S : \A y \in S : ~ (<<y, x>> \in OpToRel(<, Nat))
  BY <1>1, Zenon
<1>3. ASSUME NEW y \in S, y < x PROVE <<y, x>> \in OpToRel(<, Nat)
  BY <1>3, Zenon DEF OpToRel
<1> QED
  BY <1>2, <1>3, Zenon

(* A set with 0, and with every number up to n whose predecessor it has. *)
LEMMA UpTo ==
    ASSUME NEW n \in Nat, NEW S, 0 \in S, \A k \in 1 .. n : k - 1 \in S => k \in S
    PROVE  \A k \in 0 .. n : k \in S
<1> DEFINE T == {k \in 0 .. n : k \notin S}
<1> SUFFICES ASSUME T # {} PROVE FALSE
  OBVIOUS
<1>1. T \in SUBSET Nat
  OBVIOUS
<1>2. PICK x \in T : \A y \in T : ~ (y < x)
  <2> HIDE DEF T
  <2> QED
    BY <1>1, SmallestExists
<1>3. x \in 1 .. n /\ x - 1 \in 0 .. n /\ x - 1 < x
  OBVIOUS
<1>4. x - 1 \notin T
  <2> HIDE DEF T
  <2> QED
    BY <1>2, <1>3
<1> QED
  BY <1>3, <1>4

LEMMA MaxIsLargest ==
    ASSUME NEW s \in SUBSET Nat, NEW m \in s, \A i \in s : i <= m
    PROVE  Max(s) = m
<1>1. Max(s) \in s /\ \A i \in s : Max(s) >= i
  BY DEF Max
<1>2. Max(s) \in Nat /\ m \in Nat /\ Max(s) >= m /\ Max(s) <= m
  BY <1>1
<1> QED
  BY <1>2

LEMMA MaxExists ==
    ASSUME NEW n \in Nat, NEW s \in SUBSET (1 .. n), s # {}
    PROVE  Max(s) \in s /\ \A i \in s : i <= Max(s)
<1> DEFINE T == {k \in Nat : n - k \in s}
<1>1. T \in SUBSET Nat
  OBVIOUS
<1>2. T # {}
  <2>1. PICK i \in s : TRUE
    OBVIOUS
  <2>2. n - i \in Nat /\ n - (n - i) = i
    BY <2>1
  <2> QED
    BY <2>1, <2>2
<1>3. PICK x \in T : \A y \in T : ~ (y < x)
  <2> HIDE DEF T
  <2> QED
    BY <1>1, <1>2, SmallestExists
<1>4. n - x \in s
  OBVIOUS
<1>5. \A i \in s : i <= n - x
  <2> SUFFICES ASSUME NEW i \in s PROVE i <= n - x
    OBVIOUS
  <2>1. n - i \in Nat /\ n - (n - i) = i
    OBVIOUS
  <2>2. n - i \in T
    BY <2>1
  <2>3. ~ (n - i < x)
    BY <1>3, <2>2
  <2> QED
    BY <2>1, <2>3
<1>6. s \in SUBSET Nat
  OBVIOUS
<1>7. Max(s) = n - x
  BY <1>4, <1>5, <1>6, MaxIsLargest
<1> QED
  BY <1>4, <1>5, <1>7

(* A fold goes over the numbers from the largest down.                        *)
LEMMA PrefixIs ==
    ASSUME NEW n \in Nat, NEW k \in 1 .. n
    PROVE  /\ Max(1 .. k) = k
           /\ (1 .. k) \ {k} = 1 .. k - 1
           /\ 1 .. k # {} /\ 1 .. k \in SUBSET (1 .. n)
<1>1. k \in 1 .. k /\ 1 .. k \in SUBSET Nat /\ \A i \in 1 .. k : i <= k
  OBVIOUS
<1>2. Max(1 .. k) = k
  BY <1>1, MaxIsLargest
<1>3. (1 .. k) \ {k} = 1 .. k - 1
  OBVIOUS
<1> QED
  BY <1>1, <1>2, <1>3

-----------------------------------------------------------------------------
(* The function that a fold chooses exists.                                   *)
Unfolds(h, n, seed, step) ==
    h = [s \in SUBSET (1 .. n) |->
            IF s = {} THEN seed ELSE step[<<h[s \ {Max(s)}], Max(s)>>]]

LEMMA FoldHasSolution ==
    ASSUME NEW n \in Nat, NEW V, NEW seed \in V, NEW step \in [V \X (1 .. n) -> V]
    PROVE  \E h \in [SUBSET (1 .. n) -> V] : Unfolds(h, n, seed, step)
<1> DEFINE Upto(h, k) == \A s \in SUBSET (1 .. k) :
              h[s] = IF s = {} THEN seed ELSE step[<<h[s \ {Max(s)}], Max(s)>>]
           S == {k \in 0 .. n : \E h \in [SUBSET (1 .. n) -> V] : Upto(h, k)}
<1>1. 0 \in S
  <2> DEFINE h == [s \in SUBSET (1 .. n) |-> seed]
  <2>1. h \in [SUBSET (1 .. n) -> V]
    OBVIOUS
  <2>2. Upto(h, 0)
    OBVIOUS
  <2>3. 0 \in 0 .. n
    OBVIOUS
  <2> HIDE DEF h, Upto
  <2> QED
    BY <2>1, <2>2, <2>3
<1>2. ASSUME NEW k \in 1 .. n, k - 1 \in S PROVE k \in S
  <2>1. PICK h \in [SUBSET (1 .. n) -> V] : Upto(h, k - 1)
    BY <1>2
  <2> DEFINE g == [s \in SUBSET (1 .. n) |->
                     IF k \in s THEN step[<<h[s \ {k}], k>>] ELSE h[s]]
  <2>2. g \in [SUBSET (1 .. n) -> V]
    <3>1. \A s \in SUBSET (1 .. n) : h[s] \in V /\ h[s \ {k}] \in V
      OBVIOUS
    <3>2. \A s \in SUBSET (1 .. n) : step[<<h[s \ {k}], k>>] \in V
      BY <3>1
    <3> QED
      BY <3>1, <3>2
  <2>3. ASSUME NEW s \in SUBSET (1 .. k)
        PROVE  g[s] = IF s = {} THEN seed ELSE step[<<g[s \ {Max(s)}], Max(s)>>]
    <3>1. s \in SUBSET (1 .. n) /\ s \in SUBSET Nat
      OBVIOUS
    <3>2. CASE k \in s
      <4>1. Max(s) = k
        <5>1. \A i \in s : i <= k
          OBVIOUS
        <5> QED
          BY <3>1, <3>2, <5>1, MaxIsLargest
      <4>2. g[s \ {k}] = h[s \ {k}]
        BY <3>1
      <4>3. g[s] = step[<<h[s \ {k}], k>>]
        BY <3>1, <3>2
      <4> QED
        BY <3>2, <4>1, <4>2, <4>3
    <3>3. CASE k \notin s
      <4>1. s \in SUBSET (1 .. k - 1)
        BY <3>3
      <4>2. g[s] = h[s] /\ g[s \ {Max(s)}] = h[s \ {Max(s)}]
        BY <3>1, <3>3
      <4>3. h[s] = IF s = {} THEN seed ELSE step[<<h[s \ {Max(s)}], Max(s)>>]
        BY <2>1, <4>1
      <4> QED
        BY <4>2, <4>3
    <3> QED
      BY <3>2, <3>3
  <2>4. Upto(g, k)
    BY <2>3
  <2>5. k \in 0 .. n
    OBVIOUS
  <2> HIDE DEF g, Upto
  <2> QED
    BY <2>2, <2>4, <2>5
<1>3. n \in S
  <2>1. n \in 0 .. n
    OBVIOUS
  <2> HIDE DEF S
  <2> QED
    BY <1>1, <1>2, <2>1, UpTo
<1>4. PICK h \in [SUBSET (1 .. n) -> V] : Upto(h, n)
  BY <1>3
<1> DEFINE g == [s \in SUBSET (1 .. n) |->
                   IF s = {} THEN seed ELSE step[<<h[s \ {Max(s)}], Max(s)>>]]
<1>5. \A s \in SUBSET (1 .. n) : h[s] = g[s]
  BY <1>4
<1>6. h = g
  <2>1. DOMAIN g = SUBSET (1 .. n) /\ DOMAIN h = SUBSET (1 .. n)
    OBVIOUS
  <2>2. h = [s \in SUBSET (1 .. n) |-> h[s]] /\ g = [s \in SUBSET (1 .. n) |-> g[s]]
    OBVIOUS
  <2> HIDE DEF g
  <2> QED
    BY <1>5, <2>2, Zenon
<1>7. Unfolds(h, n, seed, step)
  BY <1>6 DEF Unfolds
<1> QED
  BY <1>7

-----------------------------------------------------------------------------
(* Lines and their order.                                                     *)
Tails == {NoTail, Tab, Spaces, Blanks}
Lines == Nat \X Tails
Texts == Seq(Lines)

LEMMA LinesAreOrdered ==
    /\ \A k \in Lines : ~Before(k, k)
    /\ \A k, l \in Lines : k # l => Before(k, l) \/ Before(l, k)
    /\ \A k, l \in Lines : ~ (Before(k, l) /\ Before(l, k))
    /\ \A k, l, m \in Lines : Before(k, l) /\ Before(l, m) => Before(k, m)
  BY DEF Lines, Tails, NoTail, Tab, Spaces, Blanks, Before

IsOrdered(t) == \A i, j \in DOMAIN t : i < j => ~Before(t[j], t[i])

LEMMA TextIs ==
    ASSUME NEW n \in Nat, NEW V, NEW t \in [1 .. n -> V]
    PROVE  t \in Seq(V) /\ Len(t) = n /\ DOMAIN t = 1 .. n
  OBVIOUS

LEMMA SliceIs ==
    ASSUME NEW V, NEW t \in Seq(V), NEW a \in Nat \ {0}, NEW b \in 0 .. Len(t)
    PROVE  /\ SubSeq(t, a, b) \in Seq(V)
           /\ Len(SubSeq(t, a, b)) = IF a <= b THEN b - a + 1 ELSE 0
           /\ \A i \in 1 .. b - a + 1 : SubSeq(t, a, b)[i] = t[a + i - 1]
<1>1. Len(t) \in Nat /\ a \in Int /\ b \in Int
  OBVIOUS
<1>2. \A i \in a .. b : t[i] \in V
  BY <1>1
<1> QED
  BY <1>1, <1>2, SubSeqProperties

(* Where a line is inserted: behind all that are not after it. *)
IsPlace(t, line, n) ==
    /\ \A i \in 1 .. n : ~Before(line, t[i])
    /\ \A i \in n + 1 .. Len(t) : Before(line, t[i])

LEMMA PlaceExists ==
    ASSUME NEW t \in Texts, NEW line \in Lines, IsOrdered(t)
    PROVE  \E n \in 0 .. Len(t) : IsPlace(t, line, n)
<1>1. Len(t) \in Nat /\ DOMAIN t = 1 .. Len(t) /\ \A i \in 1 .. Len(t) : t[i] \in Lines
  BY DEF Texts
<1> DEFINE later == {i \in 1 .. Len(t) : Before(line, t[i])}
<1>2. CASE later = {}
  <2>1. IsPlace(t, line, Len(t))
    BY <1>1, <1>2 DEF IsPlace
  <2> QED
    BY <1>1, <2>1
<1>3. CASE later # {}
  <2>1. later \in SUBSET Nat
    OBVIOUS
  <2>2. PICK m \in later : \A i \in later : ~ (i < m)
    <3> HIDE DEF later
    <3> QED
      BY <1>3, <2>1, SmallestExists
  <2>3. m \in 1 .. Len(t) /\ Before(line, t[m])
    OBVIOUS
  <2>4. \A i \in 1 .. m - 1 : ~Before(line, t[i])
    BY <1>1, <2>2, <2>3
  <2>5. ASSUME NEW i \in m .. Len(t) PROVE Before(line, t[i])
    <3>1. i \in 1 .. Len(t)
      BY <1>1, <2>3
    <3>2. CASE i = m
      BY <2>3, <3>2
    <3>3. CASE i # m
      <4>1. ~Before(t[i], t[m])
        BY <1>1, <2>3, <3>1, <3>3 DEF IsOrdered
      <4>2. t[i] = t[m] \/ Before(t[m], t[i])
        BY <1>1, <2>3, <3>1, <4>1, LinesAreOrdered
      <4> QED
        BY <1>1, <2>3, <3>1, <4>2, LinesAreOrdered
    <3> QED
      BY <3>2, <3>3
  <2>6. m - 1 \in 0 .. Len(t) /\ (m - 1) + 1 = m
    BY <1>1, <2>3
  <2>7. IsPlace(t, line, m - 1)
    BY <2>4, <2>5, <2>6 DEF IsPlace
  <2> QED
    BY <2>6, <2>7
<1> QED
  BY <1>2, <1>3

LEMMA InsertedIs ==
    ASSUME NEW t \in Texts, NEW line \in Lines, IsOrdered(t)
    PROVE  \E n \in 0 .. Len(t) :
              /\ IsPlace(t, line, n)
              /\ Inserted(t, line) =
                    [i \in 1 .. Len(t) + 1 |->
                        IF i <= n THEN t[i] ELSE IF i = n + 1 THEN line ELSE t[i - 1]]
<1> DEFINE n == CHOOSE n \in 0 .. Len(t) : IsPlace(t, line, n)
<1>1. n \in 0 .. Len(t) /\ IsPlace(t, line, n)
  BY PlaceExists
<1>2. Inserted(t, line) = InsertAt(t, n + 1, line)
  BY DEF Inserted, IsPlace
<1> HIDE DEF n
<1>3. Len(t) \in Nat /\ n \in Nat /\ n <= Len(t) /\ (n + 1) - 1 = n
  BY <1>1 DEF Texts
<1> DEFINE a == SubSeq(t, 1, n)
           c == SubSeq(t, n + 1, Len(t))
           one == <<line>>
<1>4. /\ a \in Texts /\ Len(a) = n /\ \A i \in 1 .. n : a[i] = t[i]
      /\ c \in Texts /\ Len(c) = Len(t) - n
      /\ \A i \in 1 .. Len(t) - n : c[i] = t[n + i]
  <2>1. n \in 0 .. Len(t) /\ Len(t) \in 0 .. Len(t) /\ 1 \in Nat \ {0} /\ n + 1 \in Nat \ {0}
    BY <1>3
  <2>2. /\ a \in Texts /\ Len(a) = (IF 1 <= n THEN n - 1 + 1 ELSE 0)
        /\ \A i \in 1 .. n - 1 + 1 : a[i] = t[1 + i - 1]
    BY <2>1, SliceIs DEF Texts
  <2>3. /\ c \in Texts
        /\ Len(c) = (IF n + 1 <= Len(t) THEN Len(t) - (n + 1) + 1 ELSE 0)
        /\ \A i \in 1 .. Len(t) - (n + 1) + 1 : c[i] = t[(n + 1) + i - 1]
    BY <2>1, SliceIs DEF Texts
  <2> HIDE DEF a, c
  <2> QED
    BY <1>3, <2>2, <2>3
<1>5. Inserted(t, line) = (a \o one) \o c
  BY <1>2, <1>3 DEF InsertAt
<1>6. one \in Texts /\ Len(one) = 1 /\ one[1] = line
  BY DEF Texts
<1> HIDE DEF a, c, one
<1>7. /\ a \o one \in Texts /\ Len(a \o one) = n + 1
      /\ \A i \in 1 .. n + 1 : (a \o one)[i] = IF i <= n THEN t[i] ELSE line
  <2>1. /\ a \o one \in Seq(Lines) /\ Len(a \o one) = Len(a) + Len(one)
        /\ \A i \in 1 .. Len(a) + Len(one) :
              (a \o one)[i] = IF i <= Len(a) THEN a[i] ELSE one[i - Len(a)]
    BY <1>4, <1>6, ConcatProperties DEF Texts
  <2> QED
    BY <1>3, <1>4, <1>6, <2>1 DEF Texts
<1> DEFINE whole == (a \o one) \o c
<1>8. /\ whole \in Texts /\ Len(whole) = Len(t) + 1
      /\ \A i \in 1 .. Len(t) + 1 : whole[i] =
            IF i <= n THEN t[i] ELSE IF i = n + 1 THEN line ELSE t[i - 1]
  <2> DEFINE b == a \o one
  <2> HIDE DEF b
  <2>0. b \in Texts /\ Len(b) = n + 1 /\ whole = b \o c
        /\ \A i \in 1 .. n + 1 : b[i] = IF i <= n THEN t[i] ELSE line
    BY <1>7 DEF b
  <2> HIDE DEF whole
  <2>1. /\ whole \in Seq(Lines) /\ Len(whole) = Len(b) + Len(c)
        /\ \A i \in 1 .. Len(b) + Len(c) :
              whole[i] = IF i <= Len(b) THEN b[i] ELSE c[i - Len(b)]
    <3>1. b \in Seq(Lines) /\ c \in Seq(Lines) /\ whole = b \o c
      BY <1>4, <2>0 DEF Texts
    <3> QED
      BY <3>1, ConcatProperties
  <2>2. whole \in Texts /\ Len(whole) = Len(t) + 1 /\ Len(b) + Len(c) = Len(t) + 1
    BY <1>3, <1>4, <2>0, <2>1 DEF Texts
  <2>3. \A i \in 1 .. Len(t) + 1 : i <= n + 1 => whole[i] = b[i]
    BY <1>3, <2>0, <2>1, <2>2
  <2>4. \A i \in n + 2 .. Len(t) + 1 :
           whole[i] = c[i - (n + 1)] /\ i - (n + 1) \in 1 .. Len(t) - n
           /\ n + (i - (n + 1)) = i - 1
    BY <1>3, <2>0, <2>1, <2>2
  <2>5. \A i \in n + 2 .. Len(t) + 1 : whole[i] = t[i - 1]
    BY <1>4, <2>4
  <2> QED
    BY <1>3, <2>0, <2>2, <2>3, <2>5
<1> HIDE DEF whole
<1>9. whole = [i \in 1 .. Len(t) + 1 |-> whole[i]]
  BY <1>8 DEF Texts
<1>10. whole = [i \in 1 .. Len(t) + 1 |->
                  IF i <= n THEN t[i] ELSE IF i = n + 1 THEN line ELSE t[i - 1]]
  BY <1>8, <1>9
<1> QED
  BY <1>1, <1>5, <1>10 DEF whole

LEMMA InsertedIsOrdered ==
    ASSUME NEW t \in Texts, NEW line \in Lines, IsOrdered(t)
    PROVE  /\ Inserted(t, line) \in Texts
           /\ Len(Inserted(t, line)) = Len(t) + 1
           /\ IsOrdered(Inserted(t, line))
<1>1. PICK n \in 0 .. Len(t) :
          /\ IsPlace(t, line, n)
          /\ Inserted(t, line) =
                [i \in 1 .. Len(t) + 1 |->
                    IF i <= n THEN t[i] ELSE IF i = n + 1 THEN line ELSE t[i - 1]]
  BY InsertedIs
<1>2. Len(t) \in Nat /\ DOMAIN t = 1 .. Len(t) /\ \A i \in 1 .. Len(t) : t[i] \in Lines
  BY DEF Texts
<1> DEFINE u == Inserted(t, line)
<1>3. /\ DOMAIN u = 1 .. Len(t) + 1
      /\ \A i \in 1 .. Len(t) + 1 :
            u[i] = IF i <= n THEN t[i] ELSE IF i = n + 1 THEN line ELSE t[i - 1]
  BY <1>1
<1>4. u \in [1 .. Len(t) + 1 -> Lines]
  BY <1>1, <1>2
<1> HIDE DEF u
<1>5. u \in Texts /\ Len(u) = Len(t) + 1
  BY <1>2, <1>4, TextIs DEF Texts
<1>6. ASSUME NEW i \in 1 .. Len(t) + 1, NEW j \in 1 .. Len(t) + 1, i < j
      PROVE  ~Before(u[j], u[i])
  <2>1. CASE j <= n
    BY <1>1, <1>2, <1>3, <1>6, <2>1 DEF IsOrdered
  <2>2. CASE j = n + 1
    <3>1. u[j] = line /\ u[i] = t[i] /\ i \in 1 .. n
      BY <1>1, <1>2, <1>3, <1>6, <2>2
    <3> QED
      BY <1>1, <3>1 DEF IsPlace
  <2>3. CASE j > n + 1
    <3>1. u[j] = t[j - 1] /\ j - 1 \in 1 .. Len(t) /\ j - 1 \in n + 1 .. Len(t)
      BY <1>1, <1>2, <1>3, <2>3
    <3>2. CASE i <= n
      BY <1>1, <1>2, <1>3, <1>6, <2>3, <3>1, <3>2 DEF IsOrdered
    <3>3. CASE i = n + 1
      <4>1. Before(line, t[j - 1]) /\ u[i] = line
        BY <1>1, <1>2, <1>3, <3>1, <3>3 DEF IsPlace
      <4> QED
        BY <1>2, <3>1, <4>1, LinesAreOrdered
    <3>4. CASE i > n + 1
      <4>1. u[i] = t[i - 1] /\ i - 1 \in 1 .. Len(t) /\ i - 1 < j - 1
        BY <1>1, <1>2, <1>3, <1>6, <2>3, <3>4
      <4> QED
        BY <1>2, <3>1, <4>1 DEF IsOrdered
    <3> QED
      BY <1>1, <1>2, <3>2, <3>3, <3>4
  <2> QED
    BY <1>1, <1>2, <2>1, <2>2, <2>3
<1> QED
  BY <1>3, <1>5, <1>6 DEF IsOrdered, u

-----------------------------------------------------------------------------
(* What std::sort makes of a list of includes.                                *)

(* The steps of the sort: the lines are inserted one by one. *)
LEMMA SortSteps ==
    ASSUME NEW includes \in Texts
    PROVE  \E g : /\ g[0] = <<>>
                  /\ \A k \in 1 .. Len(includes) : g[k] = Inserted(g[k - 1], includes[k])
                  /\ StdSort(includes) = g[Len(includes)]
<1> DEFINE n == Len(includes)
           V == {t \in Texts : IsOrdered(t)}
           step == [x \in V \X (1 .. n) |-> Inserted(x[1], includes[x[2]])]
           Solves(h) ==
              h = [s \in SUBSET (1 .. n) |->
                      IF s = {} THEN <<>> ELSE Inserted(h[s \ {Max(s)}], includes[Max(s)])]
           F == CHOOSE h : Solves(h)
<1>1. n \in Nat /\ DOMAIN includes = 1 .. n /\ \A i \in 1 .. n : includes[i] \in Lines
  BY DEF Texts
<1>2. StdSort(includes) = F[1 .. n]
  <2>1. StdSort(includes) = F[DOMAIN includes]
    BY <1>1 DEF StdSort, FoldLeft, MapThenFoldSet
  <2> HIDE DEF F
  <2> QED
    BY <1>1, <2>1
<1>3. <<>> \in V
  BY DEF Texts, IsOrdered
<1>4. step \in [V \X (1 .. n) -> V]
  <2>1. \A x \in V \X (1 .. n) : Inserted(x[1], includes[x[2]]) \in V
    BY <1>1, InsertedIsOrdered
  <2> QED
    BY <2>1
<1>5. Solves(F)
  <2> HIDE DEF n, V
  <2>1. PICK h \in [SUBSET (1 .. n) -> V] : Unfolds(h, n, <<>>, step)
    <3> HIDE DEF step
    <3> QED
      BY <1>1, <1>3, <1>4, FoldHasSolution DEF n
  <2>2. ASSUME NEW s \in SUBSET (1 .. n)
        PROVE  h[s] = IF s = {} THEN <<>>
                      ELSE Inserted(h[s \ {Max(s)}], includes[Max(s)])
    <3>1. h[s] = IF s = {} THEN <<>> ELSE step[<<h[s \ {Max(s)}], Max(s)>>]
      BY <2>1 DEF Unfolds
    <3>2. CASE s # {}
      <4>1. Max(s) \in 1 .. n
        BY <1>1, <3>2, MaxExists DEF n
      <4>2. h[s \ {Max(s)}] \in V
        BY <2>1
      <4> QED
        BY <3>1, <3>2, <4>1, <4>2
    <3> QED
      BY <3>1, <3>2
  <2> DEFINE g == [s \in SUBSET (1 .. n) |->
                     IF s = {} THEN <<>> ELSE Inserted(h[s \ {Max(s)}], includes[Max(s)])]
  <2>3. \A s \in SUBSET (1 .. n) : h[s] = g[s]
    BY <2>2
  <2>4. h = [s \in SUBSET (1 .. n) |-> h[s]] /\ g = [s \in SUBSET (1 .. n) |-> g[s]]
    BY <2>1
  <2>5. h = g
    <3> HIDE DEF g
    <3> QED
      BY <2>3, <2>4, Zenon
  <2>6. Solves(h)
    BY <2>5
  <2> HIDE DEF Solves
  <2> QED
    BY <2>6
<1> HIDE DEF F
<1> DEFINE g == [k \in 0 .. n |-> F[1 .. k]]
<1>6. g[0] = <<>>
  <2>1. 1 .. 0 = {} /\ {} \in SUBSET (1 .. n) /\ 0 \in 0 .. n
    BY <1>1
  <2>2. F[{}] = <<>>
    BY <1>5, <2>1
  <2> QED
    BY <2>1, <2>2
<1>7. ASSUME NEW k \in 1 .. n PROVE g[k] = Inserted(g[k - 1], includes[k])
  <2>1. k \in 0 .. n /\ k - 1 \in 0 .. n
    BY <1>1
  <2>2. /\ Max(1 .. k) = k /\ (1 .. k) \ {k} = 1 .. k - 1
        /\ 1 .. k # {} /\ 1 .. k \in SUBSET (1 .. n)
    BY <1>1, PrefixIs
  <2>3. F[1 .. k] = Inserted(F[(1 .. k) \ {Max(1 .. k)}], includes[Max(1 .. k)])
    BY <1>5, <2>2
  <2> QED
    BY <2>1, <2>2, <2>3
<1>8. StdSort(includes) = g[n]
  BY <1>1, <1>2
<1> HIDE DEF g
<1> QED
  BY <1>6, <1>7, <1>8

(* u is t in another order. *)
Rearranges(p, n, t, u) ==
    /\ p \in [1 .. n -> 1 .. n]
    /\ \A i, j \in 1 .. n : p[i] = p[j] => i = j
    /\ \A j \in 1 .. n : \E i \in 1 .. n : p[i] = j
    /\ u = [i \in 1 .. n |-> t[p[i]]]

(* The last of k places moves to place n + 1. *)
Shift(n, k) == [i \in 1 .. k |-> IF i <= n THEN i ELSE IF i = n + 1 THEN k ELSE i - 1]

LEMMA ShiftIs ==
    ASSUME NEW k \in Nat, NEW n \in 0 .. k - 1
    PROVE  /\ \A i \in 1 .. k : Shift(n, k)[i] \in 1 .. k
           /\ \A i, j \in 1 .. k : Shift(n, k)[i] = Shift(n, k)[j] => i = j
           /\ \A j \in 1 .. k : \E i \in 1 .. k : Shift(n, k)[i] = j
<1>1. \A i \in 1 .. k : Shift(n, k)[i] = IF i <= n THEN i ELSE IF i = n + 1 THEN k ELSE i - 1
  BY DEF Shift
<1>2. ASSUME NEW j \in 1 .. k PROVE \E i \in 1 .. k : Shift(n, k)[i] = j
  <2>1. CASE j <= n
    BY <1>1, <2>1
  <2>2. CASE j = k
    <3>1. n + 1 \in 1 .. k
      OBVIOUS
    <3> QED
      BY <1>1, <2>2, <3>1
  <2>3. CASE j > n /\ j # k
    <3>1. j + 1 \in 1 .. k /\ ~ (j + 1 <= n) /\ j + 1 # n + 1 /\ (j + 1) - 1 = j
      BY <2>3
    <3> QED
      BY <1>1, <3>1
  <2> QED
    BY <2>1, <2>2, <2>3
<1> QED
  BY <1>1, <1>2

LEMMA InsertedRearranges ==
    ASSUME NEW includes \in Texts, NEW k \in 1 .. Len(includes),
           NEW t \in Texts, IsOrdered(t),
           NEW p, Rearranges(p, k - 1, includes, t)
    PROVE  \E q : Rearranges(q, k, includes, Inserted(t, includes[k]))
<1>0. k \in Nat /\ k - 1 \in Nat /\ (k - 1) + 1 = k
  BY DEF Texts
<1>1. includes[k] \in Lines
  BY DEF Texts
<1>2. Len(t) = k - 1
  <2>1. DOMAIN t = 1 .. k - 1 /\ DOMAIN t = 1 .. Len(t) /\ Len(t) \in Nat
    BY DEF Rearranges, Texts
  <2> QED
    BY <1>0, <2>1
<1>3. PICK n \in 0 .. Len(t) :
         Inserted(t, includes[k]) =
            [i \in 1 .. Len(t) + 1 |->
                IF i <= n THEN t[i] ELSE IF i = n + 1 THEN includes[k] ELSE t[i - 1]]
  BY <1>1, InsertedIs
<1>4. n \in 0 .. k - 1
  BY <1>2
<1> DEFINE r == [i \in 1 .. k |-> IF i = k THEN k ELSE p[i]]
           w == Shift(n, k)
           q == [i \in 1 .. k |-> r[w[i]]]
<1>5. /\ \A i \in 1 .. k - 1 : p[i] \in 1 .. k - 1
      /\ \A i \in 1 .. k - 1 : t[i] = includes[p[i]]
      /\ \A i, j \in 1 .. k - 1 : p[i] = p[j] => i = j
      /\ \A j \in 1 .. k - 1 : \E i \in 1 .. k - 1 : p[i] = j
  BY DEF Rearranges
<1>6. /\ \A i \in 1 .. k : w[i] \in 1 .. k
      /\ \A i, j \in 1 .. k : w[i] = w[j] => i = j
      /\ \A j \in 1 .. k : \E i \in 1 .. k : w[i] = j
  BY <1>0, <1>4, ShiftIs
<1>7. \A i \in 1 .. k : i = k \/ i \in 1 .. k - 1
  BY <1>0
<1>8. \A i \in 1 .. k - 1 : i \in 1 .. k /\ i # k
  BY <1>0
<1>9. r[k] = k /\ k \in 1 .. k /\ \A i \in 1 .. k - 1 : r[i] = p[i]
  BY <1>0, <1>8
<1>10. /\ \A i \in 1 .. k : r[i] \in 1 .. k
       /\ \A i, j \in 1 .. k : r[i] = r[j] => i = j
       /\ \A j \in 1 .. k : \E i \in 1 .. k : r[i] = j
  <2> HIDE DEF r
  <2>1. \A i \in 1 .. k : r[i] \in 1 .. k
    BY <1>5, <1>7, <1>8, <1>9, Zenon
  <2>2. \A i, j \in 1 .. k : r[i] = r[j] => i = j
    <3> SUFFICES ASSUME NEW i \in 1 .. k, NEW j \in 1 .. k, r[i] = r[j] PROVE i = j
      OBVIOUS
    <3>1. CASE i = k
      BY <1>5, <1>7, <1>8, <1>9, <3>1, Zenon
    <3>2. CASE j = k
      BY <1>5, <1>7, <1>8, <1>9, <3>2, Zenon
    <3>3. CASE i \in 1 .. k - 1 /\ j \in 1 .. k - 1
      BY <1>5, <1>9, <3>3, Zenon
    <3> QED
      BY <1>7, <3>1, <3>2, <3>3, Zenon
  <2>3. ASSUME NEW j \in 1 .. k PROVE \E i \in 1 .. k : r[i] = j
    BY <1>5, <1>7, <1>8, <1>9, Zenon
  <2> QED
    BY <2>1, <2>2, <2>3
<1>11. \A i \in 1 .. k : q[i] = r[w[i]]
  OBVIOUS
<1>12. \A i \in 1 .. k : includes[q[i]] =
          IF i <= n THEN t[i] ELSE IF i = n + 1 THEN includes[k] ELSE t[i - 1]
  <2> SUFFICES ASSUME NEW i \in 1 .. k
               PROVE  includes[r[w[i]]] =
                         IF i <= n THEN t[i] ELSE IF i = n + 1 THEN includes[k] ELSE t[i - 1]
    BY <1>11
  <2>1. w[i] = IF i <= n THEN i ELSE IF i = n + 1 THEN k ELSE i - 1
    BY DEF Shift
  <2> HIDE DEF r, w
  <2>2. CASE i <= n
    <3>1. i \in 1 .. k - 1 /\ w[i] = i
      BY <1>0, <1>4, <2>1, <2>2
    <3>2. r[i] = p[i] /\ t[i] = includes[p[i]]
      BY <1>5, <1>9, <3>1
    <3>3. includes[r[w[i]]] = t[i]
      BY <3>1, <3>2
    <3> QED
      BY <2>2, <3>3
  <2>3. CASE i = n + 1
    <3>1. w[i] = k /\ ~ (i <= n)
      BY <1>4, <2>1, <2>3
    <3> QED
      BY <1>9, <2>3, <3>1
  <2>4. CASE ~ (i <= n) /\ i # n + 1
    <3>1. w[i] = i - 1 /\ i - 1 \in 1 .. k - 1
      BY <1>0, <1>4, <2>1, <2>4
    <3>2. includes[r[w[i]]] = t[i - 1]
      BY <1>5, <1>9, <3>1
    <3> QED
      BY <2>4, <3>2
  <2> QED
    BY <2>2, <2>3, <2>4
<1>13. Inserted(t, includes[k]) = [i \in 1 .. k |-> includes[q[i]]]
  <2>1. Len(t) + 1 = k
    BY <1>0, <1>2
  <2> HIDE DEF q
  <2> QED
    BY <1>3, <1>12, <2>1
<1>14. q \in [1 .. k -> 1 .. k]
  <2> HIDE DEF r, w
  <2> QED
    BY <1>6, <1>10
<1>15. /\ \A i, j \in 1 .. k : q[i] = q[j] => i = j
       /\ \A j \in 1 .. k : \E i \in 1 .. k : q[i] = j
  <2> HIDE DEF r, w, q
  <2>1. ASSUME NEW i \in 1 .. k, NEW j \in 1 .. k, q[i] = q[j] PROVE i = j
    <3>1. w[i] \in 1 .. k /\ w[j] \in 1 .. k /\ r[w[i]] = r[w[j]]
      BY <1>6, <1>11, <2>1
    <3>2. w[i] = w[j]
      BY <1>10, <3>1
    <3> QED
      BY <1>6, <3>2
  <2>2. ASSUME NEW j \in 1 .. k PROVE \E i \in 1 .. k : q[i] = j
    <3>1. PICK l \in 1 .. k : r[l] = j
      BY <1>10
    <3>2. PICK i \in 1 .. k : w[i] = l
      BY <1>6
    <3>3. q[i] = j
      BY <1>11, <3>1, <3>2
    <3> QED
      BY <3>3
  <2> QED
    BY <2>1, <2>2
<1> HIDE DEF q
<1> QED
  BY <1>13, <1>14, <1>15 DEF Rearranges

LEMMA SortingIs ==
    ASSUME NEW includes \in Texts
    PROVE  /\ StdSort(includes) \in Texts
           /\ IsOrdered(StdSort(includes))
           /\ \E p : Rearranges(p, Len(includes), includes, StdSort(includes))
<1>1. PICK g : /\ g[0] = <<>>
               /\ \A k \in 1 .. Len(includes) : g[k] = Inserted(g[k - 1], includes[k])
               /\ StdSort(includes) = g[Len(includes)]
  BY SortSteps
<1> DEFINE S == {k \in 0 .. Len(includes) :
                    /\ g[k] \in Texts /\ IsOrdered(g[k])
                    /\ \E p : Rearranges(p, k, includes, g[k])}
<1>2. Len(includes) \in Nat /\ \A i \in 1 .. Len(includes) : includes[i] \in Lines
  BY DEF Texts
<1>3. 0 \in S
  <2>1. g[0] \in Texts /\ IsOrdered(g[0])
    BY <1>1 DEF Texts, IsOrdered
  <2>2. Rearranges(<<>>, 0, includes, g[0])
    BY <1>1 DEF Rearranges
  <2> QED
    BY <1>2, <2>1, <2>2
<1>4. ASSUME NEW k \in 1 .. Len(includes), k - 1 \in S PROVE k \in S
  <2>1. /\ g[k - 1] \in Texts /\ IsOrdered(g[k - 1])
        /\ \E p : Rearranges(p, k - 1, includes, g[k - 1])
    BY <1>4
  <2>2. g[k] = Inserted(g[k - 1], includes[k])
    BY <1>1
  <2>3. g[k] \in Texts /\ IsOrdered(g[k])
    BY <1>2, <2>1, <2>2, InsertedIsOrdered
  <2>4. \E p : Rearranges(p, k, includes, g[k])
    BY <2>1, <2>2, InsertedRearranges
  <2>5. k \in 0 .. Len(includes)
    BY <1>2
  <2> QED
    BY <2>3, <2>4, <2>5
<1>5. Len(includes) \in S
  <2>1. Len(includes) \in 0 .. Len(includes)
    BY <1>2
  <2> HIDE DEF S
  <2> QED
    BY <1>2, <1>3, <1>4, <2>1, UpTo
<1> QED
  BY <1>1, <1>5

-----------------------------------------------------------------------------
(* The include of the file's own header goes to the front.                    *)

(* A list of includes, with the line own in front and without its copies. *)
InFront(own, t) ==
    FoldLeft(LAMBDA out, line : Skipping(own, out, line), <<own>>, t)

(* Its steps. *)
LEMMA SkipSteps ==
    ASSUME NEW t \in Texts, NEW own \in Lines
    PROVE  \E g : /\ g[0] = <<own>>
                  /\ \A k \in 1 .. Len(t) : g[k] = Skipping(own, g[k - 1], t[k])
                  /\ InFront(own, t) = g[Len(t)]
<1> DEFINE n == Len(t)
           V == Texts
           step == [x \in V \X (1 .. n) |-> Skipping(own, x[1], t[x[2]])]
           Solves(h) ==
              h = [s \in SUBSET (1 .. n) |->
                      IF s = {} THEN <<own>>
                      ELSE Skipping(own, h[s \ {Max(s)}], t[Max(s)])]
           F == CHOOSE h : Solves(h)
<1>1. n \in Nat /\ DOMAIN t = 1 .. n /\ \A i \in 1 .. n : t[i] \in Lines
  BY DEF Texts
<1>2. InFront(own, t) = F[1 .. n]
  <2>1. InFront(own, t) = F[DOMAIN t]
    BY <1>1 DEF InFront, FoldLeft, MapThenFoldSet
  <2> HIDE DEF F
  <2> QED
    BY <1>1, <2>1
<1>3. <<own>> \in V
  BY DEF Texts
<1>4. step \in [V \X (1 .. n) -> V]
  <2>1. \A x \in V \X (1 .. n) : Skipping(own, x[1], t[x[2]]) \in V
    BY <1>1, AppendProperties DEF Texts, Skipping
  <2> QED
    BY <2>1
<1>5. Solves(F)
  <2> HIDE DEF n, V
  <2>1. PICK h \in [SUBSET (1 .. n) -> V] : Unfolds(h, n, <<own>>, step)
    <3> HIDE DEF step
    <3> QED
      BY <1>1, <1>3, <1>4, FoldHasSolution DEF n
  <2>2. ASSUME NEW s \in SUBSET (1 .. n)
        PROVE  h[s] = IF s = {} THEN <<own>>
                      ELSE Skipping(own, h[s \ {Max(s)}], t[Max(s)])
    <3>1. h[s] = IF s = {} THEN <<own>> ELSE step[<<h[s \ {Max(s)}], Max(s)>>]
      BY <2>1 DEF Unfolds
    <3>2. CASE s # {}
      <4>1. Max(s) \in 1 .. n
        BY <1>1, <3>2, MaxExists DEF n
      <4>2. h[s \ {Max(s)}] \in V
        BY <2>1
      <4> QED
        BY <3>1, <3>2, <4>1, <4>2
    <3> QED
      BY <3>1, <3>2
  <2> DEFINE g == [s \in SUBSET (1 .. n) |->
                     IF s = {} THEN <<own>>
                     ELSE Skipping(own, h[s \ {Max(s)}], t[Max(s)])]
  <2>3. \A s \in SUBSET (1 .. n) : h[s] = g[s]
    BY <2>2
  <2>4. h = [s \in SUBSET (1 .. n) |-> h[s]] /\ g = [s \in SUBSET (1 .. n) |-> g[s]]
    BY <2>1
  <2>5. h = g
    <3> HIDE DEF g
    <3> QED
      BY <2>3, <2>4, Zenon
  <2>6. Solves(h)
    BY <2>5
  <2> HIDE DEF Solves
  <2> QED
    BY <2>6
<1> HIDE DEF F
<1> DEFINE g == [k \in 0 .. n |-> F[1 .. k]]
<1>6. g[0] = <<own>>
  <2>1. 1 .. 0 = {} /\ {} \in SUBSET (1 .. n) /\ 0 \in 0 .. n
    BY <1>1
  <2>2. F[{}] = <<own>>
    BY <1>5, <2>1
  <2> QED
    BY <2>1, <2>2
<1>7. ASSUME NEW k \in 1 .. n
      PROVE  g[k] = Skipping(own, g[k - 1], t[k])
  <2>1. k \in 0 .. n /\ k - 1 \in 0 .. n
    BY <1>1
  <2>2. /\ Max(1 .. k) = k /\ (1 .. k) \ {k} = 1 .. k - 1
        /\ 1 .. k # {} /\ 1 .. k \in SUBSET (1 .. n)
    BY <1>1, PrefixIs
  <2>3. F[1 .. k] = Skipping(own, F[(1 .. k) \ {Max(1 .. k)}], t[Max(1 .. k)])
    BY <1>5, <2>2
  <2> QED
    BY <2>1, <2>2, <2>3
<1>8. InFront(own, t) = g[n]
  BY <1>1, <1>2
<1> HIDE DEF g
<1> QED
  BY <1>6, <1>7, <1>8

(* What is in front comes from some place c of the list, and the others come, *)
(* in their order, from the places q[2], q[3], ...                             *)
FrontFrom(q, c, own, t, k, out) ==
    /\ out \in Texts /\ Len(out) \in Nat \ {0}
    /\ q \in [1 .. Len(out) -> 1 .. Len(t)]
    /\ q[1] = c
    /\ \A i \in 1 .. Len(out) : out[i] = t[q[i]]
    /\ \A i \in 2 .. Len(out) : q[i] <= k /\ out[i] # own
    /\ \A i, j \in 2 .. Len(out) : i < j => q[i] < q[j]
    /\ \A l \in 1 .. k : t[l] = own \/ \E i \in 2 .. Len(out) : q[i] = l

LEMMA SkippingKeeps ==
    ASSUME NEW t \in Texts, NEW c \in 1 .. Len(t), NEW own, own = t[c],
           NEW k \in 1 .. Len(t), NEW out, NEW q, FrontFrom(q, c, own, t, k - 1, out)
    PROVE  \E r : FrontFrom(r, c, own, t, k, Skipping(own, out, t[k]))
<1>0. k \in Nat /\ k - 1 \in Nat /\ Len(t) \in Nat /\ t[k] \in Lines
  BY DEF Texts
<1>1. /\ out \in Texts /\ Len(out) \in Nat \ {0}
      /\ \A i \in 1 .. Len(out) : q[i] \in 1 .. Len(t) /\ out[i] = t[q[i]]
      /\ q[1] = c
      /\ \A i \in 2 .. Len(out) : q[i] <= k - 1 /\ out[i] # own
      /\ \A i, j \in 2 .. Len(out) : i < j => q[i] < q[j]
      /\ \A l \in 1 .. k - 1 : t[l] = own \/ \E i \in 2 .. Len(out) : q[i] = l
  BY DEF FrontFrom
<1>2. \A l \in 1 .. k : l = k \/ l \in 1 .. k - 1
  BY <1>0
<1>3. CASE t[k] = own
  <2>1. Skipping(own, out, t[k]) = out
    BY <1>3 DEF Skipping
  <2>2. \A i \in 2 .. Len(out) : q[i] <= k
    BY <1>0, <1>1
  <2>3. \A l \in 1 .. k : t[l] = own \/ \E i \in 2 .. Len(out) : q[i] = l
    BY <1>1, <1>2, <1>3
  <2>4. FrontFrom(q, c, own, t, k, out)
    BY <2>2, <2>3 DEF FrontFrom
  <2> QED
    BY <2>1, <2>4
<1>4. CASE t[k] # own
  <2> DEFINE m == Len(out)
             new == Append(out, t[k])
             r == [i \in 1 .. m + 1 |-> IF i = m + 1 THEN k ELSE q[i]]
  <2>1. Skipping(own, out, t[k]) = new
    BY <1>4 DEF Skipping
  <2>2. /\ new \in Texts /\ Len(new) = m + 1 /\ new[m + 1] = t[k]
        /\ \A i \in 1 .. m : new[i] = out[i]
    BY <1>0, <1>1, AppendProperties DEF Texts
  <2>3. m \in Nat /\ m >= 1
    BY <1>1
  <2> HIDE DEF new, m
  <2>4. r[m + 1] = k /\ \A i \in 1 .. m : r[i] = q[i]
    BY <2>3
  <2>5. \A i \in 1 .. m + 1 : i = m + 1 \/ i \in 1 .. m
    BY <2>3
  <2>6. \A i \in 2 .. m + 1 : i = m + 1 \/ i \in 2 .. m
    BY <2>3
  <2>7. r \in [1 .. m + 1 -> 1 .. Len(t)]
    <3>1. \A i \in 1 .. m : q[i] \in 1 .. Len(t)
      BY <1>1 DEF m
    <3> QED
      BY <2>5, <3>1
  <2> HIDE DEF r
  <2>8. r[1] = c
    BY <1>1, <2>3, <2>4
  <2>9. \A i \in 1 .. m + 1 : new[i] = t[r[i]]
    BY <1>1, <2>2, <2>4, <2>5 DEF m
  <2>10. \A i \in 2 .. m : i \in 1 .. m /\ q[i] \in Int /\ q[i] <= k - 1
    BY <1>1, <2>3 DEF m
  <2>11. \A i \in 2 .. m + 1 : r[i] <= k /\ new[i] # own
    <3>1. \A i \in 2 .. m : r[i] <= k /\ new[i] # own
      <4>1. \A i \in 2 .. m : out[i] # own
        BY <1>1 DEF m
      <4> QED
        BY <1>0, <2>2, <2>4, <2>10, <4>1
    <3> QED
      BY <1>0, <1>4, <2>2, <2>4, <2>6, <3>1
  <2>12. ASSUME NEW i \in 2 .. m + 1, NEW j \in 2 .. m + 1, i < j PROVE r[i] < r[j]
    <3>1. i \in 2 .. m
      BY <2>3, <2>12
    <3>2. CASE j = m + 1
      BY <1>0, <2>4, <2>10, <3>1, <3>2
    <3>3. CASE j \in 2 .. m
      <4>1. q[i] < q[j]
        BY <1>1, <2>12, <3>1, <3>3 DEF m
      <4> QED
        BY <2>4, <2>10, <3>1, <3>3, <4>1
    <3> QED
      BY <2>6, <3>2, <3>3
  <2>13. ASSUME NEW l \in 1 .. k PROVE t[l] = own \/ \E i \in 2 .. m + 1 : r[i] = l
    <3>1. CASE l = k
      <4>1. m + 1 \in 2 .. m + 1
        BY <2>3
      <4> QED
        BY <2>4, <3>1, <4>1
    <3>2. CASE l \in 1 .. k - 1
      <4>1. t[l] = own \/ \E i \in 2 .. m : q[i] = l
        BY <1>1, <3>2 DEF m
      <4>2. \A i \in 2 .. m : i \in 2 .. m + 1 /\ r[i] = q[i]
        BY <2>3, <2>4, <2>10
      <4> QED
        BY <4>1, <4>2
    <3> QED
      BY <1>2, <3>1, <3>2
  <2>14. m + 1 \in Nat \ {0}
    BY <2>3
  <2>15. FrontFrom(r, c, own, t, k, new)
    BY <2>2, <2>7, <2>8, <2>9, <2>11, <2>12, <2>13, <2>14 DEF FrontFrom
  <2> QED
    BY <2>1, <2>15
<1> QED
  BY <1>3, <1>4

LEMMA InFrontIs ==
    ASSUME NEW t \in Texts, NEW c \in 1 .. Len(t), NEW own, own = t[c]
    PROVE  \E q : FrontFrom(q, c, own, t, Len(t), InFront(own, t))
<1>0. Len(t) \in Nat /\ own \in Lines
  BY DEF Texts
<1>1. PICK g : /\ g[0] = <<own>>
               /\ \A k \in 1 .. Len(t) : g[k] = Skipping(own, g[k - 1], t[k])
               /\ InFront(own, t) = g[Len(t)]
  BY <1>0, SkipSteps
<1> DEFINE S == {k \in 0 .. Len(t) : \E q : FrontFrom(q, c, own, t, k, g[k])}
<1>2. 0 \in S
  <2> DEFINE q == [i \in 1 .. 1 |-> c]
  <2>1. <<own>> \in Texts /\ Len(<<own>>) = 1 /\ <<own>>[1] = own
    BY <1>0 DEF Texts
  <2>2. q \in [1 .. 1 -> 1 .. Len(t)] /\ q[1] = c
    OBVIOUS
  <2>3. 2 .. 1 = {} /\ 1 .. 0 = {} /\ \A i \in 1 .. 1 : i = 1
    OBVIOUS
  <2> HIDE DEF q
  <2>4. FrontFrom(q, c, own, t, 0, <<own>>)
    BY <2>1, <2>2, <2>3 DEF FrontFrom
  <2> QED
    BY <1>0, <1>1, <2>4
<1>3. ASSUME NEW k \in 1 .. Len(t), k - 1 \in S PROVE k \in S
  <2>1. PICK q : FrontFrom(q, c, own, t, k - 1, g[k - 1])
    BY <1>3
  <2>2. \E r : FrontFrom(r, c, own, t, k, Skipping(own, g[k - 1], t[k]))
    BY <2>1, SkippingKeeps
  <2>3. k \in 0 .. Len(t)
    BY <1>0
  <2> QED
    BY <1>1, <2>2, <2>3
<1>4. Len(t) \in S
  <2>1. Len(t) \in 0 .. Len(t)
    BY <1>0
  <2> HIDE DEF S
  <2> QED
    BY <1>0, <1>2, <1>3, <2>1, UpTo
<1> QED
  BY <1>1, <1>4

-----------------------------------------------------------------------------
(* A block that is sorted gets shorter, or nearer to its order.               *)
IncludeLines == {line \in Lines : IsInclude(line)}
Blocks == Seq(IncludeLines)

OneOwn(f, t) ==
    \A i, j \in DOMAIN t : t[i][1] = Own[f] /\ t[j][1] = Own[f] => t[i] = t[j]

SameLines(t, u) ==
    /\ \A i \in DOMAIN t : \E j \in DOMAIN u : u[j] = t[i]
    /\ \A j \in DOMAIN u : \E i \in DOMAIN t : t[i] = u[j]

LEMMA BlockIs ==
    ASSUME NEW t \in Blocks
    PROVE  /\ t \in Texts /\ Len(t) \in Nat /\ DOMAIN t = 1 .. Len(t)
           /\ \A i \in 1 .. Len(t) : t[i] \in Lines /\ IsInclude(t[i])
<1>1. t \in Texts
  BY SeqMonotonic DEF Blocks, Texts, IncludeLines
<1> QED
  BY <1>1 DEF Blocks, IncludeLines

LEMMA RankIs ==
    ASSUME NEW f, NEW line \in Lines, IsInclude(line)
    PROVE  /\ Rank(f, line) \in Lines
           /\ line[1] # Own[f] => Rank(f, line) = line
           /\ line[1] # Own[f] => Rank(f, line)[1] > 0
           /\ line[1] = Own[f] => Rank(f, line)[1] = 0
  BY DEF Rank, Lines, IsInclude

LEMMA RankTellsApart ==
    ASSUME NEW f, NEW t \in Blocks, OneOwn(f, t), NEW i \in 1 .. Len(t), NEW j \in 1 .. Len(t),
           Rank(f, t[i]) = Rank(f, t[j])
    PROVE  t[i] = t[j]
<1>1. /\ t[i] \in Lines /\ IsInclude(t[i]) /\ i \in DOMAIN t
      /\ t[j] \in Lines /\ IsInclude(t[j]) /\ j \in DOMAIN t
  BY BlockIs
<1>2. CASE t[i][1] = Own[f] /\ t[j][1] = Own[f]
  BY <1>1, <1>2 DEF OneOwn
<1>3. CASE t[i][1] # Own[f] /\ t[j][1] # Own[f]
  BY <1>1, <1>3, RankIs
<1>4. CASE t[i][1] = Own[f] /\ t[j][1] # Own[f]
  <2>1. Rank(f, t[i])[1] = 0 /\ Rank(f, t[j])[1] > 0
    BY <1>1, <1>4, RankIs
  <2> QED
    BY <2>1
<1>5. CASE t[i][1] # Own[f] /\ t[j][1] = Own[f]
  <2>1. Rank(f, t[j])[1] = 0 /\ Rank(f, t[i])[1] > 0
    BY <1>1, <1>5, RankIs
  <2> QED
    BY <2>1
<1> QED
  BY <1>2, <1>3, <1>4, <1>5

(* The lines of t in their order: where the two differ first, the line that   *)
(* is there in t would have to be before, and there is one too few of it.     *)
LEMMA OrderedIsCloser ==
    ASSUME NEW f, NEW t \in Blocks, OneOwn(f, t),
           NEW u \in Texts, Len(u) = Len(t), u # t,
           NEW p, \A i \in 1 .. Len(t) : p[i] \in 1 .. Len(t) /\ u[i] = t[p[i]],
           \A i, j \in 1 .. Len(t) : p[i] = p[j] => i = j,
           \A i, j \in 1 .. Len(t) : i < j => ~Before(Rank(f, u[j]), Rank(f, u[i]))
    PROVE  Closer(f, u, t)
<1> DEFINE n == Len(t)
<1>0. n \in Nat /\ t \in Texts /\ \A i \in 1 .. n : t[i] \in Lines /\ IsInclude(t[i])
  BY BlockIs
<1> DEFINE D == {i \in 1 .. n : u[i] # t[i]}
<1>1. D # {}
  <2> SUFFICES ASSUME \A i \in 1 .. n : u[i] = t[i] PROVE FALSE
    OBVIOUS
  <2> QED
    BY <1>0, SeqEqual DEF Texts
<1>2. PICK i \in D : \A j \in D : ~ (j < i)
  <2>1. D \in SUBSET Nat
    OBVIOUS
  <2> HIDE DEF D
  <2> QED
    BY <1>1, <2>1, SmallestExists
<1>3. i \in 1 .. n /\ u[i] # t[i]
  OBVIOUS
<1>4. \A j \in 1 .. i - 1 : u[j] = t[j] /\ j \in 1 .. n
  BY <1>0, <1>2, <1>3
<1> HIDE DEF D
<1>5. p[i] \in 1 .. n /\ u[i] = t[p[i]]
  BY <1>3
<1>6. Rank(f, u[i]) # Rank(f, t[i])
  BY <1>3, <1>5, RankTellsApart
<1>7. Rank(f, u[i]) \in Lines /\ Rank(f, t[i]) \in Lines
  BY <1>0, <1>3, <1>5, RankIs
<1>8. CASE Before(Rank(f, u[i]), Rank(f, t[i]))
  <2>1. i \in DOMAIN u
    BY <1>0, <1>3 DEF Texts
  <2> QED
    BY <1>4, <1>8, <2>1 DEF Closer
<1>9. CASE Before(Rank(f, t[i]), Rank(f, u[i]))
  <2> DEFINE A == {k \in 1 .. n : u[k] = t[i]}
             B == {k \in 1 .. n : t[k] = t[i]}
  <2>1. ASSUME NEW k \in A PROVE k < i
    <3>1. k \in 1 .. n /\ u[k] = t[i]
      OBVIOUS
    <3>2. k # i
      BY <1>3, <3>1
    <3>3. ~ (i < k)
      BY <1>3, <1>9, <3>1
    <3> QED
      BY <1>0, <1>3, <3>1, <3>2, <3>3
  <2>2. A \subseteq B
    <3> SUFFICES ASSUME NEW k \in A PROVE k \in B
      OBVIOUS
    <3>1. k \in 1 .. i - 1
      BY <1>0, <1>3, <2>1
    <3> QED
      BY <1>4, <3>1
  <2>3. i \in B /\ i \notin A
    BY <1>3
  <2>4. IsFiniteSet(1 .. n) /\ IsFiniteSet(A) /\ IsFiniteSet(B)
    <3>1. IsFiniteSet(1 .. n)
      BY <1>0, FS_Interval
    <3>2. A \in SUBSET (1 .. n) /\ B \in SUBSET (1 .. n)
      OBVIOUS
    <3> QED
      BY <3>1, <3>2, FS_Subset
  <2>5. \A b \in 1 .. n : \E a \in 1 .. n : p[a] = b
    <3> DEFINE r == [k \in 1 .. n |-> p[k]]
    <3>1. r \in Injection(1 .. n, 1 .. n)
      BY DEF Injection, IsInjective
    <3>2. r \in Surjection(1 .. n, 1 .. n)
      <4> HIDE DEF r
      <4> QED
        BY <2>4, <3>1, FS_Injection
    <3> QED
      BY <3>2 DEF Surjection
  <2> DEFINE back == [b \in B |-> CHOOSE a \in 1 .. n : p[a] = b]
  <2>6. \A b \in B : back[b] \in 1 .. n /\ p[back[b]] = b
    BY <2>5
  <2>7. back \in Injection(B, A)
    <3>1. \A b \in B : back[b] \in A
      BY <2>6
    <3>2. back = [b \in B |-> back[b]]
      OBVIOUS
    <3> HIDE DEF back, A, B
    <3>3. back \in [B -> A]
      BY <3>1, <3>2
    <3> QED
      BY <2>6, <3>3 DEF Injection, IsInjective
  <2> HIDE DEF A, B, back
  <2>8. Cardinality(B) <= Cardinality(A)
    BY <2>4, <2>7, FS_Injection
  <2>9. Cardinality(A) <= Cardinality(B) /\ (Cardinality(B) = Cardinality(A) => B = A)
    BY <2>2, <2>4, FS_Subset
  <2>10. Cardinality(A) \in Nat /\ Cardinality(B) \in Nat
    BY <2>4, FS_CardinalityType
  <2> QED
    BY <2>3, <2>8, <2>9, <2>10
<1> QED
  BY <1>6, <1>7, <1>8, <1>9, LinesAreOrdered

LEMMA LastOwnIs ==
    ASSUME NEW f, NEW includes \in Blocks
    PROVE  \/ /\ LastOwn(f, includes) = 0
              /\ \A i \in 1 .. Len(includes) : includes[i][1] # Own[f]
           \/ /\ LastOwn(f, includes) \in 1 .. Len(includes)
              /\ includes[LastOwn(f, includes)][1] = Own[f]
<1> DEFINE I == {i \in 1 .. Len(includes) : includes[i][1] = Own[f]}
<1>1. LastOwn(f, includes) = IF I # {} THEN Max(I) ELSE 0
  BY DEF LastOwn, SelectLastInSeq
<1>2. Len(includes) \in Nat /\ I \in SUBSET (1 .. Len(includes))
  BY BlockIs
<1>3. CASE I = {}
  BY <1>1, <1>3
<1>4. CASE I # {}
  <2>1. Max(I) \in I
    <3> HIDE DEF I
    <3> QED
      BY <1>2, <1>4, MaxExists
  <2> QED
    BY <1>1, <1>4, <2>1
<1> QED
  BY <1>3, <1>4

(* The first m places of q are different. *)
OneToOne(q, m) == \A i, j \in 1 .. m : q[i] = q[j] => i = j

LEMMA FrontIsInjective ==
    ASSUME NEW t \in Texts, NEW c \in 1 .. Len(t), NEW own, own = t[c],
           NEW q, NEW out, FrontFrom(q, c, own, t, Len(t), out)
    PROVE  OneToOne(q, Len(out)) /\ Len(out) <= Len(t)
<1>0. Len(t) \in Nat /\ Len(out) \in Nat
  BY DEF Texts, FrontFrom
<1>1. /\ \A i \in 1 .. Len(out) : q[i] \in 1 .. Len(t) /\ out[i] = t[q[i]]
      /\ q[1] = c
      /\ \A i \in 2 .. Len(out) : out[i] # own
      /\ \A i, j \in 2 .. Len(out) : i < j => q[i] < q[j]
  BY DEF FrontFrom
<1>2. \A i \in 1 .. Len(out) : i = 1 \/ i \in 2 .. Len(out)
  BY <1>0
<1>3. ASSUME NEW i \in 1 .. Len(out), NEW j \in 1 .. Len(out), q[i] = q[j], i < j
      PROVE  FALSE
  <2>1. j \in 2 .. Len(out)
    BY <1>0, <1>2, <1>3
  <2>2. CASE i = 1
    <3>1. out[j] = t[c]
      BY <1>1, <1>3, <2>2
    <3> QED
      BY <1>1, <2>1, <3>1
  <2>3. CASE i \in 2 .. Len(out)
    <3>1. q[i] < q[j] /\ q[i] \in Int
      BY <1>1, <1>3, <2>1, <2>3
    <3> QED
      BY <1>3, <3>1
  <2> QED
    BY <1>2, <2>2, <2>3
<1>4. ASSUME NEW i \in 1 .. Len(out), NEW j \in 1 .. Len(out), q[i] = q[j] PROVE i = j
  <2>1. ~ (i < j) /\ ~ (j < i)
    BY <1>3, <1>4
  <2> QED
    BY <1>0, <2>1
<1>5. q \in Injection(1 .. Len(out), 1 .. Len(t))
  BY <1>4 DEF Injection, IsInjective, FrontFrom
<1>6. /\ IsFiniteSet(1 .. Len(t))
      /\ Cardinality(1 .. Len(t)) = Len(t) /\ Cardinality(1 .. Len(out)) = Len(out)
  <2>1. ASSUME NEW k \in Nat
        PROVE  IsFiniteSet(1 .. k) /\ Cardinality(1 .. k) = IF 1 > k THEN 0 ELSE k - 1 + 1
    <3>1. 1 \in Int /\ k \in Int
      OBVIOUS
    <3> QED
      BY <3>1, FS_Interval
  <2>2. \A k \in Nat : (IF 1 > k THEN 0 ELSE k - 1 + 1) = k
    OBVIOUS
  <2> QED
    BY <1>0, <2>1, <2>2
<1>7. Cardinality(1 .. Len(out)) <= Cardinality(1 .. Len(t))
  BY <1>5, <1>6, FS_Injection
<1>8. OneToOne(q, Len(out))
  BY <1>4 DEF OneToOne
<1> QED
  BY <1>0, <1>6, <1>7, <1>8

(* What Sorted makes of the includes of a block: the same includes, and, if   *)
(* they are not as before, fewer or nearer to their order.                    *)
LEMMA SortedIs ==
    ASSUME NEW f, NEW includes \in Blocks
    PROVE  /\ Sorted(f, includes) \in Texts
           /\ SameLines(includes, Sorted(f, includes))
           /\ OneOwn(f, includes) /\ Sorted(f, includes) # includes
              => Closer(f, Sorted(f, includes), includes)
<1> DEFINE n == Len(includes)
           s == StdSort(includes)
           own == LastOwn(f, includes)
           first == includes[own]
           w == Sorted(f, includes)
<1>0. /\ includes \in Texts /\ n \in Nat /\ DOMAIN includes = 1 .. n
      /\ \A i \in 1 .. n : includes[i] \in Lines /\ IsInclude(includes[i])
  BY BlockIs
<1>1. s \in Texts /\ IsOrdered(s) /\ \E p : Rearranges(p, n, includes, s)
  BY <1>0, SortingIs
<1>2. PICK p : Rearranges(p, n, includes, s)
  BY <1>1
<1>3. DOMAIN s = 1 .. n /\ Len(s) = n
  <2>1. DOMAIN s = 1 .. n
    BY <1>2 DEF Rearranges
  <2> HIDE DEF n, s
  <2>2. Len(s) \in Nat /\ DOMAIN s = 1 .. Len(s)
    BY <1>1 DEF Texts
  <2> QED
    BY <1>0, <2>1, <2>2
<1> HIDE DEF n, s
<1>4. /\ \A i \in 1 .. n : p[i] \in 1 .. n /\ s[i] = includes[p[i]]
      /\ \A i, j \in 1 .. n : p[i] = p[j] => i = j
      /\ \A j \in 1 .. n : \E i \in 1 .. n : p[i] = j
  BY <1>2 DEF Rearranges
<1>5. \A i, j \in 1 .. n : i < j => ~Before(s[j], s[i])
  BY <1>1, <1>3 DEF IsOrdered
<1>6. CASE own = 0
  <2>1. w = s /\ \A i \in 1 .. n : includes[i][1] # Own[f]
    <3>1. \A i \in 1 .. n : includes[i][1] # Own[f]
      <4>1. ~ (own \in 1 .. n)
        BY <1>6
      <4> QED
        BY <4>1, LastOwnIs DEF n
    <3>2. w = s
      BY <1>6 DEF Sorted, s
    <3> QED
      BY <3>1, <3>2
  <2>2. SameLines(includes, s)
    <3>1. \A i \in 1 .. n : \E j \in 1 .. n : s[j] = includes[i]
      BY <1>4
    <3>2. \A j \in 1 .. n : \E i \in 1 .. n : includes[i] = s[j]
      BY <1>4
    <3> QED
      BY <1>0, <1>3, <3>1, <3>2 DEF SameLines
  <2>3. ASSUME OneOwn(f, includes), s # includes PROVE Closer(f, s, includes)
    <3>1. \A i \in 1 .. n : Rank(f, s[i]) = s[i]
      <4> SUFFICES ASSUME NEW i \in 1 .. n PROVE Rank(f, s[i]) = s[i]
        OBVIOUS
      <4>1. p[i] \in 1 .. n /\ s[i] = includes[p[i]]
        BY <1>4
      <4>2. s[i] \in Lines /\ IsInclude(s[i]) /\ s[i][1] # Own[f]
        BY <1>0, <2>1, <4>1
      <4> QED
        BY <4>2, RankIs
    <3>2. \A i, j \in 1 .. n : i < j => ~Before(Rank(f, s[j]), Rank(f, s[i]))
      BY <1>5, <3>1
    <3> QED
      BY <1>1, <1>3, <1>4, <2>3, <3>2, OrderedIsCloser DEF n
  <2> HIDE DEF w
  <2> QED
    BY <1>1, <2>1, <2>2, <2>3 DEF w
<1>7. CASE own # 0
  <2>1. own \in 1 .. n /\ first[1] = Own[f]
    BY <1>7, LastOwnIs DEF n
  <2>2. w = InFront(first, s)
    BY <1>7 DEF Sorted, InFront, s
  <2> HIDE DEF own, first, w
  <2>3. first \in Lines /\ first = includes[own]
    BY <1>0, <2>1 DEF first
  <2>4. PICK c \in 1 .. n : p[c] = own
    BY <1>4, <2>1
  <2>5. first = s[c]
    BY <1>4, <2>3, <2>4
  <2>6. PICK q : FrontFrom(q, c, first, s, n, w)
    BY <1>1, <1>3, <2>2, <2>5, InFrontIs
  <2>7. /\ w \in Texts /\ Len(w) \in Nat /\ Len(w) >= 1
        /\ \A i \in 1 .. Len(w) : q[i] \in 1 .. n /\ w[i] = s[q[i]]
        /\ q[1] = c
        /\ \A i \in 2 .. Len(w) : w[i] # first
        /\ \A i, j \in 2 .. Len(w) : i < j => q[i] < q[j]
        /\ \A l \in 1 .. n : s[l] = first \/ \E i \in 2 .. Len(w) : q[i] = l
    BY <1>3, <2>6 DEF FrontFrom
  <2>8. DOMAIN w = 1 .. Len(w)
    BY <2>7 DEF Texts
  <2>9. (\A i, j \in 1 .. Len(w) : q[i] = q[j] => i = j) /\ Len(w) <= n
    <3>1. s \in Texts /\ Len(s) = n
      BY <1>1, <1>3
    <3>2. c \in 1 .. Len(s) /\ FrontFrom(q, c, first, s, Len(s), w)
      BY <2>6, <3>1
    <3>3. OneToOne(q, Len(w)) /\ Len(w) <= Len(s)
      BY <2>5, <3>1, <3>2, FrontIsInjective
    <3> QED
      BY <3>1, <3>3 DEF OneToOne
  <2>10. 1 \in 1 .. Len(w) /\ w[1] = first /\ \A i \in 2 .. Len(w) : i \in 1 .. Len(w)
    BY <2>5, <2>7
  <2>11. SameLines(includes, w)
    <3>1. ASSUME NEW j \in 1 .. Len(w) PROVE \E i \in 1 .. n : includes[i] = w[j]
      <4>1. q[j] \in 1 .. n /\ w[j] = s[q[j]]
        BY <2>7
      <4>2. p[q[j]] \in 1 .. n /\ s[q[j]] = includes[p[q[j]]]
        BY <1>4, <4>1
      <4> QED
        BY <4>1, <4>2
    <3>2. ASSUME NEW i \in 1 .. n PROVE \E j \in 1 .. Len(w) : w[j] = includes[i]
      <4>1. PICK l \in 1 .. n : p[l] = i
        BY <1>4
      <4>2. s[l] = includes[i]
        BY <1>4, <4>1
      <4>3. s[l] = first \/ \E j \in 2 .. Len(w) : q[j] = l
        BY <2>7
      <4>4. CASE s[l] = first
        BY <2>10, <4>2, <4>4
      <4>5. ASSUME NEW j \in 2 .. Len(w), q[j] = l PROVE \E k \in 1 .. Len(w) : w[k] = includes[i]
        <5>1. j \in 1 .. Len(w) /\ w[j] = s[q[j]]
          BY <2>7, <2>10
        <5> QED
          BY <4>2, <4>5, <5>1
      <4> QED
        BY <4>3, <4>4, <4>5
    <3> QED
      BY <1>0, <2>8, <3>1, <3>2 DEF SameLines
  <2>12. ASSUME OneOwn(f, includes), w # includes PROVE Closer(f, w, includes)
    <3>1. CASE Len(w) < n
      BY <3>1 DEF Closer, n
    <3>2. CASE Len(w) = n
      <4> DEFINE r == [i \in 1 .. n |-> p[q[i]]]
      <4>1. \A i \in 1 .. n : q[i] \in 1 .. n /\ r[i] = p[q[i]]
        BY <2>7, <3>2
      <4> HIDE DEF r
      <4>2. \A i \in 1 .. n : r[i] \in 1 .. n /\ w[i] = includes[r[i]]
        <5> SUFFICES ASSUME NEW i \in 1 .. n
                     PROVE  r[i] \in 1 .. n /\ w[i] = includes[r[i]]
          OBVIOUS
        <5>1. q[i] \in 1 .. n /\ w[i] = s[q[i]]
          BY <2>7, <3>2
        <5> QED
          BY <1>4, <4>1, <5>1
      <4>3. ASSUME NEW i \in 1 .. n, NEW j \in 1 .. n, r[i] = r[j] PROVE i = j
        <5>1. q[i] = q[j]
          BY <1>4, <4>1, <4>3
        <5> QED
          BY <2>9, <3>2, <5>1
      <4>4. \A i \in 1 .. n : w[i] \in Lines /\ IsInclude(w[i])
        BY <1>0, <4>2
      <4>5. \A i \in 2 .. n : i \in 1 .. n /\ w[i][1] # Own[f] /\ Rank(f, w[i]) = w[i]
        <5> SUFFICES ASSUME NEW i \in 2 .. n PROVE i \in 1 .. n /\ w[i][1] # Own[f]
                                                   /\ Rank(f, w[i]) = w[i]
          OBVIOUS
        <5>1. i \in 1 .. n /\ w[i] # first
          BY <2>7, <2>10, <3>2
        <5>2. r[i] \in DOMAIN includes /\ own \in DOMAIN includes
          BY <1>0, <2>1, <4>2, <5>1
        <5>3. w[i][1] # Own[f]
          BY <2>1, <2>3, <2>12, <4>2, <5>1, <5>2 DEF OneOwn
        <5> QED
          BY <4>4, <5>1, <5>3, RankIs
      <4>6. ASSUME NEW i \in 1 .. n, NEW j \in 1 .. n, i < j
            PROVE  ~Before(Rank(f, w[j]), Rank(f, w[i]))
        <5>1. j \in 2 .. n
          BY <1>0, <4>6
        <5>2. CASE i = 1
          <6>1. Rank(f, w[i])[1] = 0
            BY <2>1, <2>3, <2>10, <4>4, <5>2, RankIs
          <6>2. Rank(f, w[j])[1] > 0 /\ Rank(f, w[j]) \in Lines
            BY <4>4, <4>5, <5>1, RankIs
          <6> QED
            BY <6>1, <6>2 DEF Before, Lines
        <5>3. CASE i \in 2 .. n
          <6>1. q[i] < q[j]
            BY <2>7, <3>2, <4>6, <5>1, <5>3
          <6>2. ~Before(w[j], w[i])
            BY <1>5, <2>7, <3>2, <4>1, <6>1
          <6> QED
            BY <4>5, <5>1, <5>3, <6>2
        <5>4. i = 1 \/ i \in 2 .. n
          BY <1>0
        <5> QED
          BY <5>2, <5>3, <5>4
      <4> QED
        BY <2>7, <2>12, <3>2, <4>2, <4>3, <4>6, OrderedIsCloser DEF n
    <3> QED
      BY <1>0, <2>7, <2>9, <3>1, <3>2
  <2> QED
    BY <2>7, <2>11, <2>12 DEF w
<1> QED
  BY <1>6, <1>7

-----------------------------------------------------------------------------
(* The pass over the lines of a file.  L is the set of its includes.          *)
OneOwnIn(f, L) == \A k, l \in L : k[1] = Own[f] /\ l[1] = Own[f] => k = l

IsReplacement(f, L, r) ==
    /\ Len(r.from) \in Nat \ {0}
    /\ SameLines(r.from, r.to)
    /\ OneOwnIn(f, L) => Closer(f, r.to, r.from)

Replacements(f, L) == {r \in [from : Seq(L), to : Seq(L)] : IsReplacement(f, L, r)}

ScanInv(m, scan) ==
    /\ IsFiniteSet(scan.toReplace)
    /\ SameLines(scan.includes, scan.unique)
    /\ m = "CheckSameIncludes" =>
          scan.unique = scan.includes \/ Len(scan.unique) < Len(scan.includes)

Scans(m, f, L) ==
    {scan \in [includes : Seq(L), unique : Seq(L), toReplace : SUBSET Replacements(f, L),
               isEnd : BOOLEAN] : ScanInv(m, scan)}

LEMMA SomeLines ==
    ASSUME NEW L \in SUBSET IncludeLines, NEW t \in Seq(L)
    PROVE  /\ t \in Blocks /\ Len(t) \in Nat /\ DOMAIN t = 1 .. Len(t)
           /\ \A i \in 1 .. Len(t) : t[i] \in L
           /\ \A f : OneOwnIn(f, L) => OneOwn(f, t)
<1>1. t \in Blocks
  BY SeqMonotonic DEF Blocks
<1>2. Len(t) \in Nat /\ DOMAIN t = 1 .. Len(t) /\ \A i \in 1 .. Len(t) : t[i] \in L
  OBVIOUS
<1> QED
  BY <1>1, <1>2 DEF OneOwn, OneOwnIn

LEMMA SameLinesAsBoth ==
    ASSUME NEW t, NEW u, NEW v, SameLines(t, u), SameLines(t, v)
    PROVE  SameLines(u, v)
<1>1. ASSUME NEW i \in DOMAIN u PROVE \E j \in DOMAIN v : v[j] = u[i]
  <2>1. PICK l \in DOMAIN t : t[l] = u[i]
    BY DEF SameLines
  <2> QED
    BY <2>1 DEF SameLines
<1>2. ASSUME NEW j \in DOMAIN v PROVE \E i \in DOMAIN u : u[i] = v[j]
  <2>1. PICK l \in DOMAIN t : t[l] = v[j]
    BY DEF SameLines
  <2> QED
    BY <2>1 DEF SameLines
<1> QED
  BY <1>1, <1>2 DEF SameLines

(* A text with no other lines than a list of some includes. *)
LEMMA SameLinesSame ==
    ASSUME NEW L \in SUBSET IncludeLines, NEW t \in Seq(L), NEW u \in Texts, SameLines(t, u)
    PROVE  u \in Seq(L)
<1>1. Len(u) \in Nat /\ DOMAIN u = 1 .. Len(u) /\ u = [i \in 1 .. Len(u) |-> u[i]]
  BY DEF Texts
<1>2. \A i \in 1 .. Len(u) : u[i] \in L
  BY <1>1, SomeLines DEF SameLines
<1>3. u \in [1 .. Len(u) -> L]
  BY <1>1, <1>2
<1> QED
  BY <1>1, <1>3, TextIs

LEMMA AppendIs ==
    ASSUME NEW V, NEW t \in Seq(V), NEW e \in V
    PROVE  /\ Append(t, e) \in Seq(V) /\ Len(t) \in Nat
           /\ DOMAIN t = 1 .. Len(t)
           /\ Len(Append(t, e)) = Len(t) + 1 /\ DOMAIN Append(t, e) = 1 .. Len(t) + 1
           /\ \A i \in 1 .. Len(t) : Append(t, e)[i] = t[i] /\ i \in 1 .. Len(t) + 1
           /\ Append(t, e)[Len(t) + 1] = e
           /\ Len(t) + 1 \in 1 .. Len(t) + 1
           /\ \A i \in 1 .. Len(t) + 1 : i \in 1 .. Len(t) \/ i = Len(t) + 1
<1>1. Len(t) \in Nat /\ DOMAIN t = 1 .. Len(t)
  OBVIOUS
<1>2. /\ Append(t, e) \in Seq(V) /\ Len(Append(t, e)) = Len(t) + 1
      /\ DOMAIN Append(t, e) = 1 .. Len(t) + 1
      /\ \A i \in 1 .. Len(t) : Append(t, e)[i] = t[i]
      /\ Append(t, e)[Len(t) + 1] = e
  BY AppendProperties, LenProperties
<1>3. /\ \A i \in 1 .. Len(t) : i \in 1 .. Len(t) + 1
      /\ Len(t) + 1 \in 1 .. Len(t) + 1
      /\ \A i \in 1 .. Len(t) + 1 : i \in 1 .. Len(t) \/ i = Len(t) + 1
  BY <1>1
<1> QED
  BY <1>1, <1>2, <1>3

LEMMA AnIncludeIs ==
    ASSUME NEW m, NEW f, NEW L \in SUBSET IncludeLines, NEW scan \in Scans(m, f, L), NEW line \in L
    PROVE  AnInclude(scan, line) \in Scans(m, f, L)
<1> DEFINE a == scan.includes
           u == scan.unique
           b == Append(a, line)
           v == IF Contains(u, line) THEN u ELSE Append(u, line)
           new == AnInclude(scan, line)
<1>1. /\ a \in Seq(L) /\ u \in Seq(L) /\ SameLines(a, u)
      /\ m = "CheckSameIncludes" => u = a \/ Len(u) < Len(a)
  BY DEF Scans, ScanInv
<1>2. /\ new \in [includes : Seq(L), unique : Seq(L), toReplace : SUBSET Replacements(f, L),
                  isEnd : BOOLEAN]
      /\ new.includes = b /\ new.unique = v /\ IsFiniteSet(new.toReplace)
  <2>1. /\ scan \in [includes : Seq(L), unique : Seq(L),
                     toReplace : SUBSET Replacements(f, L), isEnd : BOOLEAN]
        /\ IsFiniteSet(scan.toReplace)
    BY DEF Scans, ScanInv
  <2>2. b \in Seq(L) /\ v \in Seq(L)
    BY <1>1, AppendIs
  <2>3. new = [scan EXCEPT !.isEnd = FALSE, !.includes = b, !.unique = v]
    BY DEF AnInclude
  <2> HIDE DEF a, u, b, v, new
  <2> QED
    BY <2>1, <2>2, <2>3
<1> HIDE DEF a, u, new
<1>3. /\ Len(a) \in Nat /\ DOMAIN a = 1 .. Len(a) /\ DOMAIN b = 1 .. Len(a) + 1
      /\ Len(b) = Len(a) + 1
      /\ \A i \in 1 .. Len(a) : b[i] = a[i] /\ i \in 1 .. Len(a) + 1
      /\ b[Len(a) + 1] = line /\ Len(a) + 1 \in 1 .. Len(a) + 1
      /\ \A i \in 1 .. Len(a) + 1 : i \in 1 .. Len(a) \/ i = Len(a) + 1
  BY <1>1, AppendIs
<1> HIDE DEF b
<1>4. CASE Contains(u, line)
  <2>1. v = u
    BY <1>4
  <2>2. Len(u) \in Nat /\ DOMAIN u = 1 .. Len(u) /\ \E j \in 1 .. Len(u) : u[j] = line
    BY <1>1, <1>4 DEF Contains
  <2>3. SameLines(b, u)
    <3>1. \A i \in 1 .. Len(a) : \E j \in 1 .. Len(u) : u[j] = a[i]
      BY <1>1, <1>3, <2>2 DEF SameLines
    <3>2. \A j \in 1 .. Len(u) : \E i \in 1 .. Len(a) : a[i] = u[j]
      BY <1>1, <1>3, <2>2 DEF SameLines
    <3>3. ASSUME NEW i \in 1 .. Len(a) + 1 PROVE \E j \in 1 .. Len(u) : u[j] = b[i]
      BY <1>3, <2>2, <3>1
    <3>4. ASSUME NEW j \in 1 .. Len(u) PROVE \E i \in 1 .. Len(a) + 1 : b[i] = u[j]
      BY <1>3, <3>2
    <3> QED
      BY <1>3, <2>2, <3>3, <3>4 DEF SameLines
  <2>4. m = "CheckSameIncludes" => Len(u) < Len(b)
    BY <1>1, <1>3, <2>2
  <2>5. ScanInv(m, new)
    BY <1>2, <2>1, <2>3, <2>4 DEF ScanInv
  <2> QED
    BY <1>2, <2>5 DEF Scans, new
<1>5. CASE ~Contains(u, line)
  <2>1. v = Append(u, line)
    BY <1>5
  <2>2. /\ Len(u) \in Nat /\ DOMAIN u = 1 .. Len(u) /\ DOMAIN v = 1 .. Len(u) + 1
        /\ Len(v) = Len(u) + 1
        /\ \A i \in 1 .. Len(u) : v[i] = u[i] /\ i \in 1 .. Len(u) + 1
        /\ v[Len(u) + 1] = line /\ Len(u) + 1 \in 1 .. Len(u) + 1
        /\ \A i \in 1 .. Len(u) + 1 : i \in 1 .. Len(u) \/ i = Len(u) + 1
    BY <1>1, <2>1, AppendIs
  <2> HIDE DEF v
  <2>3. SameLines(b, v)
    <3>1. \A i \in 1 .. Len(a) : \E j \in 1 .. Len(u) : u[j] = a[i]
      BY <1>1, <1>3, <2>2 DEF SameLines
    <3>2. \A j \in 1 .. Len(u) : \E i \in 1 .. Len(a) : a[i] = u[j]
      BY <1>1, <1>3, <2>2 DEF SameLines
    <3>3. ASSUME NEW i \in 1 .. Len(a) + 1 PROVE \E j \in 1 .. Len(u) + 1 : v[j] = b[i]
      BY <1>3, <2>2, <3>1
    <3>4. ASSUME NEW j \in 1 .. Len(u) + 1 PROVE \E i \in 1 .. Len(a) + 1 : b[i] = v[j]
      BY <1>3, <2>2, <3>2
    <3> QED
      BY <1>3, <2>2, <3>3, <3>4 DEF SameLines
  <2>4. m = "CheckSameIncludes" => v = b \/ Len(v) < Len(b)
    <3>1. CASE u = a
      BY <2>1, <3>1 DEF b
    <3>2. CASE Len(u) < Len(a)
      BY <1>3, <2>2, <3>2
    <3> QED
      BY <1>1, <3>1, <3>2
  <2>5. ScanInv(m, new)
    BY <1>2, <2>3, <2>4 DEF ScanInv
  <2> QED
    BY <1>2, <2>5 DEF Scans, new
<1> QED
  BY <1>4, <1>5

(* A list that has been added to the replacements starts anew. *)
LEMMA EndOfBlockIs ==
    ASSUME NEW m \in OfIncludes, NEW f, NEW L \in SUBSET IncludeLines, NEW scan \in Scans(m, f, L)
    PROVE  EndOfBlock(m, f, scan) \in Scans(m, f, L)
<1> DEFINE a == scan.includes
           u == scan.unique
           wanted == IF m = "SortIncludes" THEN Sorted(f, a) ELSE u
           ended == [scan EXCEPT !.isEnd = TRUE]
           r == [from |-> a, to |-> wanted]
<1>1. /\ a \in Seq(L) /\ u \in Seq(L) /\ SameLines(a, u)
      /\ scan.toReplace \in SUBSET Replacements(f, L) /\ IsFiniteSet(scan.toReplace)
      /\ m = "CheckSameIncludes" => u = a \/ Len(u) < Len(a)
  BY DEF Scans, ScanInv
<1>2. a \in Blocks /\ Len(a) \in Nat /\ OneOwnIn(f, L) => OneOwn(f, a)
  BY <1>1, SomeLines
<1>3. ended \in Scans(m, f, L) /\ ended.includes = a /\ ended.unique = u
      /\ ended.toReplace = scan.toReplace /\ ended.isEnd = TRUE
  BY DEF Scans, ScanInv
<1>4. Len(a) \in Nat /\ a \in Texts /\ DOMAIN a = 1 .. Len(a)
  BY <1>1, SomeLines, BlockIs
<1>5. CASE Len(a) < 2
  <2>1. EndOfBlock(m, f, scan) = ended
    BY <1>5 DEF EndOfBlock
  <2> QED
    BY <1>3, <2>1
<1>6. CASE Len(a) >= 2 /\ wanted # a
  <2>1. wanted \in Seq(L) /\ SameLines(a, wanted)
    BY <1>1, <1>2, SortedIs, SameLinesSame, SomeLines
  <2>2. OneOwnIn(f, L) => Closer(f, wanted, a)
    <3>1. CASE m = "SortIncludes"
      BY <1>1, <1>6, <3>1, SortedIs, SomeLines
    <3>2. CASE m = "CheckSameIncludes"
      BY <1>1, <1>6, <3>2 DEF Closer
    <3> QED
      BY <3>1, <3>2 DEF OfIncludes
  <2>3. EndOfBlock(m, f, scan) = Cleared([ended EXCEPT !.toReplace = @ \union {r}])
    BY <1>4, <1>6 DEF EndOfBlock
  <2> HIDE DEF wanted, a, u, ended
  <2>4. r \in Replacements(f, L)
    <3>1. Len(a) \in Nat \ {0}
      BY <1>4, <1>6
    <3> QED
      BY <1>1, <2>1, <2>2, <3>1 DEF Replacements, IsReplacement
  <2> HIDE DEF r
  <2>5. IsFiniteSet(scan.toReplace \union {r})
    BY <1>1, FS_AddElement
  <2>6. EndOfBlock(m, f, scan) =
           [includes |-> <<>>, unique |-> <<>>, toReplace |-> scan.toReplace \union {r},
            isEnd |-> TRUE]
    <3>1. ended \in [includes : Seq(L), unique : Seq(L), toReplace : SUBSET Replacements(f, L),
                     isEnd : BOOLEAN]
      BY <1>3 DEF Scans
    <3> QED
      BY <1>3, <2>3, <3>1 DEF Cleared
  <2>7. SameLines(<<>>, <<>>) /\ <<>> \in Seq(L)
    BY DEF SameLines
  <2>8. scan.toReplace \union {r} \in SUBSET Replacements(f, L)
    BY <1>1, <2>4
  <2> DEFINE new == EndOfBlock(m, f, scan)
  <2>9. new \in [includes : Seq(L), unique : Seq(L), toReplace : SUBSET Replacements(f, L),
                 isEnd : BOOLEAN]
    BY <2>6, <2>7, <2>8
  <2>10. ScanInv(m, new)
    BY <2>5, <2>6, <2>7 DEF ScanInv
  <2> HIDE DEF new
  <2> QED
    BY <2>9, <2>10 DEF Scans, new
<1>7. CASE Len(a) >= 2 /\ wanted = a /\ m = "SortIncludes"
  <2> DEFINE s == StdSort(a)
  <2>1. EndOfBlock(m, f, scan) = [ended EXCEPT !.includes = StdSort(@)]
    BY <1>4, <1>7 DEF EndOfBlock
  <2>2. s \in Texts /\ \E p : Rearranges(p, Len(a), a, s)
    BY <1>4, SortingIs
  <2>3. SameLines(a, s)
    <3>1. PICK p : Rearranges(p, Len(a), a, s)
      BY <2>2
    <3> HIDE DEF a, s
    <3>2. /\ DOMAIN s = 1 .. Len(a)
          /\ \A i \in 1 .. Len(a) : p[i] \in 1 .. Len(a) /\ s[i] = a[p[i]]
          /\ \A j \in 1 .. Len(a) : \E i \in 1 .. Len(a) : p[i] = j
      BY <3>1 DEF Rearranges
    <3>3. \A i \in 1 .. Len(a) : \E j \in 1 .. Len(a) : s[j] = a[i]
      BY <3>2
    <3>4. \A j \in 1 .. Len(a) : \E i \in 1 .. Len(a) : a[i] = s[j]
      BY <3>2
    <3> QED
      BY <1>4, <3>2, <3>3, <3>4 DEF SameLines
  <2>4. s \in Seq(L)
    BY <1>1, <2>2, <2>3, SameLinesSame
  <2> HIDE DEF s
  <2>5. SameLines(s, u)
    BY <1>1, <2>3, SameLinesAsBoth
  <2>6. EndOfBlock(m, f, scan) = [ended EXCEPT !.includes = s]
    BY <1>3, <2>1 DEF s
  <2> HIDE DEF a, u, ended
  <2>7. ended \in [includes : Seq(L), unique : Seq(L), toReplace : SUBSET Replacements(f, L),
                   isEnd : BOOLEAN]
    BY <1>3 DEF Scans
  <2> QED
    BY <1>1, <1>3, <1>7, <2>4, <2>5, <2>6, <2>7 DEF Scans, ScanInv
<1>8. CASE Len(a) >= 2 /\ wanted = a /\ m # "SortIncludes"
  <2>1. EndOfBlock(m, f, scan) = ended
    BY <1>4, <1>8 DEF EndOfBlock
  <2> QED
    BY <1>3, <2>1
<1> QED
  BY <1>4, <1>5, <1>6, <1>7, <1>8

(* The pass over some lines. *)
Pass(m, f, lines) ==
    FoldLeft(LAMBDA scan, line : NextLine(m, f, scan, line), FirstScan, lines)

LEMMA FirstScanIs ==
    ASSUME NEW m, NEW f, NEW L
    PROVE  FirstScan \in Scans(m, f, L)
<1>1. IsFiniteSet({}) /\ <<>> \in Seq(L)
  BY FS_EmptySet
<1> QED
  BY <1>1 DEF FirstScan, Scans, ScanInv, SameLines

LEMMA NextLineIs ==
    ASSUME NEW m \in OfIncludes, NEW f, NEW L \in SUBSET IncludeLines, NEW scan \in Scans(m, f, L),
           NEW line, IsInclude(line) => line \in L
    PROVE  NextLine(m, f, scan, line) \in Scans(m, f, L)
  BY AnIncludeIs, EndOfBlockIs DEF NextLine

(* Its steps. *)
LEMMA PassSteps ==
    ASSUME NEW m \in OfIncludes, NEW f, NEW L \in SUBSET IncludeLines,
           NEW t \in Texts, \A i \in 1 .. Len(t) : IsInclude(t[i]) => t[i] \in L
    PROVE  \E g : /\ g[0] = FirstScan
                  /\ \A k \in 1 .. Len(t) : g[k] = NextLine(m, f, g[k - 1], t[k])
                  /\ Pass(m, f, t) = g[Len(t)]
<1> DEFINE n == Len(t)
           V == Scans(m, f, L)
           step == [x \in V \X (1 .. n) |-> NextLine(m, f, x[1], t[x[2]])]
           Solves(h) ==
              h = [s \in SUBSET (1 .. n) |->
                      IF s = {} THEN FirstScan
                      ELSE NextLine(m, f, h[s \ {Max(s)}], t[Max(s)])]
           F == CHOOSE h : Solves(h)
<1>1. n \in Nat /\ DOMAIN t = 1 .. n
  BY DEF Texts
<1>2. Pass(m, f, t) = F[1 .. n]
  <2>1. Pass(m, f, t) = F[DOMAIN t]
    BY <1>1 DEF Pass, FoldLeft, MapThenFoldSet
  <2> HIDE DEF F
  <2> QED
    BY <1>1, <2>1
<1>3. FirstScan \in V
  BY FirstScanIs
<1>4. step \in [V \X (1 .. n) -> V]
  <2>1. \A x \in V \X (1 .. n) : NextLine(m, f, x[1], t[x[2]]) \in V
    BY NextLineIs
  <2> QED
    BY <2>1
<1>5. Solves(F)
  <2> HIDE DEF n, V
  <2>1. PICK h \in [SUBSET (1 .. n) -> V] : Unfolds(h, n, FirstScan, step)
    <3> HIDE DEF step
    <3> QED
      BY <1>1, <1>3, <1>4, FoldHasSolution DEF n
  <2>2. ASSUME NEW s \in SUBSET (1 .. n)
        PROVE  h[s] = IF s = {} THEN FirstScan
                      ELSE NextLine(m, f, h[s \ {Max(s)}], t[Max(s)])
    <3>1. h[s] = IF s = {} THEN FirstScan ELSE step[<<h[s \ {Max(s)}], Max(s)>>]
      BY <2>1 DEF Unfolds
    <3>2. CASE s # {}
      <4>1. Max(s) \in 1 .. n
        BY <1>1, <3>2, MaxExists DEF n
      <4>2. h[s \ {Max(s)}] \in V
        BY <2>1
      <4> QED
        BY <3>1, <3>2, <4>1, <4>2
    <3> QED
      BY <3>1, <3>2
  <2> DEFINE g == [s \in SUBSET (1 .. n) |->
                     IF s = {} THEN FirstScan
                     ELSE NextLine(m, f, h[s \ {Max(s)}], t[Max(s)])]
  <2>3. \A s \in SUBSET (1 .. n) : h[s] = g[s]
    BY <2>2
  <2>4. h = [s \in SUBSET (1 .. n) |-> h[s]] /\ g = [s \in SUBSET (1 .. n) |-> g[s]]
    BY <2>1
  <2>5. h = g
    <3> HIDE DEF g
    <3> QED
      BY <2>3, <2>4, Zenon
  <2>6. Solves(h)
    BY <2>5
  <2> HIDE DEF Solves
  <2> QED
    BY <2>6
<1> HIDE DEF F
<1> DEFINE g == [k \in 0 .. n |-> F[1 .. k]]
<1>6. g[0] = FirstScan
  <2>1. 1 .. 0 = {} /\ {} \in SUBSET (1 .. n) /\ 0 \in 0 .. n
    BY <1>1
  <2>2. F[{}] = FirstScan
    BY <1>5, <2>1
  <2> QED
    BY <2>1, <2>2
<1>7. ASSUME NEW k \in 1 .. n
      PROVE  g[k] = NextLine(m, f, g[k - 1], t[k])
  <2>1. k \in 0 .. n /\ k - 1 \in 0 .. n
    BY <1>1
  <2>2. /\ Max(1 .. k) = k /\ (1 .. k) \ {k} = 1 .. k - 1
        /\ 1 .. k # {} /\ 1 .. k \in SUBSET (1 .. n)
    BY <1>1, PrefixIs
  <2>3. F[1 .. k] = NextLine(m, f, F[(1 .. k) \ {Max(1 .. k)}], t[Max(1 .. k)])
    BY <1>5, <2>2
  <2> QED
    BY <2>1, <2>2, <2>3
<1>8. Pass(m, f, t) = g[n]
  BY <1>1, <1>2
<1> HIDE DEF g
<1> QED
  BY <1>6, <1>7, <1>8

LEMMA PassIs ==
    ASSUME NEW m \in OfIncludes, NEW f, NEW L \in SUBSET IncludeLines,
           NEW t \in Texts, \A i \in 1 .. Len(t) : IsInclude(t[i]) => t[i] \in L
    PROVE  Pass(m, f, t) \in Scans(m, f, L)
<1>0. Len(t) \in Nat
  BY DEF Texts
<1>1. PICK g : /\ g[0] = FirstScan
               /\ \A k \in 1 .. Len(t) : g[k] = NextLine(m, f, g[k - 1], t[k])
               /\ Pass(m, f, t) = g[Len(t)]
  BY PassSteps
<1> DEFINE S == {k \in 0 .. Len(t) : g[k] \in Scans(m, f, L)}
<1>2. 0 \in S
  BY <1>0, <1>1, FirstScanIs
<1>3. ASSUME NEW k \in 1 .. Len(t), k - 1 \in S PROVE k \in S
  <2>1. g[k - 1] \in Scans(m, f, L)
    BY <1>3
  <2>2. k \in 0 .. Len(t)
    BY <1>0
  <2> QED
    BY <1>1, <2>1, <2>2, NextLineIs
<1>4. Len(t) \in S
  <2>1. Len(t) \in 0 .. Len(t)
    BY <1>0
  <2> HIDE DEF S
  <2> QED
    BY <1>0, <1>2, <1>3, <2>1, UpTo
<1> QED
  BY <1>1, <1>4

(* What is to be replaced in a text: a list of includes by the same includes. *)
IncludesOf(text) == {line \in IncludeLines : \E i \in DOMAIN text : text[i] = line}

LEMMA ScannedIs ==
    ASSUME NEW m \in OfIncludes, NEW f, NEW text \in Texts
    PROVE  /\ IsFiniteSet(Scanned(m, f, text).toReplace)
           /\ Scanned(m, f, text).toReplace \subseteq Replacements(f, IncludesOf(text))
<1> DEFINE L == IncludesOf(text)
           t == Append(text, Other)
<1>1. L \in SUBSET IncludeLines
  BY DEF IncludesOf
<1>2. Other \in Lines /\ ~IsInclude(Other)
  BY DEF Other, Lines, Tails, IsInclude
<1>3. /\ t \in Texts /\ Len(t) = Len(text) + 1 /\ DOMAIN text = 1 .. Len(text)
      /\ \A i \in 1 .. Len(text) : t[i] = text[i] /\ text[i] \in Lines
      /\ t[Len(text) + 1] = Other
      /\ \A i \in 1 .. Len(text) + 1 : i \in 1 .. Len(text) \/ i = Len(text) + 1
  BY <1>2, AppendIs DEF Texts
<1>4. \A i \in 1 .. Len(t) : IsInclude(t[i]) => t[i] \in L
  BY <1>2, <1>3 DEF IncludesOf, IncludeLines
<1>5. Scanned(m, f, text) = Pass(m, f, t)
  BY DEF Scanned, Pass
<1> HIDE DEF L, t
<1>6. Pass(m, f, t) \in Scans(m, f, L)
  BY <1>1, <1>3, <1>4, PassIs
<1> QED
  BY <1>5, <1>6 DEF Scans, ScanInv, L

-----------------------------------------------------------------------------
(* What replacing a block does to a text.                                     *)

(* R links the places of the lines of one text to those of the same lines in  *)
(* the other, so that lines that are no includes split both in the same way.  *)
Links(R, old, new) ==
    /\ \A i \in DOMAIN old : \E j \in DOMAIN new : j \in R[i]
    /\ \A j \in DOMAIN new : \E i \in DOMAIN old : j \in R[i]
    /\ \A i \in DOMAIN old, j \in DOMAIN new : j \in R[i] => new[j] = old[i]
    /\ \A i, k \in DOMAIN old, j, l \in DOMAIN new :
          j \in R[i] /\ l \in R[k] /\ ~IsInclude(old[i])
          => (i < k <=> j < l) /\ (k < i <=> l < j)

Linked(old, new) == \E R : Links(R, old, new)

NotFarther(f, new, old) == new = old \/ Closer(f, new, old)

LEMMA LinkedSame ==
    ASSUME NEW t \in Texts
    PROVE  Linked(t, t)
<1> DEFINE R == [i \in DOMAIN t |-> {i}]
<1>1. \A i, j \in DOMAIN t : j \in R[i] <=> i = j
  OBVIOUS
<1> HIDE DEF R
<1>2. Links(R, t, t)
  BY <1>1 DEF Links
<1> QED
  BY <1>2 DEF Linked

LEMMA LinkedTwice ==
    ASSUME NEW a \in Texts, NEW b \in Texts, NEW c \in Texts, Linked(a, b), Linked(b, c)
    PROVE  Linked(a, c)
<1>1. PICK P : Links(P, a, b)
  BY DEF Linked
<1>2. PICK Q : Links(Q, b, c)
  BY DEF Linked
<1> DEFINE R == [i \in DOMAIN a |->
                   {j \in DOMAIN c : \E m \in DOMAIN b : m \in P[i] /\ j \in Q[m]}]
<1>3. \A i \in DOMAIN a, j \in DOMAIN c :
         j \in R[i] <=> \E m \in DOMAIN b : m \in P[i] /\ j \in Q[m]
  OBVIOUS
<1> HIDE DEF R
<1>4. ASSUME NEW i \in DOMAIN a PROVE \E j \in DOMAIN c : j \in R[i]
  <2>1. PICK m \in DOMAIN b : m \in P[i]
    BY <1>1 DEF Links
  <2>2. PICK j \in DOMAIN c : j \in Q[m]
    BY <1>2 DEF Links
  <2> QED
    BY <1>3, <2>1, <2>2
<1>5. ASSUME NEW j \in DOMAIN c PROVE \E i \in DOMAIN a : j \in R[i]
  <2>1. PICK m \in DOMAIN b : j \in Q[m]
    BY <1>2 DEF Links
  <2>2. PICK i \in DOMAIN a : m \in P[i]
    BY <1>1 DEF Links
  <2> QED
    BY <1>3, <2>1, <2>2
<1>6. ASSUME NEW i \in DOMAIN a, NEW j \in DOMAIN c, j \in R[i] PROVE c[j] = a[i]
  <2>1. PICK m \in DOMAIN b : m \in P[i] /\ j \in Q[m]
    BY <1>3, <1>6
  <2>2. b[m] = a[i]
    BY <1>1, <2>1 DEF Links
  <2>3. c[j] = b[m]
    BY <1>2, <2>1 DEF Links
  <2> QED
    BY <2>2, <2>3
<1>7. ASSUME NEW i \in DOMAIN a, NEW k \in DOMAIN a, NEW j \in DOMAIN c, NEW l \in DOMAIN c,
             j \in R[i], l \in R[k], ~IsInclude(a[i])
      PROVE  (i < k <=> j < l) /\ (k < i <=> l < j)
  <2>1. PICK m \in DOMAIN b : m \in P[i] /\ j \in Q[m]
    BY <1>3, <1>7
  <2>2. PICK n \in DOMAIN b : n \in P[k] /\ l \in Q[n]
    BY <1>3, <1>7
  <2>3. b[m] = a[i]
    BY <1>1, <2>1 DEF Links
  <2>4. (i < k <=> m < n) /\ (k < i <=> n < m)
    BY <1>1, <1>7, <2>1, <2>2 DEF Links
  <2>5. (m < n <=> j < l) /\ (n < m <=> l < j)
    BY <1>2, <1>7, <2>1, <2>2, <2>3 DEF Links
  <2> QED
    BY <2>4, <2>5
<1>8. Links(R, a, c)
  BY <1>4, <1>5, <1>6, <1>7 DEF Links
<1> QED
  BY <1>8 DEF Linked

LEMMA ConcatIs ==
    ASSUME NEW V, NEW a \in Seq(V), NEW b \in Seq(V)
    PROVE  /\ a \o b \in Seq(V)
           /\ Len(a) \in Nat /\ DOMAIN a = 1 .. Len(a)
           /\ Len(b) \in Nat /\ DOMAIN b = 1 .. Len(b)
           /\ Len(a \o b) = Len(a) + Len(b) /\ DOMAIN (a \o b) = 1 .. Len(a) + Len(b)
           /\ \A i \in 1 .. Len(a) : i \in 1 .. Len(a) + Len(b) /\ (a \o b)[i] = a[i]
           /\ \A i \in 1 .. Len(b) :
                 Len(a) + i \in 1 .. Len(a) + Len(b) /\ (a \o b)[Len(a) + i] = b[i]
           /\ \A i \in 1 .. Len(a) + Len(b) :
                 i \in 1 .. Len(a) \/ \E j \in 1 .. Len(b) : i = Len(a) + j
<1>1. /\ Len(a) \in Nat /\ DOMAIN a = 1 .. Len(a)
      /\ Len(b) \in Nat /\ DOMAIN b = 1 .. Len(b)
  OBVIOUS
<1>2. /\ a \o b \in Seq(V) /\ Len(a \o b) = Len(a) + Len(b)
      /\ DOMAIN (a \o b) = 1 .. Len(a) + Len(b)
      /\ \A i \in 1 .. Len(a) + Len(b) : (a \o b)[i] =
                     IF i <= Len(a) THEN a[i] ELSE b[i - Len(a)]
  BY ConcatProperties, LenProperties
<1>3. /\ \A i \in 1 .. Len(a) : i \in 1 .. Len(a) + Len(b) /\ i <= Len(a)
      /\ \A i \in 1 .. Len(b) : /\ Len(a) + i \in 1 .. Len(a) + Len(b)
                                /\ ~ (Len(a) + i <= Len(a))
                                /\ (Len(a) + i) - Len(a) = i
  BY <1>1
<1>4. ASSUME NEW i \in 1 .. Len(a) + Len(b), i \notin 1 .. Len(a)
      PROVE  \E j \in 1 .. Len(b) : i = Len(a) + j
  <2>1. i - Len(a) \in 1 .. Len(b) /\ i = Len(a) + (i - Len(a))
    BY <1>1, <1>4
  <2> QED
    BY <2>1
<1> QED
  BY <1>1, <1>2, <1>3, <1>4

LEMMA LinkedConcat ==
    ASSUME NEW a \in Texts, NEW b \in Texts, NEW c \in Texts, NEW d \in Texts,
           Linked(a, b), Linked(c, d)
    PROVE  Linked(a \o c, b \o d)
<1>1. PICK P : Links(P, a, b)
  BY DEF Linked
<1>2. PICK Q : Links(Q, c, d)
  BY DEF Linked
<1> DEFINE A == Len(a)
           B == Len(b)
           C == Len(c)
           D == Len(d)
<1>3. /\ A \in Nat /\ B \in Nat /\ C \in Nat /\ D \in Nat
      /\ DOMAIN a = 1 .. A /\ DOMAIN b = 1 .. B /\ DOMAIN c = 1 .. C /\ DOMAIN d = 1 .. D
      /\ DOMAIN (a \o c) = 1 .. A + C /\ DOMAIN (b \o d) = 1 .. B + D
      /\ \A i \in 1 .. A : i \in 1 .. A + C /\ (a \o c)[i] = a[i]
      /\ \A i \in 1 .. C : A + i \in 1 .. A + C /\ (a \o c)[A + i] = c[i]
      /\ \A i \in 1 .. A + C : i \in 1 .. A \/ \E j \in 1 .. C : i = A + j
      /\ \A i \in 1 .. B : i \in 1 .. B + D /\ (b \o d)[i] = b[i]
      /\ \A i \in 1 .. D : B + i \in 1 .. B + D /\ (b \o d)[B + i] = d[i]
      /\ \A i \in 1 .. B + D : i \in 1 .. B \/ \E j \in 1 .. D : i = B + j
  <2>1. /\ Len(a) \in Nat /\ Len(b) \in Nat /\ Len(c) \in Nat /\ Len(d) \in Nat
        /\ a \in Seq(Lines) /\ b \in Seq(Lines) /\ c \in Seq(Lines) /\ d \in Seq(Lines)
    BY DEF Texts
  <2> HIDE DEF Texts
  <2>2. /\ DOMAIN a = 1 .. Len(a) /\ DOMAIN c = 1 .. Len(c)
        /\ DOMAIN (a \o c) = 1 .. Len(a) + Len(c)
        /\ \A i \in 1 .. Len(a) : i \in 1 .. Len(a) + Len(c) /\ (a \o c)[i] = a[i]
        /\ \A i \in 1 .. Len(c) :
              Len(a) + i \in 1 .. Len(a) + Len(c) /\ (a \o c)[Len(a) + i] = c[i]
        /\ \A i \in 1 .. Len(a) + Len(c) :
              i \in 1 .. Len(a) \/ \E j \in 1 .. Len(c) : i = Len(a) + j
    BY <2>1, ConcatIs
  <2>3. /\ DOMAIN b = 1 .. Len(b) /\ DOMAIN d = 1 .. Len(d)
        /\ DOMAIN (b \o d) = 1 .. Len(b) + Len(d)
        /\ \A i \in 1 .. Len(b) : i \in 1 .. Len(b) + Len(d) /\ (b \o d)[i] = b[i]
        /\ \A i \in 1 .. Len(d) :
              Len(b) + i \in 1 .. Len(b) + Len(d) /\ (b \o d)[Len(b) + i] = d[i]
        /\ \A i \in 1 .. Len(b) + Len(d) :
              i \in 1 .. Len(b) \/ \E j \in 1 .. Len(d) : i = Len(b) + j
    BY <2>1, ConcatIs
  <2>4. A \in Nat /\ B \in Nat /\ C \in Nat /\ D \in Nat
    BY <2>1
  <2>5. /\ DOMAIN a = 1 .. A /\ DOMAIN b = 1 .. B /\ DOMAIN c = 1 .. C /\ DOMAIN d = 1 .. D
        /\ DOMAIN (a \o c) = 1 .. A + C /\ DOMAIN (b \o d) = 1 .. B + D
        /\ \A i \in 1 .. A : i \in 1 .. A + C /\ (a \o c)[i] = a[i]
        /\ \A i \in 1 .. C : A + i \in 1 .. A + C /\ (a \o c)[A + i] = c[i]
        /\ \A i \in 1 .. A + C : i \in 1 .. A \/ \E j \in 1 .. C : i = A + j
        /\ \A i \in 1 .. B : i \in 1 .. B + D /\ (b \o d)[i] = b[i]
        /\ \A i \in 1 .. D : B + i \in 1 .. B + D /\ (b \o d)[B + i] = d[i]
        /\ \A i \in 1 .. B + D : i \in 1 .. B \/ \E j \in 1 .. D : i = B + j
    BY <2>2, <2>3
  <2> QED
    BY <2>4, <2>5
<1> HIDE DEF A, B, C, D
<1> DEFINE InFirst(i, j) == i \in 1 .. A /\ j \in 1 .. B /\ j \in P[i]
           InSecond(i, j) ==
              \E k \in 1 .. C, l \in 1 .. D : i = A + k /\ j = B + l /\ l \in Q[k]
           R == [i \in 1 .. A + C |->
                   {j \in 1 .. B + D : InFirst(i, j) \/ InSecond(i, j)}]
<1> SUFFICES Links(R, a \o c, b \o d)
  BY DEF Linked
<1>4. \A i \in 1 .. A + C, j \in 1 .. B + D :
         j \in R[i] <=> InFirst(i, j) \/ InSecond(i, j)
  OBVIOUS
<1> HIDE DEF R
<1> DEFINE old == a \o c
           new == b \o d
<1>5. \A i, j : InFirst(i, j) => /\ i \in 1 .. A + C /\ j \in 1 .. B + D
                                 /\ old[i] = a[i] /\ new[j] = b[j]
  BY <1>3
<1>6. ASSUME NEW i \in 1 .. A + C PROVE \E j \in 1 .. B + D : j \in R[i]
  <2>1. CASE i \in 1 .. A
    <3>1. PICK j \in 1 .. B : j \in P[i]
      BY <1>1, <1>3, <2>1 DEF Links
    <3>2. InFirst(i, j)
      BY <2>1, <3>1
    <3> QED
      BY <1>4, <1>5, <3>2
  <2>2. ASSUME NEW k \in 1 .. C, i = A + k PROVE \E j \in 1 .. B + D : j \in R[i]
    <3>1. PICK l \in 1 .. D : l \in Q[k]
      BY <1>2, <1>3 DEF Links
    <3>2. InSecond(i, B + l) /\ B + l \in 1 .. B + D
      BY <1>3, <2>2, <3>1
    <3> QED
      BY <1>4, <3>2
  <2> QED
    BY <1>3, <2>1, <2>2
<1>7. ASSUME NEW j \in 1 .. B + D PROVE \E i \in 1 .. A + C : j \in R[i]
  <2>1. CASE j \in 1 .. B
    <3>1. PICK i \in 1 .. A : j \in P[i]
      BY <1>1, <1>3, <2>1 DEF Links
    <3>2. InFirst(i, j)
      BY <2>1, <3>1
    <3> QED
      BY <1>4, <1>5, <3>2
  <2>2. ASSUME NEW l \in 1 .. D, j = B + l PROVE \E i \in 1 .. A + C : j \in R[i]
    <3>1. PICK k \in 1 .. C : l \in Q[k]
      BY <1>2, <1>3 DEF Links
    <3>2. InSecond(A + k, j) /\ A + k \in 1 .. A + C
      BY <1>3, <2>2, <3>1
    <3> QED
      BY <1>4, <3>2
  <2> QED
    BY <1>3, <2>1, <2>2
<1>8. ASSUME NEW i \in 1 .. A + C, NEW j \in 1 .. B + D, j \in R[i] PROVE new[j] = old[i]
  <2>1. CASE InFirst(i, j)
    <3>1. b[j] = a[i]
      BY <1>1, <1>3, <2>1 DEF Links
    <3> QED
      BY <1>5, <2>1, <3>1
  <2>2. CASE InSecond(i, j)
    <3>1. PICK k \in 1 .. C, l \in 1 .. D : i = A + k /\ j = B + l /\ l \in Q[k]
      BY <2>2
    <3>2. d[l] = c[k]
      BY <1>2, <1>3, <3>1 DEF Links
    <3> QED
      BY <1>3, <3>1, <3>2
  <2> HIDE DEF InFirst, InSecond
  <2>3. InFirst(i, j) \/ InSecond(i, j)
    BY <1>4, <1>8
  <2> QED
    BY <2>1, <2>2, <2>3
<1>9. ASSUME NEW i \in 1 .. A + C, NEW k \in 1 .. A + C,
             NEW j \in 1 .. B + D, NEW l \in 1 .. B + D,
             j \in R[i], l \in R[k], ~IsInclude(old[i])
      PROVE  (i < k <=> j < l) /\ (k < i <=> l < j)
  <2>1. CASE InFirst(i, j) /\ InFirst(k, l)
    <3>1. ~IsInclude(a[i])
      BY <1>5, <1>9, <2>1
    <3> QED
      BY <1>1, <1>3, <2>1, <3>1 DEF Links
  <2>2. CASE InFirst(i, j) /\ InSecond(k, l)
    <3>1. PICK m \in 1 .. C, n \in 1 .. D : k = A + m /\ l = B + n
      BY <2>2
    <3> QED
      BY <1>3, <2>2, <3>1
  <2>3. CASE InSecond(i, j) /\ InFirst(k, l)
    <3>1. PICK m \in 1 .. C, n \in 1 .. D : i = A + m /\ j = B + n
      BY <2>3
    <3> QED
      BY <1>3, <2>3, <3>1
  <2>4. CASE InSecond(i, j) /\ InSecond(k, l)
    <3>1. PICK m \in 1 .. C, n \in 1 .. D : i = A + m /\ j = B + n /\ n \in Q[m]
      BY <2>4
    <3>2. PICK x \in 1 .. C, y \in 1 .. D : k = A + x /\ l = B + y /\ y \in Q[x]
      BY <2>4
    <3>3. ~IsInclude(c[m])
      BY <1>3, <1>9, <3>1
    <3>4. (m < x <=> n < y) /\ (x < m <=> y < n)
      BY <1>2, <1>3, <3>1, <3>2, <3>3 DEF Links
    <3>5. (i < k <=> m < x) /\ (k < i <=> x < m) /\ (j < l <=> n < y) /\ (l < j <=> y < n)
      <4>1. A \in Nat /\ B \in Nat /\ C \in Nat /\ D \in Nat
        BY <1>3
      <4>2. m \in Nat /\ x \in Nat /\ n \in Nat /\ y \in Nat
        BY <4>1
      <4> QED
        BY <3>1, <3>2, <4>1, <4>2
    <3> QED
      BY <3>4, <3>5
  <2> QED
    BY <1>4, <1>9, <2>1, <2>2, <2>3, <2>4
<1>10. DOMAIN old = 1 .. A + C /\ DOMAIN new = 1 .. B + D
  BY <1>3
<1> HIDE DEF old, new
<1>11. Links(R, old, new)
  BY <1>6, <1>7, <1>8, <1>9, <1>10 DEF Links
<1> QED
  BY <1>11 DEF old, new

LEMMA LinkedBlock ==
    ASSUME NEW a \in Blocks, NEW b \in Blocks, SameLines(a, b)
    PROVE  Linked(a, b)
<1> DEFINE R == [i \in DOMAIN a |-> {j \in DOMAIN b : b[j] = a[i]}]
<1>1. \A i \in DOMAIN a, j \in DOMAIN b : j \in R[i] <=> b[j] = a[i]
  OBVIOUS
<1>2. \A i \in DOMAIN a : IsInclude(a[i])
  BY BlockIs
<1> HIDE DEF R
<1>3. Links(R, a, b)
  <2>1. \A i \in DOMAIN a : \E j \in DOMAIN b : j \in R[i]
    BY <1>1 DEF SameLines
  <2>2. \A j \in DOMAIN b : \E i \in DOMAIN a : j \in R[i]
    BY <1>1 DEF SameLines
  <2> QED
    BY <1>1, <1>2, <2>1, <2>2 DEF Links
<1> QED
  BY <1>3 DEF Linked

LEMMA RankIsLine ==
    ASSUME NEW f, NEW line \in Lines
    PROVE  Rank(f, line) \in Lines
  BY DEF Rank, Lines

LEMMA NotLonger ==
    ASSUME NEW f, NEW a \in Texts, NEW b \in Texts, NotFarther(f, b, a)
    PROVE  Len(a) \in Nat /\ Len(b) \in Nat /\ (Len(b) < Len(a) \/ Len(b) = Len(a))
<1>1. Len(a) \in Nat /\ Len(b) \in Nat
  BY DEF Texts
<1>2. CASE b = a
  BY <1>1, <1>2
<1>3. CASE Closer(f, b, a)
  <2>1. Len(b) < Len(a) \/ Len(b) = Len(a)
    BY <1>3 DEF Closer
  <2> QED
    BY <1>1, <2>1
<1> QED
  BY <1>2, <1>3 DEF NotFarther

LEMMA CloserTwice ==
    ASSUME NEW f, NEW a \in Texts, NEW b \in Texts, NEW c \in Texts,
           NotFarther(f, b, a), NotFarther(f, c, b)
    PROVE  NotFarther(f, c, a)
<1> SUFFICES ASSUME Closer(f, b, a), Closer(f, c, b) PROVE Closer(f, c, a)
  BY DEF NotFarther
<1>1. /\ Len(a) \in Nat /\ Len(b) \in Nat /\ Len(c) \in Nat
      /\ DOMAIN a = 1 .. Len(a) /\ DOMAIN b = 1 .. Len(b) /\ DOMAIN c = 1 .. Len(c)
      /\ \A i \in 1 .. Len(a) : a[i] \in Lines
      /\ \A i \in 1 .. Len(b) : b[i] \in Lines
      /\ \A i \in 1 .. Len(c) : c[i] \in Lines
  BY DEF Texts
<1>2. CASE Len(b) < Len(a) \/ Len(c) < Len(b)
  <2>1. (Len(b) < Len(a) \/ Len(b) = Len(a)) /\ (Len(c) < Len(b) \/ Len(c) = Len(b))
    BY NotLonger DEF NotFarther
  <2>2. Len(c) < Len(a)
    <3>1. Len(a) \in Nat /\ Len(b) \in Nat /\ Len(c) \in Nat
      BY <1>1
    <3> QED
      BY <1>2, <2>1, <3>1
  <2> QED
    BY <2>2 DEF Closer
<1>3. CASE ~ (Len(b) < Len(a)) /\ ~ (Len(c) < Len(b))
  <2>1. Len(b) = Len(a) /\ Len(c) = Len(b)
    BY <1>3 DEF Closer
  <2>2. PICK i \in 1 .. Len(a) : /\ Before(Rank(f, b[i]), Rank(f, a[i]))
                                 /\ \A j \in 1 .. i - 1 : b[j] = a[j]
    BY <1>1, <1>3, <2>1 DEF Closer
  <2>3. PICK k \in 1 .. Len(a) : /\ Before(Rank(f, c[k]), Rank(f, b[k]))
                                 /\ \A j \in 1 .. k - 1 : c[j] = b[j]
    BY <1>1, <1>3, <2>1 DEF Closer
  <2>4. /\ Rank(f, a[i]) \in Lines /\ Rank(f, b[i]) \in Lines /\ Rank(f, c[i]) \in Lines
        /\ Rank(f, a[k]) \in Lines /\ Rank(f, b[k]) \in Lines /\ Rank(f, c[k]) \in Lines
    BY <1>1, <2>1, RankIsLine
  <2>5. ASSUME NEW l \in 1 .. Len(a), Before(Rank(f, c[l]), Rank(f, a[l])),
               \A j \in 1 .. l - 1 : c[j] = a[j]
        PROVE  Closer(f, c, a)
    BY <1>1, <2>1, <2>5 DEF Closer
  <2>6. CASE i < k
    <3>1. c[i] = b[i] /\ \A j \in 1 .. i - 1 : c[j] = a[j]
      BY <1>1, <2>2, <2>3, <2>6
    <3>2. Before(Rank(f, c[i]), Rank(f, a[i]))
      BY <2>2, <3>1
    <3> QED
      BY <2>5, <3>1, <3>2
  <2>7. CASE k < i
    <3>1. b[k] = a[k] /\ \A j \in 1 .. k - 1 : c[j] = a[j]
      BY <1>1, <2>2, <2>3, <2>7
    <3>2. Before(Rank(f, c[k]), Rank(f, a[k]))
      BY <2>3, <3>1
    <3> QED
      BY <2>5, <3>1, <3>2
  <2>8. CASE i = k
    <3>1. \A j \in 1 .. i - 1 : c[j] = a[j]
      BY <2>2, <2>3, <2>8
    <3>2. Before(Rank(f, c[i]), Rank(f, a[i]))
      BY <2>2, <2>3, <2>4, <2>8, LinesAreOrdered
    <3> QED
      BY <2>5, <3>1, <3>2
  <2> QED
    BY <1>1, <2>6, <2>7, <2>8
<1> QED
  BY <1>2, <1>3

LEMMA CloserConcat ==
    ASSUME NEW f, NEW a \in Texts, NEW b \in Texts, NEW c \in Texts, NEW d \in Texts,
           NotFarther(f, b, a), NotFarther(f, d, c)
    PROVE  NotFarther(f, b \o d, a \o c)
<1> DEFINE old == a \o c
           new == b \o d
<1>1. /\ Len(a) \in Nat /\ Len(b) \in Nat /\ Len(c) \in Nat /\ Len(d) \in Nat
      /\ DOMAIN a = 1 .. Len(a) /\ DOMAIN b = 1 .. Len(b)
      /\ DOMAIN c = 1 .. Len(c) /\ DOMAIN d = 1 .. Len(d)
  BY DEF Texts
<1>2. /\ Len(old) = Len(a) + Len(c)
      /\ \A i \in 1 .. Len(a) : old[i] = a[i]
      /\ \A i \in 1 .. Len(c) : old[Len(a) + i] = c[i]
  BY ConcatIs DEF Texts
<1>3. /\ Len(new) = Len(b) + Len(d) /\ DOMAIN new = 1 .. Len(b) + Len(d)
      /\ \A i \in 1 .. Len(b) : new[i] = b[i] /\ i \in 1 .. Len(b) + Len(d)
      /\ \A i \in 1 .. Len(d) : /\ new[Len(b) + i] = d[i]
                                /\ Len(b) + i \in 1 .. Len(b) + Len(d)
  BY ConcatIs DEF Texts
<1>4. /\ Len(b) < Len(a) \/ Len(b) = Len(a)
      /\ Len(d) < Len(c) \/ Len(d) = Len(c)
  BY NotLonger
<1>5. CASE b = a /\ d = c
  BY <1>5 DEF NotFarther
<1> HIDE DEF old, new
<1>6. CASE Len(b) < Len(a) \/ Len(d) < Len(c)
  <2>1. Len(new) < Len(old)
    <3>1. Len(a) \in Nat /\ Len(b) \in Nat /\ Len(c) \in Nat /\ Len(d) \in Nat
      BY <1>1
    <3>2. Len(old) = Len(a) + Len(c) /\ Len(new) = Len(b) + Len(d)
      BY <1>2, <1>3
    <3> QED
      BY <1>4, <1>6, <3>1, <3>2
  <2> QED
    BY <2>1 DEF NotFarther, Closer, old, new
<1>7. CASE Len(b) = Len(a) /\ Len(d) = Len(c)
  <2>1. Len(new) = Len(old)
    BY <1>2, <1>3, <1>7
  <2>2. ASSUME NEW i \in DOMAIN new, Before(Rank(f, new[i]), Rank(f, old[i])),
               \A j \in 1 .. i - 1 : new[j] = old[j]
        PROVE  NotFarther(f, b \o d, a \o c)
    BY <2>1, <2>2 DEF NotFarther, Closer, old, new
  <2>3. CASE b # a
    <3>1. PICK i \in 1 .. Len(b) : /\ Before(Rank(f, b[i]), Rank(f, a[i]))
                                   /\ \A j \in 1 .. i - 1 : b[j] = a[j]
      BY <1>1, <1>7, <2>3 DEF NotFarther, Closer
    <3>2. i \in DOMAIN new /\ new[i] = b[i] /\ old[i] = a[i]
      BY <1>2, <1>3, <1>7, <3>1
    <3>3. ASSUME NEW j \in 1 .. i - 1 PROVE new[j] = old[j]
      <4>1. j \in 1 .. Len(b)
        BY <1>1, <3>1
      <4> QED
        BY <1>2, <1>3, <1>7, <3>1, <4>1
    <3> QED
      BY <2>2, <3>1, <3>2, <3>3
  <2>4. CASE b = a /\ d # c
    <3>1. PICK i \in 1 .. Len(d) : /\ Before(Rank(f, d[i]), Rank(f, c[i]))
                                   /\ \A j \in 1 .. i - 1 : d[j] = c[j]
      BY <1>1, <1>7, <2>4 DEF NotFarther, Closer
    <3>2. Len(b) + i \in DOMAIN new /\ new[Len(b) + i] = d[i] /\ old[Len(b) + i] = c[i]
      BY <1>2, <1>3, <1>7, <3>1
    <3>3. ASSUME NEW j \in 1 .. (Len(b) + i) - 1 PROVE new[j] = old[j]
      <4>1. CASE j <= Len(b)
        <5>1. j \in 1 .. Len(b)
          BY <4>1
        <5> QED
          BY <1>2, <1>3, <2>4, <5>1
      <4>2. CASE j > Len(b)
        <5>1. /\ j - Len(b) \in 1 .. Len(d) /\ j - Len(b) \in 1 .. i - 1
              /\ j = Len(b) + (j - Len(b))
          BY <1>1, <3>1, <4>2
        <5>2. new[j] = d[j - Len(b)] /\ old[j] = c[j - Len(b)]
          BY <1>2, <1>3, <1>7, <5>1
        <5> QED
          BY <3>1, <5>1, <5>2
      <4> QED
        BY <1>1, <4>1, <4>2
    <3> QED
      BY <2>2, <3>1, <3>2, <3>3
  <2> QED
    BY <1>5, <2>3, <2>4
<1> QED
  BY <1>4, <1>6, <1>7

(* What is linked has the same blocks. *)
LEMMA LinkedHasSameBlocks ==
    ASSUME NEW old \in Texts, NEW new \in Texts, Linked(old, new)
    PROVE  SameBlocks(old, new)
<1>1. PICK R : Links(R, old, new)
  BY DEF Linked
<1>2. /\ \A i \in DOMAIN old : i \in Nat
      /\ \A j \in DOMAIN new : j \in Nat
  BY DEF Texts
<1>3. \A k \in Others(old) : k \in DOMAIN old /\ ~IsInclude(old[k])
  BY DEF Others, Includes
<1> DEFINE p == [k \in Others(old) |-> CHOOSE j \in DOMAIN new : j \in R[k]]
<1>4. \A k \in Others(old) : p[k] \in DOMAIN new /\ p[k] \in R[k]
  BY <1>1, <1>3 DEF Links
<1>5. \A k \in Others(old) : new[p[k]] = old[k]
  BY <1>1, <1>3, <1>4 DEF Links
<1>6. p \in [Others(old) -> Others(new)]
  <2>1. \A k \in Others(old) : p[k] \in Others(new)
    BY <1>3, <1>4, <1>5 DEF Others, Includes
  <2>2. p = [k \in Others(old) |-> p[k]]
    OBVIOUS
  <2> HIDE DEF p
  <2> QED
    BY <2>1, <2>2
<1> HIDE DEF p
<1>7. ASSUME NEW k \in Others(old), NEW i \in DOMAIN old, NEW j \in DOMAIN new, j \in R[i]
      PROVE  (k < i <=> p[k] < j) /\ (i < k <=> j < p[k])
  BY <1>1, <1>3, <1>4, <1>7 DEF Links
<1>8. Follows(p, old, new)
  <2>1. \A k, l \in Others(old) : k < l => p[k] < p[l]
    BY <1>3, <1>4, <1>7
  <2>2. ASSUME NEW n \in Others(new) PROVE \E k \in Others(old) : p[k] = n
    <3>1. n \in DOMAIN new /\ ~IsInclude(new[n])
      BY DEF Others, Includes
    <3>2. PICK i \in DOMAIN old : n \in R[i]
      BY <1>1, <3>1 DEF Links
    <3>3. i \in Others(old)
      BY <1>1, <3>1, <3>2 DEF Links, Others, Includes
    <3>4. (i < i <=> p[i] < n) /\ (i < i <=> n < p[i])
      BY <1>7, <3>1, <3>2, <3>3
    <3>5. i \in Nat /\ n \in Nat /\ p[i] \in Nat
      BY <1>2, <1>4, <3>1, <3>3
    <3> QED
      BY <3>3, <3>4, <3>5
  <2> QED
    BY <1>5, <2>1, <2>2 DEF Follows
<1>9. ASSUME NEW i \in Includes(old)
      PROVE  \E j \in Includes(new) : new[j] = old[i] /\ InSameBlock(p, old, i, j)
  <2>1. i \in DOMAIN old /\ IsInclude(old[i])
    BY DEF Includes
  <2>2. PICK j \in DOMAIN new : j \in R[i]
    BY <1>1, <2>1 DEF Links
  <2>3. new[j] = old[i]
    BY <1>1, <2>1, <2>2 DEF Links
  <2>4. InSameBlock(p, old, i, j)
    BY <1>7, <2>1, <2>2 DEF InSameBlock
  <2> QED
    BY <2>1, <2>3, <2>4 DEF Includes
<1>10. ASSUME NEW j \in Includes(new)
       PROVE  \E i \in Includes(old) : new[j] = old[i] /\ InSameBlock(p, old, i, j)
  <2>1. j \in DOMAIN new /\ IsInclude(new[j])
    BY DEF Includes
  <2>2. PICK i \in DOMAIN old : j \in R[i]
    BY <1>1, <2>1 DEF Links
  <2>3. new[j] = old[i]
    BY <1>1, <2>1, <2>2 DEF Links
  <2>4. InSameBlock(p, old, i, j)
    BY <1>7, <2>1, <2>2 DEF InSameBlock
  <2> QED
    BY <2>1, <2>2, <2>3, <2>4 DEF Includes
<1> QED
  BY <1>6, <1>8, <1>9, <1>10 DEF SameBlocks

-----------------------------------------------------------------------------
(* Replacing a block wherever it stands.                                      *)

(* new is what may become of old if the includes are those of L. *)
Cleaner(f, L, old, new) ==
    /\ new \in Texts
    /\ Linked(old, new)
    /\ OneOwnIn(f, L) => NotFarther(f, new, old)

LEMMA CleanerSame ==
    ASSUME NEW f, NEW L, NEW t \in Texts
    PROVE  Cleaner(f, L, t, t)
  BY LinkedSame DEF Cleaner, NotFarther

LEMMA CleanerTwice ==
    ASSUME NEW f, NEW L, NEW a \in Texts, NEW b, NEW c,
           Cleaner(f, L, a, b), Cleaner(f, L, b, c)
    PROVE  Cleaner(f, L, a, c)
  BY LinkedTwice, CloserTwice DEF Cleaner

LEMMA CleanerConcat ==
    ASSUME NEW f, NEW L, NEW a \in Texts, NEW b, NEW c \in Texts, NEW d,
           Cleaner(f, L, a, b), Cleaner(f, L, c, d)
    PROVE  Cleaner(f, L, a \o c, b \o d)
<1>1. b \in Texts /\ d \in Texts
  BY DEF Cleaner
<1>2. b \o d \in Texts
  BY <1>1, ConcatIs DEF Texts
<1> QED
  BY <1>1, <1>2, LinkedConcat, CloserConcat DEF Cleaner

LEMMA ReplacementIs ==
    ASSUME NEW f, NEW L \in SUBSET IncludeLines, NEW r \in Replacements(f, L)
    PROVE  /\ r.from \in Texts /\ r.to \in Texts /\ Len(r.from) \in Nat \ {0}
           /\ Cleaner(f, L, r.from, r.to)
<1>1. /\ r.from \in Seq(L) /\ r.to \in Seq(L) /\ IsReplacement(f, L, r)
  BY DEF Replacements
<1>2. r.from \in Blocks /\ r.to \in Blocks
  BY <1>1, SomeLines
<1> QED
  BY <1>1, <1>2, BlockIs, LinkedBlock DEF IsReplacement, Cleaner, NotFarther

(* The recursion of replaceInPlace from place i. *)
Stands(text, r, i) ==
    /\ i + Len(r.from) - 1 <= Len(text)
    /\ SubSeq(text, i, i + Len(r.from) - 1) = r.from

FromPlace(h, text, r, i) ==
    IF i > Len(text) THEN <<>>
    ELSE IF Stands(text, r, i) THEN r.to \o h[i + Len(r.from) - 1 + 1]
    ELSE <<text[i]>> \o h[i + 1]

LEMMA ReplacingHasSolution ==
    ASSUME NEW text \in Texts, NEW r, r.to \in Texts, Len(r.from) \in Nat \ {0}
    PROVE  \E h : h = [i \in 1 .. Len(text) + 1 |-> FromPlace(h, text, r, i)]
<1> DEFINE n == Len(text)
           w == Len(r.from)
           Upto(h, k) == \A i \in n + 1 - k .. n + 1 : h[i] = FromPlace(h, text, r, i)
           S == {k \in 0 .. n : \E h \in [1 .. n + 1 -> Texts] : Upto(h, k)}
<1>1. n \in Nat /\ w \in Nat \ {0} /\ \A i \in 1 .. n : text[i] \in Lines
  BY DEF Texts
<1>2. <<>> \in Texts /\ \A line \in Lines : <<line>> \in Texts
  BY DEF Texts
<1>3. \A i \in 1 .. n + 1 : ~ (i > n) => i \in 1 .. n /\ i + 1 \in 1 .. n + 1
  BY <1>1
<1>4. \A i \in 1 .. n + 1 : Stands(text, r, i) => i + w - 1 + 1 \in 1 .. n + 1
  BY <1>1 DEF Stands
<1> HIDE DEF n, w
<1>5. ASSUME NEW h \in [1 .. n + 1 -> Texts], NEW i \in 1 .. n + 1
      PROVE  FromPlace(h, text, r, i) \in Texts
  <2>1. CASE i > n
    BY <1>2, <2>1 DEF FromPlace, n
  <2>2. CASE ~ (i > n) /\ Stands(text, r, i)
    <3>1. h[i + w - 1 + 1] \in Texts
      BY <1>4, <2>2
    <3>2. r.to \o h[i + w - 1 + 1] \in Texts
      BY <3>1, ConcatIs DEF Texts
    <3> QED
      BY <2>2, <3>2 DEF FromPlace, n, w
  <2>3. CASE ~ (i > n) /\ ~Stands(text, r, i)
    <3>1. <<text[i]>> \in Texts /\ h[i + 1] \in Texts
      BY <1>1, <1>2, <1>3, <2>3
    <3>2. <<text[i]>> \o h[i + 1] \in Texts
      BY <3>1, ConcatIs DEF Texts
    <3> QED
      BY <2>3, <3>2 DEF FromPlace, n
  <2> QED
    BY <2>1, <2>2, <2>3
<1>6. 0 \in S
  <2> DEFINE h == [i \in 1 .. n + 1 |-> <<>>]
  <2>1. h \in [1 .. n + 1 -> Texts]
    BY <1>2
  <2>2. ASSUME NEW i \in n + 1 - 0 .. n + 1 PROVE h[i] = FromPlace(h, text, r, i)
    <3>1. i \in 1 .. n + 1 /\ i > n
      BY <1>1
    <3>2. h[i] = <<>>
      BY <3>1
    <3> QED
      BY <3>1, <3>2 DEF FromPlace, n
  <2>3. 0 \in 0 .. n
    BY <1>1
  <2> HIDE DEF h
  <2> QED
    BY <2>1, <2>2, <2>3
<1>7. ASSUME NEW k \in 1 .. n, k - 1 \in S PROVE k \in S
  <2>1. PICK h \in [1 .. n + 1 -> Texts] : Upto(h, k - 1)
    BY <1>7
  <2> DEFINE at == n + 1 - k
             g == [i \in 1 .. n + 1 |-> IF i = at THEN FromPlace(h, text, r, at) ELSE h[i]]
  <2>2. at \in 1 .. n + 1 /\ at \in Int /\ k \in Int
    BY <1>1
  <2>3. g \in [1 .. n + 1 -> Texts]
    <3>1. FromPlace(h, text, r, at) \in Texts
      BY <1>5, <2>2
    <3>2. \A i \in 1 .. n + 1 : h[i] \in Texts
      OBVIOUS
    <3> HIDE DEF at
    <3> QED
      BY <3>1, <3>2
  <2>4. g[at] = FromPlace(h, text, r, at) /\ \A i \in 1 .. n + 1 : i # at => g[i] = h[i]
    BY <2>2
  <2> HIDE DEF g
  <2>5. ASSUME NEW i \in 1 .. n + 1, i >= at
        PROVE  FromPlace(g, text, r, i) = FromPlace(h, text, r, i)
    <3>1. CASE i > n
      BY <3>1 DEF FromPlace, n
    <3>2. CASE ~ (i > n) /\ Stands(text, r, i)
      <4>1. i + w - 1 + 1 \in 1 .. n + 1 /\ i + w - 1 + 1 # at
        BY <1>1, <1>4, <2>2, <2>5, <3>2
      <4> QED
        BY <2>4, <3>2, <4>1 DEF FromPlace, n, w
    <3>3. CASE ~ (i > n) /\ ~Stands(text, r, i)
      <4>1. i + 1 \in 1 .. n + 1 /\ i + 1 # at
        BY <1>1, <1>3, <2>2, <2>5, <3>3
      <4> QED
        BY <2>4, <3>3, <4>1 DEF FromPlace, n
    <3> QED
      BY <3>1, <3>2, <3>3
  <2>6. ASSUME NEW i \in at .. n + 1 PROVE g[i] = FromPlace(g, text, r, i)
    <3>1. i \in 1 .. n + 1 /\ i >= at
      BY <1>1, <2>2
    <3>2. CASE i = at
      BY <2>4, <2>5, <3>1, <3>2
    <3>3. CASE i # at
      <4>1. i \in n + 1 - (k - 1) .. n + 1
        BY <1>1, <2>2, <3>1, <3>3
      <4>2. h[i] = FromPlace(h, text, r, i)
        BY <2>1, <4>1
      <4> QED
        BY <2>4, <2>5, <3>1, <3>3, <4>2
    <3> QED
      BY <3>2, <3>3
  <2>7. Upto(g, k)
    BY <2>6
  <2>8. k \in 0 .. n
    BY <1>1
  <2> QED
    BY <2>3, <2>7, <2>8
<1>8. n \in S
  <2>1. n \in 0 .. n
    BY <1>1
  <2> HIDE DEF S
  <2> QED
    BY <1>1, <1>6, <1>7, <2>1, UpTo
<1>9. PICK h \in [1 .. n + 1 -> Texts] : Upto(h, n)
  BY <1>8
<1> DEFINE g == [i \in 1 .. n + 1 |-> FromPlace(h, text, r, i)]
<1>10. \A i \in 1 .. n + 1 : h[i] = g[i]
  <2>1. n + 1 - n = 1
    BY <1>1
  <2> QED
    BY <1>9, <2>1
<1>11. h = [i \in 1 .. n + 1 |-> h[i]] /\ g = [i \in 1 .. n + 1 |-> g[i]]
  OBVIOUS
<1>12. h = g
  <2> HIDE DEF g
  <2> QED
    BY <1>10, <1>11, Zenon
<1> QED
  BY <1>12 DEF n

(* Replacing every occurrence of a block in a text. *)
LEMMA ReplaceInPlaceIs ==
    ASSUME NEW f, NEW L \in SUBSET IncludeLines, NEW r \in Replacements(f, L),
           NEW text \in Texts
    PROVE  Cleaner(f, L, text, ReplaceInPlace(text, r))
<1> DEFINE n == Len(text)
           w == Len(r.from)
           F == CHOOSE h : h = [i \in 1 .. Len(text) + 1 |-> FromPlace(h, text, r, i)]
           rest(i) == SubSeq(text, i, n)
           S == {k \in 0 .. n : Cleaner(f, L, rest(n + 1 - k), F[n + 1 - k])}
           Below == {k \in 0 .. n : \A j \in 0 .. k : j \in S}
<1>1. ReplaceInPlace(text, r) = F[1]
  BY DEF ReplaceInPlace, FromPlace, Stands
<1>2. /\ r.from \in Texts /\ r.to \in Texts /\ w \in Nat \ {0}
      /\ Cleaner(f, L, r.from, r.to)
  BY ReplacementIs
<1>3. F = [i \in 1 .. Len(text) + 1 |-> FromPlace(F, text, r, i)]
  <2> DEFINE Solves(h) == h = [i \in 1 .. Len(text) + 1 |-> FromPlace(h, text, r, i)]
  <2>1. \E h : Solves(h)
    BY <1>2, ReplacingHasSolution
  <2>2. F = CHOOSE h : Solves(h)
    OBVIOUS
  <2> HIDE DEF Solves, F
  <2>3. Solves(F)
    BY <2>1, <2>2
  <2> QED
    BY <2>3 DEF Solves
<1> HIDE DEF F
<1>4. n \in Nat /\ \A i \in 1 .. n : text[i] \in Lines
  BY DEF Texts
<1>5. \A i \in 1 .. n + 1 : F[i] = FromPlace(F, text, r, i)
  BY <1>3
<1>6. \A i \in 1 .. n + 1 : rest(i) \in Texts
  BY <1>4, SliceIs DEF Texts
<1> HIDE DEF w
<1>7. 0 \in Below
  <2>1. n + 1 \in 1 .. n + 1 /\ n + 1 > n /\ n < n + 1 /\ n + 1 - 0 = n + 1 /\ n \in Int
    BY <1>4
  <2>2. F[n + 1] = <<>> /\ rest(n + 1) = <<>>
    <3>1. F[n + 1] = <<>>
      BY <1>5, <2>1 DEF FromPlace
    <3> QED
      BY <2>1, <3>1, SubSeqEmpty
  <2>3. <<>> \in Texts
    BY DEF Texts
  <2>4. Cleaner(f, L, rest(n + 1 - 0), F[n + 1 - 0])
    BY <2>1, <2>2, <2>3, CleanerSame
  <2>5. 0 \in S
    BY <1>4, <2>4
  <2> HIDE DEF S
  <2> QED
    BY <1>4, <2>5
<1>8. ASSUME NEW k \in 1 .. n, k - 1 \in Below PROVE k \in Below
  <2> DEFINE at == n + 1 - k
  <2>1. at \in 1 .. n /\ at \in 1 .. n + 1 /\ ~ (at > n) /\ k \in 0 .. n
    BY <1>4
  <2>2. ASSUME NEW i \in at + 1 .. n + 1 PROVE Cleaner(f, L, rest(i), F[i])
    <3>1. n + 1 - i \in 0 .. k - 1 /\ n + 1 - (n + 1 - i) = i
      BY <1>4
    <3>2. n + 1 - i \in S
      BY <1>8, <3>1
    <3> QED
      BY <3>1, <3>2
  <2>3. F[at] = FromPlace(F, text, r, at)
    BY <1>5, <2>1
  <2> HIDE DEF rest
  <2>4. Cleaner(f, L, rest(at), F[at])
    <3>1. CASE Stands(text, r, at)
      <4> DEFINE i == at + w - 1 + 1
      <4>1. /\ i \in at + 1 .. n + 1 /\ at + w - 1 \in at - 1 .. n
            /\ i \in 1 .. n + 1 /\ n \in at + w - 1 .. n
        <5>1. at + w - 1 <= n
          BY <3>1 DEF Stands, w
        <5>2. at \in 1 .. n /\ w \in Nat \ {0} /\ n \in Nat
          BY <1>2, <1>4, <2>1
        <5> HIDE DEF at, n
        <5> QED
          BY <5>1, <5>2
      <4>2. F[at] = r.to \o F[i]
        BY <2>1, <2>3, <3>1 DEF FromPlace, w
      <4>3. rest(at) = r.from \o rest(i)
        <5>1. SubSeq(text, at, at + w - 1) = r.from
          BY <3>1 DEF Stands, w
        <5>2. SubSeq(text, at, at + w - 1) \o SubSeq(text, i, n) = SubSeq(text, at, n)
          BY <2>1, <4>1, ConcatAdjacentSubSeq DEF Texts
        <5> QED
          BY <5>1, <5>2 DEF rest
      <4>4. Cleaner(f, L, rest(i), F[i]) /\ rest(i) \in Texts
        BY <1>6, <2>2, <4>1
      <4> HIDE DEF i, at
      <4> QED
        BY <1>2, <4>2, <4>3, <4>4, CleanerConcat
    <3>2. CASE ~Stands(text, r, at)
      <4>1. at + 1 \in at + 1 .. n + 1 /\ at + 1 \in 1 .. n + 1 /\ n \in at .. n
        BY <1>4, <2>1
      <4>2. F[at] = <<text[at]>> \o F[at + 1]
        BY <2>1, <2>3, <3>2 DEF FromPlace
      <4>3. rest(at) = <<text[at]>> \o rest(at + 1)
        BY <2>1, <4>1, SubSeqRecursiveFirst DEF rest, Texts
      <4>4. Cleaner(f, L, rest(at + 1), F[at + 1]) /\ rest(at + 1) \in Texts
        BY <1>6, <2>2, <4>1
      <4>5. <<text[at]>> \in Texts
        BY <1>4, <2>1 DEF Texts
      <4>6. Cleaner(f, L, <<text[at]>>, <<text[at]>>)
        BY <4>5, CleanerSame
      <4> HIDE DEF at
      <4> QED
        BY <4>2, <4>3, <4>4, <4>5, <4>6, CleanerConcat
    <3> QED
      BY <3>1, <3>2
  <2>5. k \in S
    BY <2>1, <2>4
  <2> HIDE DEF S
  <2>6. ASSUME NEW j \in 0 .. k PROVE j \in S
    <3>1. j = k \/ j \in 0 .. k - 1
      BY <1>4
    <3> QED
      BY <1>8, <2>5, <3>1
  <2> QED
    BY <2>1, <2>6
<1>9. Cleaner(f, L, rest(1), F[1])
  <2>1. n \in Below
    <3>1. n \in 0 .. n
      BY <1>4
    <3> HIDE DEF Below
    <3> QED
      BY <1>4, <1>7, <1>8, <3>1, UpTo
  <2>2. n \in S
    <3> HIDE DEF S
    <3> QED
      BY <1>4, <2>1
  <2>3. n + 1 - n = 1
    BY <1>4
  <2> QED
    BY <2>2, <2>3
<1>10. rest(1) = text
  BY SubSeqFull DEF Texts
<1> QED
  BY <1>1, <1>9, <1>10

(* g[k] is the text after the first k replacements. *)
Successively(g, text, order) ==
    /\ g[0] = text
    /\ \A k \in 1 .. Len(order) : g[k] = ReplaceInPlace(g[k - 1], order[k])
    /\ FoldLeft(ReplaceInPlace, text, order) = g[Len(order)]

(* The replacements one after the other. *)
LEMMA ReplaceSteps ==
    ASSUME NEW f, NEW L \in SUBSET IncludeLines, NEW text \in Texts,
           NEW order \in Seq(Replacements(f, L))
    PROVE  \E g : Successively(g, text, order)
<1> DEFINE n == Len(order)
           V == Texts
           step == [x \in V \X (1 .. n) |-> ReplaceInPlace(x[1], order[x[2]])]
           Solves(h) ==
              h = [s \in SUBSET (1 .. n) |->
                      IF s = {} THEN text
                      ELSE ReplaceInPlace(h[s \ {Max(s)}], order[Max(s)])]
           F == CHOOSE h : Solves(h)
<1>1. /\ n \in Nat /\ DOMAIN order = 1 .. n
      /\ \A k \in 1 .. n : order[k] \in Replacements(f, L)
  OBVIOUS
<1>2. FoldLeft(ReplaceInPlace, text, order) = F[1 .. n]
  <2>1. FoldLeft(ReplaceInPlace, text, order) = F[DOMAIN order]
    BY <1>1 DEF FoldLeft, MapThenFoldSet
  <2> HIDE DEF F
  <2> QED
    BY <1>1, <2>1
<1>3. text \in V
  OBVIOUS
<1>4. step \in [V \X (1 .. n) -> V]
  <2>1. \A x \in V \X (1 .. n) : ReplaceInPlace(x[1], order[x[2]]) \in V
    BY <1>1, ReplaceInPlaceIs DEF Cleaner
  <2> QED
    BY <2>1
<1>5. Solves(F)
  <2> HIDE DEF n, V
  <2>1. PICK h \in [SUBSET (1 .. n) -> V] : Unfolds(h, n, text, step)
    <3> HIDE DEF step
    <3> QED
      BY <1>1, <1>3, <1>4, FoldHasSolution DEF n
  <2>2. ASSUME NEW s \in SUBSET (1 .. n)
        PROVE  h[s] = IF s = {} THEN text
                      ELSE ReplaceInPlace(h[s \ {Max(s)}], order[Max(s)])
    <3>1. h[s] = IF s = {} THEN text ELSE step[<<h[s \ {Max(s)}], Max(s)>>]
      BY <2>1 DEF Unfolds
    <3>2. CASE s # {}
      <4>1. Max(s) \in 1 .. n
        BY <1>1, <3>2, MaxExists DEF n
      <4>2. h[s \ {Max(s)}] \in V
        BY <2>1
      <4> QED
        BY <3>1, <3>2, <4>1, <4>2
    <3> QED
      BY <3>1, <3>2
  <2> DEFINE g == [s \in SUBSET (1 .. n) |->
                     IF s = {} THEN text
                     ELSE ReplaceInPlace(h[s \ {Max(s)}], order[Max(s)])]
  <2>3. \A s \in SUBSET (1 .. n) : h[s] = g[s]
    BY <2>2
  <2>4. h = [s \in SUBSET (1 .. n) |-> h[s]] /\ g = [s \in SUBSET (1 .. n) |-> g[s]]
    BY <2>1
  <2>5. h = g
    <3> HIDE DEF g
    <3> QED
      BY <2>3, <2>4, Zenon
  <2>6. Solves(h)
    BY <2>5
  <2> HIDE DEF Solves
  <2> QED
    BY <2>6
<1> HIDE DEF F
<1> DEFINE g == [k \in 0 .. n |-> F[1 .. k]]
<1>6. g[0] = text
  <2>1. 1 .. 0 = {} /\ {} \in SUBSET (1 .. n) /\ 0 \in 0 .. n
    BY <1>1
  <2>2. F[{}] = text
    BY <1>5, <2>1
  <2> QED
    BY <2>1, <2>2
<1>7. ASSUME NEW k \in 1 .. n
      PROVE  g[k] = ReplaceInPlace(g[k - 1], order[k])
  <2>1. k \in 0 .. n /\ k - 1 \in 0 .. n
    BY <1>1
  <2>2. /\ Max(1 .. k) = k /\ (1 .. k) \ {k} = 1 .. k - 1
        /\ 1 .. k # {} /\ 1 .. k \in SUBSET (1 .. n)
    BY <1>1, PrefixIs
  <2>3. F[1 .. k] = ReplaceInPlace(F[(1 .. k) \ {Max(1 .. k)}], order[Max(1 .. k)])
    BY <1>5, <2>2
  <2> QED
    BY <2>1, <2>2, <2>3
<1>8. FoldLeft(ReplaceInPlace, text, order) = g[n]
  BY <1>1, <1>2
<1> HIDE DEF g
<1>9. Successively(g, text, order)
  BY <1>6, <1>7, <1>8 DEF Successively
<1> QED
  BY <1>9

(* Whatever the order in which some replacements are applied. *)
LEMMA ReplacedIs ==
    ASSUME NEW f, NEW L \in SUBSET IncludeLines, NEW text \in Texts,
           NEW T \in SUBSET Replacements(f, L), IsFiniteSet(T), NEW u \in Replaced(text, T)
    PROVE  Cleaner(f, L, text, u)
<1>1. PICK order \in SetToSeqs(T) : u = FoldLeft(ReplaceInPlace, text, order)
  BY DEF Replaced
<1>2. order \in Seq(Replacements(f, L))
  <2>1. Cardinality(T) \in Nat
    BY FS_CardinalityType
  <2>2. order \in [1 .. Cardinality(T) -> Replacements(f, L)]
    BY DEF SetToSeqs
  <2> QED
    BY <2>1, <2>2, TextIs
<1> DEFINE n == Len(order)
<1>3. n \in Nat /\ \A k \in 1 .. n : order[k] \in Replacements(f, L)
  BY <1>2
<1>4. PICK g : Successively(g, text, order)
  BY <1>2, ReplaceSteps
<1>5. /\ g[0] = text
      /\ \A k \in 1 .. n : g[k] = ReplaceInPlace(g[k - 1], order[k])
      /\ FoldLeft(ReplaceInPlace, text, order) = g[n]
  BY <1>4 DEF Successively
<1> HIDE DEF n
<1> DEFINE S == {k \in 0 .. n : Cleaner(f, L, text, g[k])}
<1>6. 0 \in S
  BY <1>3, <1>5, CleanerSame
<1>7. ASSUME NEW k \in 1 .. n, k - 1 \in S PROVE k \in S
  <2>1. Cleaner(f, L, text, g[k - 1])
    BY <1>7
  <2>2. g[k - 1] \in Texts
    BY <2>1 DEF Cleaner
  <2>3. Cleaner(f, L, g[k - 1], g[k])
    BY <1>3, <1>5, <2>2, ReplaceInPlaceIs
  <2>4. Cleaner(f, L, text, g[k])
    BY <2>1, <2>3, CleanerTwice
  <2>5. k \in 0 .. n
    BY <1>3
  <2> QED
    BY <2>4, <2>5
<1>8. n \in S
  <2>1. n \in 0 .. n
    BY <1>3
  <2> HIDE DEF S
  <2> QED
    BY <1>3, <1>6, <1>7, <2>1, UpTo
<1> QED
  BY <1>1, <1>5, <1>8

-----------------------------------------------------------------------------
(* RemoveWhitespace.                                                          *)

LEMMA TrimmingIs ==
    ASSUME NEW out \in Texts, NEW line \in Lines
    PROVE  Trimming(out, line) \in Texts
<1>1. Trimmed(line) \in Lines
  BY DEF Trimmed, Lines, Tails
<1>2. Append(out, Trimmed(line)) \in Texts
  BY <1>1, AppendProperties DEF Texts
<1> QED
  BY <1>2 DEF Trimming

(* Its steps. *)
LEMMA TrimSteps ==
    ASSUME NEW t \in Texts
    PROVE  \E g : /\ g[0] = <<>>
                  /\ \A k \in 1 .. Len(t) : g[k] = Trimming(g[k - 1], t[k])
                  /\ FoldLeft(Trimming, <<>>, t) = g[Len(t)]
<1> DEFINE n == Len(t)
           V == Texts
           step == [x \in V \X (1 .. n) |-> Trimming(x[1], t[x[2]])]
           Solves(h) ==
              h = [s \in SUBSET (1 .. n) |->
                      IF s = {} THEN <<>>
                      ELSE Trimming(h[s \ {Max(s)}], t[Max(s)])]
           F == CHOOSE h : Solves(h)
<1>1. n \in Nat /\ DOMAIN t = 1 .. n /\ \A i \in 1 .. n : t[i] \in Lines
  BY DEF Texts
<1>2. FoldLeft(Trimming, <<>>, t) = F[1 .. n]
  <2>1. FoldLeft(Trimming, <<>>, t) = F[DOMAIN t]
    BY <1>1 DEF FoldLeft, MapThenFoldSet
  <2> HIDE DEF F
  <2> QED
    BY <1>1, <2>1
<1>3. <<>> \in V
  BY DEF Texts
<1>4. step \in [V \X (1 .. n) -> V]
  <2>1. \A x \in V \X (1 .. n) : Trimming(x[1], t[x[2]]) \in V
    BY <1>1, TrimmingIs
  <2> QED
    BY <2>1
<1>5. Solves(F)
  <2> HIDE DEF n, V
  <2>1. PICK h \in [SUBSET (1 .. n) -> V] : Unfolds(h, n, <<>>, step)
    <3> HIDE DEF step
    <3> QED
      BY <1>1, <1>3, <1>4, FoldHasSolution DEF n
  <2>2. ASSUME NEW s \in SUBSET (1 .. n)
        PROVE  h[s] = IF s = {} THEN <<>>
                      ELSE Trimming(h[s \ {Max(s)}], t[Max(s)])
    <3>1. h[s] = IF s = {} THEN <<>> ELSE step[<<h[s \ {Max(s)}], Max(s)>>]
      BY <2>1 DEF Unfolds
    <3>2. CASE s # {}
      <4>1. Max(s) \in 1 .. n
        BY <1>1, <3>2, MaxExists DEF n
      <4>2. h[s \ {Max(s)}] \in V
        BY <2>1
      <4> QED
        BY <3>1, <3>2, <4>1, <4>2
    <3> QED
      BY <3>1, <3>2
  <2> DEFINE g == [s \in SUBSET (1 .. n) |->
                     IF s = {} THEN <<>>
                     ELSE Trimming(h[s \ {Max(s)}], t[Max(s)])]
  <2>3. \A s \in SUBSET (1 .. n) : h[s] = g[s]
    BY <2>2
  <2>4. h = [s \in SUBSET (1 .. n) |-> h[s]] /\ g = [s \in SUBSET (1 .. n) |-> g[s]]
    BY <2>1
  <2>5. h = g
    <3> HIDE DEF g
    <3> QED
      BY <2>3, <2>4, Zenon
  <2>6. Solves(h)
    BY <2>5
  <2> HIDE DEF Solves
  <2> QED
    BY <2>6
<1> HIDE DEF F
<1> DEFINE g == [k \in 0 .. n |-> F[1 .. k]]
<1>6. g[0] = <<>>
  <2>1. 1 .. 0 = {} /\ {} \in SUBSET (1 .. n) /\ 0 \in 0 .. n
    BY <1>1
  <2>2. F[{}] = <<>>
    BY <1>5, <2>1
  <2> QED
    BY <2>1, <2>2
<1>7. ASSUME NEW k \in 1 .. n
      PROVE  g[k] = Trimming(g[k - 1], t[k])
  <2>1. k \in 0 .. n /\ k - 1 \in 0 .. n
    BY <1>1
  <2>2. /\ Max(1 .. k) = k /\ (1 .. k) \ {k} = 1 .. k - 1
        /\ 1 .. k # {} /\ 1 .. k \in SUBSET (1 .. n)
    BY <1>1, PrefixIs
  <2>3. F[1 .. k] = Trimming(F[(1 .. k) \ {Max(1 .. k)}], t[Max(1 .. k)])
    BY <1>5, <2>2
  <2> QED
    BY <2>1, <2>2, <2>3
<1>8. FoldLeft(Trimming, <<>>, t) = g[n]
  BY <1>1, <1>2
<1> HIDE DEF g
<1> QED
  BY <1>6, <1>7, <1>8

LEMMA WithoutTailsIs ==
    ASSUME NEW t \in Texts
    PROVE  WithoutTails(t) \in Texts
<1>1. PICK g : /\ g[0] = <<>>
               /\ \A k \in 1 .. Len(t) : g[k] = Trimming(g[k - 1], t[k])
               /\ FoldLeft(Trimming, <<>>, t) = g[Len(t)]
  BY TrimSteps
<1> DEFINE S == {k \in 0 .. Len(t) : g[k] \in Texts}
<1>2. Len(t) \in Nat /\ \A i \in 1 .. Len(t) : t[i] \in Lines
  BY DEF Texts
<1>3. 0 \in S
  <2>1. g[0] = <<>>
    BY <1>1
  <2>2. <<>> \in Texts /\ 0 \in 0 .. Len(t)
    BY <1>2 DEF Texts
  <2> QED
    BY <2>1, <2>2
<1>4. ASSUME NEW k \in 1 .. Len(t), k - 1 \in S PROVE k \in S
  <2>1. g[k] \in Texts
    BY <1>1, <1>2, <1>4, TrimmingIs
  <2> QED
    BY <1>2, <2>1
<1>5. Len(t) \in S
  <2>1. Len(t) \in 0 .. Len(t)
    BY <1>2
  <2> HIDE DEF S
  <2> QED
    BY <1>2, <1>3, <1>4, <2>1, UpTo
<1> DEFINE short == FoldLeft(Trimming, <<>>, t)
<1>6. short \in Texts
  BY <1>1, <1>5
<1>7. WithoutTails(t) = IF EndsBlank(short) THEN Front(short) ELSE short
  BY DEF WithoutTails
<1> HIDE DEF short
<1>8. EndsBlank(short) => Front(short) \in Texts
  <2> SUFFICES ASSUME short # <<>> PROVE Front(short) \in Texts
    BY DEF EndsBlank
  <2>1. Len(short) \in Nat \ {0}
    BY <1>6 DEF Texts
  <2>2. Len(short) - 1 \in 0 .. Len(short) /\ 1 \in Nat \ {0}
    BY <2>1
  <2> QED
    BY <1>6, <2>2, SliceIs DEF Front, Texts
<1> QED
  BY <1>6, <1>7, <1>8

-----------------------------------------------------------------------------
(* The methods, and the text that the files have.                             *)

Typed ==
    /\ disk \in [Files -> Texts]
    /\ method \in Methods
    /\ pc = "work" => method # "CheckUsingIncludesCount"

LEMMA ResultsAre ==
    ASSUME NEW m \in OfIncludes, NEW f, NEW text \in Texts, NEW u \in Results(m, f, text)
    PROVE  Cleaner(f, IncludesOf(text), text, u)
<1>1. Results(m, f, text) = Replaced(text, Scanned(m, f, text).toReplace)
  BY DEF Results, OfIncludes
<1>2. IncludesOf(text) \in SUBSET IncludeLines
  BY DEF IncludesOf
<1> QED
  BY <1>1, <1>2, ScannedIs, ReplacedIs

LEMMA ResultsAreTexts ==
    ASSUME NEW m \in Methods, NEW f, NEW text \in Texts, NEW u \in Results(m, f, text),
           m # "CheckUsingIncludesCount"
    PROVE  u \in Texts
<1>1. /\ Len(text) \in Nat /\ DOMAIN text = 1 .. Len(text)
      /\ \A i \in 1 .. Len(text) : text[i] \in Lines
  BY DEF Texts
<1>2. CASE m = "RemoveWhitespace"
  <2>1. u = WithoutTails(text)
    BY <1>2 DEF Results
  <2> QED
    BY <2>1, WithoutTailsIs
<1>3. CASE m = "ReplaceTabs"
  <2>1. u = WithoutTabs(text)
    BY <1>3 DEF Results
  <2>2. \A line \in Lines : <<line[1], Spaces>> \in Lines
    BY DEF Lines, Tails
  <2>3. u \in [1 .. Len(text) -> Lines]
    BY <1>1, <2>1, <2>2 DEF WithoutTabs
  <2> QED
    BY <1>1, <2>3, TextIs DEF Texts
<1>4. CASE m \in OfIncludes
  BY <1>4, ResultsAre DEF Cleaner
<1> QED
  BY <1>2, <1>3, <1>4 DEF Methods, OfIncludes

LEMMA TypedAtFirst == Init => Typed /\ ChosenInv
<1> SUFFICES ASSUME Init PROVE Typed /\ ChosenInv
  OBVIOUS
<1>1. disk \in [Files -> Texts]
  BY CleanupAssumption DEF Init, Texts, Lines, Tails
<1> QED
  BY <1>1 DEF Init, Typed, Methods, ChosenInv

(* What the turn of the loop for f leaves of the files. *)
LEMMA WrittenIs ==
    ASSUME Typed, NEW f \in Files, CleanFile(f) \/ WriteBreaksOff(f)
    PROVE  /\ disk[f] \in Texts /\ disk'[f] \in Texts
           /\ \A g \in Files : g # f => disk'[g] = disk[g]
           /\ disk' \in [Files -> Texts]
           /\ method \in OfIncludes =>
                 /\ ~broken' => Linked(disk[f], disk'[f])
                 /\ OneOwnIn(f, IncludesOf(disk[f])) => NotFarther(f, disk'[f], disk[f])
<1>0. disk \in [Files -> Texts] /\ disk[f] \in Texts /\ method \in Methods
      /\ method # "CheckUsingIncludesCount"
  BY DEF Typed, CleanFile, WriteBreaksOff
<1>1. CASE CleanFile(f)
  <2>1. PICK text \in Results(method, f, disk[f]) \union {disk[f]} :
           disk' = [disk EXCEPT ![f] = text]
    BY <1>1 DEF CleanFile
  <2>2. disk'[f] = text /\ \A g \in Files : g # f => disk'[g] = disk[g]
    BY <1>0, <2>1
  <2>3. text \in Texts
    BY <1>0, <2>1, ResultsAreTexts
  <2>4. method \in OfIncludes => Cleaner(f, IncludesOf(disk[f]), disk[f], text)
    BY <1>0, <2>1, ResultsAre, CleanerSame
  <2> QED
    BY <1>0, <2>1, <2>2, <2>3, <2>4 DEF Cleaner
<1>2. CASE WriteBreaksOff(f)
  <2>0. PICK text \in Results(method, f, disk[f]) \ {disk[f]} :
           \E n \in 0 .. Len(text) - 1 : disk' = [disk EXCEPT ![f] = SubSeq(text, 1, n)]
    BY <1>2 DEF WriteBreaksOff
  <2>1. PICK n \in 0 .. Len(text) - 1 : disk' = [disk EXCEPT ![f] = SubSeq(text, 1, n)]
    BY <2>0
  <2> DEFINE part == SubSeq(text, 1, n)
  <2>2. text \in Texts
    BY <1>0, <2>0, ResultsAreTexts
  <2>3. Len(text) \in Nat /\ n \in Nat /\ n \in 0 .. Len(text) /\ n < Len(text)
    BY <2>1, <2>2 DEF Texts
  <2>4. part \in Texts /\ Len(part) = n
    BY <2>2, <2>3, SliceIs DEF Texts
  <2> HIDE DEF part
  <2>5. disk'[f] = part /\ \A g \in Files : g # f => disk'[g] = disk[g]
    BY <1>0, <2>1 DEF part
  <2>6. disk' \in [Files -> Texts]
    BY <1>0, <2>1, <2>4 DEF part
  <2>7. ASSUME method \in OfIncludes, OneOwnIn(f, IncludesOf(disk[f]))
        PROVE  NotFarther(f, part, disk[f])
    <3>1. NotFarther(f, text, disk[f])
      BY <1>0, <2>0, <2>7, ResultsAre DEF Cleaner
    <3>2. Len(disk[f]) \in Nat /\ (Len(text) < Len(disk[f]) \/ Len(text) = Len(disk[f]))
      BY <1>0, <2>2, <3>1, NotLonger
    <3>3. Len(part) < Len(disk[f])
      BY <2>3, <2>4, <3>2
    <3> QED
      BY <3>3 DEF NotFarther, Closer
  <2>8. broken'
    BY <1>2 DEF WriteBreaksOff
  <2> QED
    BY <1>0, <2>4, <2>5, <2>6, <2>7, <2>8
<1> QED
  BY <1>1, <1>2

LEMMA TypedIsKept == Typed /\ [Next]_vars => Typed'
<1> SUFFICES ASSUME Typed, [Next]_vars PROVE Typed'
  OBVIOUS
<1>1. ASSUME NEW m \in Methods, Select(m) PROVE Typed'
  BY <1>1 DEF Typed, Select
<1>2. CASE WrongPath
  BY <1>2 DEF Typed, WrongPath
<1>3. ASSUME NEW d \in Dirs, FillFileList(d) PROVE Typed'
  BY <1>3 DEF Typed, FillFileList
<1>4. ASSUME NEW yes \in BOOLEAN, Confirm(yes) PROVE Typed'
  BY <1>4 DEF Typed, Confirm
<1>5. ASSUME NEW f \in Files, CleanFile(f) \/ WriteBreaksOff(f) PROVE Typed'
  <2>1. disk' \in [Files -> Texts]
    BY <1>5, WrittenIs
  <2>2. method' = method /\ pc = "work"
    BY <1>5 DEF CleanFile, WriteBreaksOff
  <2> QED
    BY <2>1, <2>2 DEF Typed
<1>6. CASE UNCHANGED vars
  BY <1>6 DEF Typed, vars
<1> QED
  BY <1>1, <1>2, <1>3, <1>4, <1>5, <1>6 DEF Next

(* Only a turn of the loop writes a file. *)
LEMMA OnlyTurnsWrite ==
    ASSUME [Next]_vars, disk' # disk
    PROVE  \E f \in Files : CleanFile(f) \/ WriteBreaksOff(f)
  BY DEF Next, Select, WrongPath, FillFileList, Confirm, vars

LEMMA InvariantsHold == Spec => [](Typed /\ ChosenInv)
<1>1. Typed /\ ChosenInv /\ [Next]_vars => (Typed /\ ChosenInv)'
  BY TypedIsKept, ChosenIsKept
<1> QED
  BY <1>1, TypedAtFirst, PTL DEF Spec

-----------------------------------------------------------------------------
(* RewritesOnlyTheChosen: every file that a method rewrites (the loops of      *)
(* Cleanup.cpp over _localeFileStorage) lies where the user has sent the       *)
(* program in this run and has the extension the method asks for.              *)
THEOREM OnlyTheChosenAreRewritten == Spec => RewritesOnlyTheChosen
<1>1. ASSUME Typed, ChosenInv, [Next]_vars, NEW f \in Files, disk'[f] # disk[f]
      PROVE  \E d \in path : f \in Searched(method, d) \intersect Extensions(method)
  <2>1. PICK g \in Files : CleanFile(g) \/ WriteBreaksOff(g)
    BY <1>1, OnlyTurnsWrite
  <2>2. g = f
    BY <1>1, <2>1, WrittenIs
  <2>3. pc = "work" /\ f \in todo
    BY <2>1, <2>2 DEF CleanFile, WriteBreaksOff
  <2> QED
    BY <1>1, <2>3 DEF ChosenInv
<1>2. Typed /\ ChosenInv /\ [Next]_vars =>
         [\A f \in Files : disk'[f] # disk[f] =>
             \E d \in path : f \in Searched(method, d) \intersect Extensions(method)]_vars
  BY <1>1
<1> QED
  BY <1>2, InvariantsHold, PTL DEF Spec, RewritesOnlyTheChosen

(* IncludesStay: whatever SortIncludes and CheckSameIncludes make of a text    *)
(* (Cleanup.cpp: the blocks they find, std::sort, the include of the file's     *)
(* own header, and the replacements of _toReplace one after the other), every  *)
(* other line stays, and every include stays between the same other lines,     *)
(* unless the write breaks off.                                                *)
THEOREM IncludesAreKept == Spec => IncludesStay
<1>1. ASSUME Typed, [Next]_vars, NEW f \in Files, method \in OfIncludes, ~broken'
      PROVE  SameBlocks(disk[f], disk'[f])
  <2>0. disk[f] \in Texts
    BY <1>1 DEF Typed
  <2>1. CASE disk'[f] = disk[f]
    BY <2>0, <2>1, LinkedSame, LinkedHasSameBlocks
  <2>2. CASE disk'[f] # disk[f]
    <3>1. PICK g \in Files : CleanFile(g) \/ WriteBreaksOff(g)
      BY <1>1, <2>2, OnlyTurnsWrite
    <3>2. g = f
      BY <1>1, <2>2, <3>1, WrittenIs
    <3>3. disk'[f] \in Texts /\ Linked(disk[f], disk'[f])
      BY <1>1, <3>1, <3>2, WrittenIs
    <3> QED
      BY <2>0, <3>3, LinkedHasSameBlocks
  <2> QED
    BY <2>1, <2>2
<1>2. Typed /\ [Next]_vars =>
         [\A f \in Files : method \in OfIncludes /\ ~broken' => SameBlocks(disk[f], disk'[f])]_vars
  BY <1>1
<1> QED
  BY <1>2, InvariantsHold, PTL DEF Spec, IncludesStay

(* A text with less than two different includes of the file's own header. *)
LEMMA OwnIsOne ==
    ASSUME NEW f, NEW text \in Texts,
           Cardinality({line \in ToSet(text) : line[1] = Own[f]}) < 2
    PROVE  OneOwnIn(f, IncludesOf(text))
<1> DEFINE own == {line \in ToSet(text) : line[1] = Own[f]}
<1>1. Len(text) \in Nat /\ DOMAIN text = 1 .. Len(text)
  BY DEF Texts
<1>2. IsFiniteSet(own)
  <2>1. text \in Surjection(1 .. Len(text), ToSet(text))
    BY <1>1 DEF ToSet, Surjection, Texts
  <2>2. IsFiniteSet(1 .. Len(text))
    BY <1>1, FS_Interval
  <2>3. IsFiniteSet(ToSet(text))
    BY <2>1, <2>2, FS_Surjection
  <2> QED
    BY <2>3, FS_Subset
<1>3. ASSUME NEW k \in own, NEW l \in own, k # l PROVE FALSE
  <2>1. IsFiniteSet({k}) /\ Cardinality({k}) = 1
    BY FS_Singleton
  <2>2. IsFiniteSet({k} \union {l}) /\ Cardinality({k} \union {l}) = 2
    <3>1. l \notin {k}
      BY <1>3
    <3> HIDE DEF own
    <3>2. /\ IsFiniteSet({k} \union {l})
          /\ Cardinality({k} \union {l}) =
                IF l \in {k} THEN Cardinality({k}) ELSE Cardinality({k}) + 1
      BY <2>1, FS_AddElement, Zenon
    <3> QED
      BY <2>1, <3>1, <3>2
  <2>3. {k} \union {l} \in SUBSET own
    OBVIOUS
  <2> HIDE DEF own
  <2>4. Cardinality({k} \union {l}) <= Cardinality(own) /\ Cardinality(own) \in Nat
    BY <1>2, <2>3, FS_Subset, FS_CardinalityType
  <2>5. Cardinality(own) < 2
    BY DEF own
  <2> QED
    BY <2>2, <2>4, <2>5
<1>4. \A k \in IncludesOf(text) : k[1] = Own[f] => k \in own
  BY DEF IncludesOf, ToSet
<1> QED
  BY <1>3, <1>4 DEF OneOwnIn

(* RewritingSettles: a file that SortIncludes or CheckSameIncludes rewrites     *)
(* (Cleanup.cpp) has become shorter or nearer to its order, whether the write   *)
(* broke off or not, so that running them again and again comes to an end,      *)
(* unless the file has two different includes of a header of its own name.     *)
THEOREM RewritingComesNearer == Spec => RewritingSettles
<1>1. ASSUME Typed, [Next]_vars, NEW f \in Files, method \in OfIncludes,
             disk'[f] # disk[f], Cardinality(OwnIncludes(f)) < 2
      PROVE  Closer(f, disk'[f], disk[f])
  <2>1. disk[f] \in Texts
    BY <1>1 DEF Typed
  <2>2. PICK g \in Files : CleanFile(g) \/ WriteBreaksOff(g)
    BY <1>1, OnlyTurnsWrite
  <2>3. g = f
    BY <1>1, <2>2, WrittenIs
  <2>4. OneOwnIn(f, IncludesOf(disk[f]))
    BY <1>1, <2>1, OwnIsOne DEF OwnIncludes
  <2>5. NotFarther(f, disk'[f], disk[f])
    BY <1>1, <2>2, <2>3, <2>4, WrittenIs
  <2> QED
    BY <1>1, <2>5 DEF NotFarther
<1>2. Typed /\ [Next]_vars =>
         [\A f \in Files :
             method \in OfIncludes /\ disk'[f] # disk[f] /\ Cardinality(OwnIncludes(f)) < 2
             => Closer(f, disk'[f], disk[f])]_vars
  BY <1>1
<1> QED
  BY <1>2, InvariantsHold, PTL DEF Spec, RewritingSettles
=============================================================================
