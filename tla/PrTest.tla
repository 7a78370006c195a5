------------------------------- MODULE PrTest -------------------------------
(***************************************************************************)
(* The PrTest program (app/PrTest/Main.cpp): it makes a branch for a pull  *)
(* request from master and pulls the request into it, by git commands that *)
(* it launches as processes (common/Utilities/LaunchProcess.cpp, the       *)
(* branch for Windows).  It waits for every command but the checkouts,     *)
(* which go on while later commands, even of a later test, are running.    *)
(*                                                                         *)
(* A commit is the set of the changes it holds; a pull request is one      *)
(* change, and stands for the name of its branch, too.                     *)
(***************************************************************************)
EXTENDS Integers

CONSTANTS PRs,
          Master,
          Initial,      \* the branches at the start, a function to commits
          PipeSize,     \* what a pipe holds before its writer must wait
          MaxErrors,    \* bound: what `git remote show' writes to stderr
          MaxTests      \* bound: calls of TestPR

ASSUME PrTestAssumption ==
    /\ PRs \intersect (DOMAIN Initial \union {Master}) = {}
    /\ PipeSize \in Nat \ {0} /\ MaxErrors \in Nat /\ MaxTests \in Nat

VARIABLES isDirectory,  \* the repository is where it was
          hasPath,      \* _path is set
          stage,        \* where TestPR is, "menu", "exit" or "overflow"
          pr,           \* the request of this test
          tests,        \* calls of TestPR so far
          errors,       \* of `git remote show': to be written, and in the pipe
          branches,     \* a function from the branches to their commits
          head,         \* the branch that is checked out
          base,         \* the commit `git checkout -b' has read
          checkouts,    \* the checkouts that are running
          trouble,      \* a command failed, or began while a checkout of
                        \* another branch was running
          uncreated     \* the branch of a request could not be made

program == <<hasPath, stage, pr, tests>>
repository == <<branches, head>>
testVars == <<isDirectory, program, errors, repository, base, checkouts, trouble, uncreated>>

TestInit ==
    /\ isDirectory = TRUE
    /\ hasPath = FALSE
    /\ stage = "menu"
    /\ pr \in PRs
    /\ tests = 0
    /\ errors = [left |-> 0, piped |-> 0]
    /\ branches = Initial
    /\ head \in DOMAIN Initial
    /\ base = {}
    /\ checkouts = {}
    /\ trouble = FALSE
    /\ uncreated = FALSE

(* Whoever changes the working tree holds index.lock; the others give up.     *)
Locked == stage = "merging" \/ \E c \in checkouts : c.switching

(* A checkout of this test's own branch is in nobody's way.                   *)
Begins == trouble' = (trouble \/ \E c \in checkouts : c.branch # pr)
Fails == trouble' = TRUE
-----------------------------------------------------------------------------
TestPR ==
    /\ stage = "menu"
    /\ tests < MaxTests
    /\ tests' = tests + 1
    /\ stage' = "path"
    /\ UNCHANGED <<isDirectory, hasPath, pr, errors, repository, base, checkouts, trouble, uncreated>>

(* The path is asked for once.  If it is no directory any more, SendPathInfo  *)
(* calls itself until the stack is full.                                      *)
SendPathInfo ==
    /\ stage = "path"
    /\ hasPath' = isDirectory
    /\ IF isDirectory
       THEN /\ stage' = "upstream"
            /\ \E n \in 0 .. MaxErrors : errors' = [left |-> n, piped |-> 0]
       ELSE /\ hasPath
            /\ stage' = "overflow"
            /\ UNCHANGED errors
    /\ UNCHANGED <<isDirectory, pr, tests, repository, base, checkouts, trouble, uncreated>>

(* git writes to stderr, which nobody reads before stdout has ended.          *)
RemoteShowWrites ==
    /\ stage = "upstream"
    /\ errors.left > 0
    /\ errors.piped < PipeSize
    /\ errors' = [left |-> errors.left - 1, piped |-> errors.piped + 1]
    /\ UNCHANGED <<isDirectory, program, repository, base, checkouts, trouble, uncreated>>

(* Plausible bug: the write end of the pipe stays open in the parent. *)
NeverEnds == FALSE

StdoutEnds == errors.left = 0

(* Both pipes were read to their ends; the text says whether the upstream is  *)
(* there.  The user may refuse, or enters a request.                          *)
IsCorrectUpstream ==
    /\ stage = "upstream"
    /\ StdoutEnds
    /\ errors' = [left |-> 0, piped |-> 0]
    /\ \/ stage' = "menu" /\ UNCHANGED pr
       \/ stage' = "exists" /\ pr' \in PRs
    /\ UNCHANGED <<isDirectory, hasPath, tests, repository, base, checkouts, trouble, uncreated>>

IsExistBranch(b) == b \in DOMAIN branches

(* A git that fails lists no branch, either. *)
NewBranch ==
    /\ stage = "exists"
    /\ \/ IsExistBranch(pr) /\ stage' = "menu" /\ UNCHANGED trouble
       \/ ~IsExistBranch(pr) /\ stage' = "master" /\ UNCHANGED trouble
       \/ stage' = "master" /\ Fails
    /\ UNCHANGED <<isDirectory, hasPath, pr, tests, errors, repository, base, checkouts, uncreated>>

(* Plausible bug: the branch is made from whatever is checked out. *)
SkipsCheckout(b, next) == stage' = next /\ UNCHANGED <<checkouts, trouble>>

(* Launched, not waited for, if git lists the branch. *)
Checkout(b, next) ==
    /\ stage' = next
    /\ \/ /\ IsExistBranch(b)
          /\ checkouts' = checkouts \union
                            {[test |-> tests, branch |-> b, switching |-> FALSE]}
          /\ Begins
       \/ Fails /\ UNCHANGED checkouts

CheckoutMaster ==
    /\ stage = "master"
    /\ Checkout(Master, "create")
    /\ UNCHANGED <<isDirectory, hasPath, pr, tests, errors, repository, base, uncreated>>

(* git checkout -b starts from what is checked out now. *)
CreateBranch ==
    /\ stage = "create"
    /\ stage' = "creating"
    /\ base' = branches[head]
    /\ Begins
    /\ UNCHANGED <<isDirectory, hasPath, pr, tests, errors, repository, checkouts, uncreated>>

(* Plausible bug: the branch is made by `git branch', without a checkout. *)
StaysBehind == head

OnNewBranch == pr

BranchCreated ==
    /\ stage = "creating"
    /\ stage' = "checkout"
    /\ \/ /\ pr \notin DOMAIN branches
          /\ branches' = [b \in DOMAIN branches \union {pr} |->
                            IF b = pr THEN base ELSE branches[b]]
          /\ head' = OnNewBranch
          /\ UNCHANGED <<trouble, uncreated>>
       \/ /\ Fails /\ uncreated' = TRUE
          /\ UNCHANGED repository
    /\ base' = {}
    /\ UNCHANGED <<isDirectory, hasPath, pr, tests, errors, checkouts>>

CheckoutBranch ==
    /\ stage = "checkout"
    /\ Checkout(pr, "pull")
    /\ UNCHANGED <<isDirectory, hasPath, pr, tests, errors, repository, base, uncreated>>

(* git pull fetches and then merges into what is checked out by then.         *)
CheckoutPR ==
    /\ stage = "pull"
    /\ \/ stage' = "fetched" /\ Begins
       \/ stage' = "next" /\ Fails
    /\ UNCHANGED <<isDirectory, hasPath, pr, tests, errors, repository, base, checkouts, uncreated>>

Merge ==
    /\ stage = "fetched"
    /\ \/ ~Locked /\ stage' = "merging" /\ Begins
       \/ stage' = "next" /\ Fails
    /\ UNCHANGED <<isDirectory, hasPath, pr, tests, errors, repository, base, checkouts, uncreated>>

Pulled ==
    /\ stage = "merging"
    /\ stage' = "next"
    /\ branches' = [branches EXCEPT ![head] = @ \union {pr}]
    /\ UNCHANGED <<isDirectory, hasPath, pr, tests, errors, head, base, checkouts, trouble, uncreated>>

(* The program can be left at either question; its checkouts go on.           *)
GoNext ==
    /\ stage \in {"next", "menu"}
    /\ stage' \in {"menu", "exit"} \ {stage}
    /\ UNCHANGED <<isDirectory, hasPath, pr, tests, errors, repository, base, checkouts, trouble, uncreated>>
-----------------------------------------------------------------------------
(* A checkout begins to change the working tree, or gives up: it must, while  *)
(* the tree is locked, and may for other reasons.                             *)
Switch(c) ==
    /\ ~c.switching
    /\ \/ /\ ~Locked
          /\ checkouts' = (checkouts \ {c}) \union {[c EXCEPT !.switching = TRUE]}
          /\ UNCHANGED trouble
       \/ /\ checkouts' = checkouts \ {c}
          /\ Fails
    /\ UNCHANGED <<isDirectory, program, errors, repository, base, uncreated>>

Switched(c) ==
    /\ c.switching
    /\ checkouts' = checkouts \ {c}
    /\ head' = c.branch
    /\ UNCHANGED <<isDirectory, program, errors, branches, base, trouble, uncreated>>

(* The user moves the repository away. *)
Moved ==
    /\ stage = "menu" /\ checkouts = {} /\ hasPath
    /\ isDirectory
    /\ isDirectory' = FALSE
    /\ UNCHANGED <<program, errors, repository, base, checkouts, trouble, uncreated>>

Git == RemoteShowWrites \/ BranchCreated \/ Merge \/ Pulled
Program == \/ SendPathInfo \/ IsCorrectUpstream \/ NewBranch \/ CheckoutMaster
           \/ CreateBranch \/ CheckoutBranch \/ CheckoutPR

TestNext ==
    \/ TestPR \/ GoNext \/ Moved
    \/ Program
    \/ Git
    \/ \E c \in checkouts : Switch(c) \/ Switched(c)

TestSpec == TestInit /\ [][TestNext]_testVars /\ WF_testVars(Program) /\ WF_testVars(Git)
-----------------------------------------------------------------------------
(* As long as no command failed and none began while a checkout of another    *)
(* branch was running, a test leaves its branch checked out with master and   *)
(* the request in it, whatever was checked out before, and the branches that  *)
(* were there as they were.  That the second checkout is still running when   *)
(* the request is pulled does no harm (PrTest/Main.cpp:169-178).              *)
EachPRInItsBranch ==
    ~trouble /\ stage = "next" =>
        /\ head = pr
        /\ branches[pr] = Initial[Master] \union {pr}
        /\ \A b \in DOMAIN Initial : branches[b] = Initial[b]

(* The request is pulled into whatever is checked out when git merges, and    *)
(* any number of checkouts may still be running then, or have failed.  It may *)
(* get into master, or into the branch of an earlier request; but once git    *)
(* has made the branches, no way of overlapping or failing leads the merge    *)
(* into a branch that somebody works on (PrTest/Main.cpp:175-178,             *)
(* LaunchProcess.cpp:98, 225).                                                *)
OwnBranchesAreUntouched ==
    ~uncreated => \A b \in DOMAIN Initial \ {Master} : branches[b] = Initial[b]

(* A test comes to its end, or at least to a question, if the errors of       *)
(* `git remote show' fit into a pipe: a pipe that is full is read only after  *)
(* the process has ended, which waits for the pipe                            *)
(* (LaunchProcess.cpp:142-149).                                               *)
TestEnds ==
    stage = "upstream" /\ errors.left + errors.piped <= PipeSize
        ~> stage \in {"menu", "next"}
=============================================================================
