-------------------------------- MODULE Fifo --------------------------------
(***************************************************************************)
(* What every queue of common/Threading promises its callers: elements     *)
(* leave in the order they were put in, each of them once, and an element  *)
(* that is not handed to a caller is only ever destroyed together with     *)
(* everything else that is still queued.                                   *)
(*                                                                         *)
(* PCQueue, MPSCQueue and MPSCQueueIntrusive are each checked to implement *)
(* this specification.                                                     *)
(***************************************************************************)
EXTENDS Sequences

CONSTANT Items          \* what may be queued

VARIABLES q,            \* the elements that are queued, oldest first
          taken,        \* the elements handed out so far, in that order
          dropped       \* the elements the queue destroyed

fifoVars == <<q, taken, dropped>>

Init == q = <<>> /\ taken = <<>> /\ dropped = {}

Put(i) == /\ q' = Append(q, i)
          /\ UNCHANGED <<taken, dropped>>

Take == /\ q # <<>>
        /\ q' = Tail(q)
        /\ taken' = Append(taken, Head(q))
        /\ UNCHANGED dropped

(* A destructor empties the queue one element at a time... *)
Drop == /\ q # <<>>
        /\ q' = Tail(q)
        /\ dropped' = dropped \union {Head(q)}
        /\ UNCHANGED taken

(* ...and Cancel in one step. *)
Discard == /\ q' = <<>>
           /\ dropped' = dropped \union {q[n] : n \in DOMAIN q}
           /\ UNCHANGED taken

Next == (\E i \in Items : Put(i)) \/ Take \/ Drop \/ Discard

Spec == Init /\ [][Next]_fifoVars
=============================================================================
