------------------------------ MODULE LossyFifo ------------------------------
(***************************************************************************)
(* What the two FIFOs of the audio pipeline promise together               *)
(* (src/src/audio.cpp:49-54): blocks of sound come out in the order in     *)
(* which they went in and at most once, and a block is left out only to    *)
(* make room for newer ones, or because it is refused, which is counted.   *)
(* Blocks are numbered 1, 2, ...                                           *)
(***************************************************************************)
EXTENDS Naturals

CONSTANT
    Keep  \* the newest blocks, this many, are never left out

VARIABLES
    pushed,   \* the number of the newest block
    waiting,  \* the blocks that may still come out
    last,     \* the last block that came out, 0 before the first
    refusals  \* how many blocks were refused

vars == <<pushed, waiting, last, refusals>>

Init == pushed = 0 /\ waiting = {} /\ last = 0 /\ refusals = 0

\* Of n blocks the k-th makes room for newer ones.
MayGo(k, n) == k + Keep <= n

\* A block goes in; one that is old enough may make room for it.
Push ==
    /\ pushed' = pushed + 1
    /\ \E gone \in SUBSET {k \in waiting : MayGo(k, pushed')} :
          waiting' = (waiting \cup {pushed'}) \ gone
    /\ UNCHANGED <<last, refusals>>

\* A block that is old enough makes room on the way.
Drop ==
    /\ \E k \in waiting : MayGo(k, pushed) /\ waiting' = waiting \ {k}
    /\ UNCHANGED <<pushed, last, refusals>>

\* The oldest block comes out.
Pop ==
    /\ \E k \in waiting :
          /\ k > last
          /\ \A j \in waiting : k <= j
          /\ waiting' = waiting \ {k}
          /\ last' = k
    /\ UNCHANGED <<pushed, refusals>>

\* One block cannot be passed on, whatever its age.
Refuse ==
    /\ \E k \in waiting : waiting' = waiting \ {k}
    /\ refusals' = refusals + 1
    /\ UNCHANGED <<pushed, last>>

Next == Push \/ Drop \/ Pop \/ Refuse

Spec == Init /\ [][Next]_vars
=============================================================================
