---------------------------- MODULE CommandQueue ----------------------------
(***************************************************************************)
(* What a workspace promises its users: commands that change state go      *)
(* through a queue, first in first out, and only the one at its head       *)
(* executes.                                                               *)
(***************************************************************************)
EXTENDS Naturals, FiniteSets, Sequences, SequencesExt

CONSTANT Commands

VARIABLES
  queue,      \* the commands of the workspace, oldest first
  executing   \* the commands that have been started and have not ended

Init == queue = <<>> /\ executing = {}

\* The members of one sequence come in the order they have in another.
InOrder(front, q) ==
  \A i, j \in DOMAIN front :
    i < j => \E a, b \in DOMAIN q : a < b /\ q[a] = front[i] /\ q[b] = front[j]

\* Commands join at the back, in any order if several come at once; a command
\* that is not executing may leave from anywhere.  The others keep their order.
Update ==
  /\ \E leaving \in SUBSET (ToSet(queue) \ executing),
        joining \in SUBSET (Commands \ ToSet(queue)) :
       \E front \in SetToSeqs(ToSet(queue) \ leaving), back \in SetToSeqs(joining) :
         InOrder(front, queue) /\ queue' = front \o back
  /\ UNCHANGED executing

Start(c) ==
  /\ executing = {}
  /\ queue # <<>> /\ Head(queue) = c
  /\ executing' = {c}
  /\ UNCHANGED queue

End(c) ==
  /\ c \in executing
  /\ executing' = executing \ {c}
  /\ UNCHANGED queue

Next == Update \/ \E c \in Commands : Start(c) \/ End(c)

Spec == Init /\ [][Next]_<<queue, executing>>
=============================================================================
