--------------------------- MODULE WorkspaceQueue ---------------------------
(***************************************************************************)
(* The queue of a workspace.  The status of a workspace names its active   *)
(* run and lists the runs behind it; the code rebuilds both at once, as    *)
(* one "combined queue" whose first member is the active run, and so does  *)
(* this module: a queue is the sequence <<active>> \o queue, and is empty  *)
(* when the workspace has no active run.                                   *)
(*                                                                         *)
(* The rebuilding is given twice: UpdateCombinedQueue is the loop of the   *)
(* code, applied to the runs in the order the informer cache lists them,   *)
(* and UpdatedQueues is the set of its outcomes over every listing order   *)
(* (the cache's namespace index is a hash map, so any order may come).     *)
(***************************************************************************)
EXTENDS Naturals, Sequences, SequencesExt

\* Run r is what the status calls Active.
IsActive(queue, r) == queue # <<>> /\ Head(queue) = r

-----------------------------------------------------------------------------
(* The loop: walk the current queue from its back, and move each run that  *)
(* is still wanted to the front of the new one.                            *)

\* Slip: the run is appended instead.
MoveToBack(r, newQ) ==
  IF Contains(newQ, r) THEN Append(RemoveFirst(newQ, r), r) ELSE newQ

MoveToFront(r, newQ) ==
  IF Contains(newQ, r) THEN <<r>> \o RemoveFirst(newQ, r) ELSE newQ

UpdateCombinedQueue(currQ, listed) == FoldRight(MoveToFront, currQ, listed)

-----------------------------------------------------------------------------
(* Its outcomes: every eligible run once, those already queued first and   *)
(* in their old order, the newcomers behind them in any order.             *)

KeepsPositions(currQ, newQ) ==
  \A i, j \in DOMAIN newQ :
    i < j /\ newQ[j] \in ToSet(currQ) =>
      \E a, b \in DOMAIN currQ :
        a < b /\ currQ[a] = newQ[i] /\ currQ[b] = newQ[j]

UpdatedQueues(currQ, eligible) ==
  {newQ \in SetToSeqs(eligible) : KeepsPositions(currQ, newQ)}
=============================================================================
