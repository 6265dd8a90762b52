--------------------------- MODULE Operator_proofs ---------------------------
(***************************************************************************)
(* Proofs about the operator, for any runs and any lagging caches; that    *)
(* it implements the promised queue needs the workspace itself not to lag. *)
(***************************************************************************)
EXTENDS Operator, FiniteSetTheorems, SequenceTheorems, WellFoundedInduction, TLAPS

-----------------------------------------------------------------------------
(* A rebuilt queue is a sequence of eligible runs.                         *)

LEMMA UpdatedQueueType ==
  ASSUME NEW currQ, NEW eligible \in SUBSET Runs,
         NEW q \in UpdatedQueues(currQ, eligible)
  PROVE  q \in Seq(Runs) /\ ToSet(q) \subseteq eligible
<1>1. IsFiniteSet(eligible)
  BY RunsAssumption, FS_Subset
<1>2. Cardinality(eligible) \in Nat
  BY <1>1, FS_CardinalityType
<1>3. q \in [1..Cardinality(eligible) -> eligible]
  BY DEF UpdatedQueues, SetToSeqs
<1>4. QED
  BY <1>2, <1>3 DEF ToSet

\* The run reconciler's queue test is about a member of the queue.
LEMMA ActiveIsMember ==
  ASSUME NEW q \in Seq(Runs), NEW r, IsActive(q, r)
  PROVE  r \in ToSet(q)
BY DEF IsActive, ToSet

-----------------------------------------------------------------------------
(* Types.                                                                  *)

LEMMA TypeInit == Init => TypeOK
<1> SUFFICES ASSUME Init PROVE TypeOK
  OBVIOUS
<1>1. ws \in Workspace /\ wsCache \in Workspace
  BY DEF Init, Workspace
<1>2. runs \in [Runs -> Run] /\ runCache \in [Runs -> Run]
  BY DEF Init, NewRun, Run, Status, Reasons
<1>3. pods \in [Runs -> PodPhases] /\ podCache \in [Runs -> PodPhases]
  BY DEF Init, PodPhases
<1>4. ww \in WorkspaceWorker /\ rw \in RunWorker
  BY DEF Init, WorkspaceWorker, RunWorker
<1>5. QED
  BY <1>1, <1>2, <1>3, <1>4, RunsAssumption DEF Init, TypeOK

\* What the reconcilers read is well typed.
LEMMA ReadTypes ==
  ASSUME TypeOK
  PROVE  /\ GetWorkspace \in Workspace
         /\ \A r \in Runs : GetRun(r) \in Run /\ GetPod(r) \in PodPhases
         /\ \A S : PruneApprovals(S) \subseteq S
         /\ \A S : EligibleRuns(S) \subseteq Queueable
BY DEF TypeOK, GetWorkspace, GetRun, GetPod, PruneApprovals, EligibleRuns

\* What the workers hold is well typed.
LEMMA WorkerTypes ==
  ASSUME TypeOK
  PROVE  /\ ww # Idle => ww.queue \in Seq(Runs)
         /\ rw.pc \in {"idle", "chain", "status"}
         /\ rw.pc # "idle" => rw.run \in Runs /\ rw.status \in Status
         /\ rw.pc = "chain" => rw.queue \in Seq(Runs)
         /\ rw.pc = "status" => rw.backoff \in BOOLEAN
BY DEF TypeOK, WorkspaceWorker, RunWorker, Idle

\* What a step of the chain hands to the status update is well typed.
LEMMA SetStatusType ==
  ASSUME TypeOK, rw.pc = "chain",
         NEW complete \in Reasons, NEW failed \in BOOLEAN,
         NEW backoff \in BOOLEAN, SetStatus(complete, failed, backoff)
  PROVE  rw' \in RunWorker
<1>1. rw.run \in Runs
  BY WorkerTypes
<1>2. [complete |-> complete, failed |-> failed] \in Status
  BY DEF Status
<1>3. QED
  BY <1>1, <1>2 DEF SetStatus, RunWorker

LEMMA TypeStep == TypeOK /\ [Next]_vars => TypeOK'
<1> SUFFICES ASSUME TypeOK, [Next]_vars PROVE TypeOK'
  OBVIOUS
<1> USE DEF TypeOK, Workspace
<1>1. CASE SyncWorkspace
  BY <1>1 DEF SyncWorkspace, Sync, wsVars, runVars, podVars, workers
<1>2. CASE SyncRuns
  BY <1>2 DEF SyncRuns, Sync, wsVars, runVars, podVars, workers
<1>3. CASE SyncPods
  BY <1>3 DEF SyncPods, Sync, wsVars, runVars, podVars, workers
<1>4. CASE ReconcileWorkspace
  <2>1. PICK q \in UpdatedQueues(GetWorkspace.queue,
                     EligibleRuns(PruneApprovals(GetWorkspace.approvals))) :
          ww' = [pc |-> "status", queue |-> q]
    BY <1>4 DEF ReconcileWorkspace
  <2>2. q \in Seq(Runs)
    BY <2>1, ReadTypes, UpdatedQueueType, RunsAssumption
  <2>3. ww' \in WorkspaceWorker
    BY <2>1, <2>2 DEF WorkspaceWorker
  <2>4. PruneApprovals(GetWorkspace.approvals) \subseteq Runs
    BY ReadTypes
  <2>5. ws' \in Workspace /\ wsBehind' \in BOOLEAN
    BY <1>4, <2>4 DEF ReconcileWorkspace, PutWorkspace, wsVars
  <2>6. QED
    BY <1>4, <2>3, <2>5, RunsAssumption
    DEF ReconcileWorkspace, runVars, podVars, caches
<1>5. CASE UpdateWorkspaceStatus
  BY <1>5, WorkerTypes
  DEF UpdateWorkspaceStatus, PutWorkspace, WorkspaceWorker, wsVars, runVars,
      podVars, caches
<1>6. ASSUME NEW r \in Runs, DropRun(r) PROVE TypeOK'
  BY <1>6 DEF DropRun, Remaining, wsVars, runVars, podVars, caches, workers
<1>7. ASSUME NEW r \in Runs, FailOnArchive(r) \/ ReconcileRun(r)
      PROVE  TypeOK'
  <2>0. AdoptRun(r)
    BY <1>7 DEF FailOnArchive, ReconcileRun
  <2>1. runs' \in [Runs -> Run] /\ runsBehind' \subseteq Runs
    BY <2>0 DEF AdoptRun, PutRun, Run
  <2>2. rw' \in RunWorker
    <3>1. CASE FailOnArchive(r)
      BY <3>1 DEF FailOnArchive
    <3>2. CASE ReconcileRun(r)
      BY <3>2, ReadTypes DEF ReconcileRun, AdoptRun, RunWorker, Run
    <3>3. QED
      BY <1>7, <3>1, <3>2
  <2>3. QED
    BY <1>7, <2>1, <2>2
    DEF FailOnArchive, ReconcileRun, AdoptRun, Remaining, wsVars, podVars,
        caches
<1>8. CASE ManageQueue
  <2>1. rw' \in RunWorker
    BY <1>8, SetStatusType DEF ManageQueue, Reasons
  <2>2. QED
    BY <1>8, <2>1 DEF ManageQueue, wsVars, runVars, podVars, caches, todo
<1>9. CASE CreatePod
  <2>1. rw' \in RunWorker
    <3>1. rw.status.complete \in Reasons /\ rw.run \in Runs
      BY <1>9, WorkerTypes DEF CreatePod, Status
    <3>2. QED
      BY <1>9, <3>1, SetStatusType DEF CreatePod, Reasons
  <2>2. pods' \in [Runs -> PodPhases] /\ podsBehind' \subseteq Runs
    <3>1. rw.run \in Runs
      BY <1>9, WorkerTypes DEF CreatePod
    <3>2. QED
      <4>1. CASE pods[rw.run] = "none"
        BY <1>9, <3>1, <4>1 DEF CreatePod, PutPod, PodPhases
      <4>2. CASE pods[rw.run] # "none"
        BY <1>9, <4>2 DEF CreatePod, podVars
      <4>3. QED
        BY <4>1, <4>2
  <2>3. QED
    BY <1>9, <2>1, <2>2 DEF CreatePod, wsVars, runVars, caches, todo
<1>10. CASE ReportPod
  <2>1. GetPod(rw.run) \in PodPhases
    BY <1>10, WorkerTypes, ReadTypes DEF ReportPod
  <2>2. ReasonOf(GetPod(rw.run)) \in Reasons
    BY <1>10, <2>1 DEF ReportPod, ReasonOf, PodPhases, Reasons
  <2>3. rw' \in RunWorker
    BY <1>10, <2>2, SetStatusType DEF ReportPod
  <2>4. QED
    BY <1>10, <2>3 DEF ReportPod, wsVars, runVars, podVars, caches, todo
<1>11. CASE UpdateRunStatus
  <2>1. rw.run \in Runs /\ rw.status \in Status
    BY <1>11, WorkerTypes DEF UpdateRunStatus
  <2>2. runs' \in [Runs -> Run] /\ runsBehind' \subseteq Runs
    <3>1. runs[rw.run] \in Run
      BY <2>1
    <3>2. [runs[rw.run] EXCEPT !.status = rw.status] \in Run
      BY <2>1, <3>1 DEF Run
    <3>3. QED
      BY <1>11, <2>1, <3>2 DEF UpdateRunStatus, PutRun, runVars
  <2>3. rw' \in RunWorker
    BY <1>11 DEF UpdateRunStatus, RunWorker
  <2>4. QED
    BY <1>11, <2>1, <2>2, <2>3 DEF UpdateRunStatus, wsVars, podVars, caches
<1>12. ASSUME NEW r \in Runs, CreateRun(r) PROVE TypeOK'
  BY <1>12
  DEF CreateRun, PutRun, Run, wsVars, podVars, caches, todo, workers
<1>13. ASSUME NEW r \in Runs, ApproveRun(r) PROVE TypeOK'
  BY <1>13
  DEF ApproveRun, PutWorkspace, runVars, podVars, caches, todo, workers
<1>14. ASSUME NEW r \in Runs, DeleteRun(r) PROVE TypeOK'
  BY <1>14
  DEF DeleteRun, PutRun, NewRun, Run, Status, Reasons, wsVars, podVars, caches,
      todo, workers
<1>15. ASSUME NEW r \in Runs, StartPod(r) \/ TerminatePod(r) \/ CollectPod(r)
       PROVE  TypeOK'
  BY <1>15
  DEF StartPod, TerminatePod, CollectPod, SetPod, PutPod, PodPhases, wsVars,
      runVars, caches, todo, workers
<1>16. CASE UNCHANGED vars
  BY <1>16 DEF vars
<1>17. QED
  BY <1>1, <1>2, <1>3, <1>4, <1>5, <1>6, <1>7, <1>8, <1>9, <1>10, <1>11, <1>12,
     <1>13, <1>14, <1>15, <1>16
  DEF Next, Watch, WorkspaceController, RunController, RunChain, Client,
      Kubernetes

\* Every reachable state is well typed.
THEOREM TypeCorrect == Spec => []TypeOK
BY TypeInit, TypeStep, PTL DEF Spec

-----------------------------------------------------------------------------
(* Approvals.  A privileged queueable run reaches a pod along one path     *)
(* only: approved by a client, then in the approvals of some version of    *)
(* the workspace, then in the queue the workspace worker computes, then in *)
(* the queue of a version of the workspace, then in the queue the run      *)
(* worker holds.  The invariant says that every stop of it, however stale, *)
(* holds approved runs only.                                               *)

Gated == Queueable \cap Privileged

Clear(S) == S \cap Gated \subseteq approved

ApprovalInv ==
  /\ ws.approvals \subseteq approved /\ wsCache.approvals \subseteq approved
  /\ Clear(ToSet(ws.queue)) /\ Clear(ToSet(wsCache.queue))
  /\ ww # Idle => Clear(ToSet(ww.queue))
  /\ rw.pc = "chain" => Clear(ToSet(rw.queue))
  /\ PodsAreApproved

LEMMA ApprovalInit == Init => ApprovalInv
<1>1. ToSet(<<>>) = {}
  BY DEF ToSet
<1>2. Init => rw.pc # "chain"
  BY DEF Init, Idle
<1>3. QED
  BY <1>1, <1>2, RunsAssumption DEF Init, ApprovalInv, Clear, Gated, PodsAreApproved

\* Only approved runs pass the filter of updateCombinedQueue.
LEMMA EligibleIsClear ==
  ASSUME NEW approvals, approvals \subseteq approved
  PROVE  Clear(EligibleRuns(approvals))
BY DEF Clear, EligibleRuns, Gated

LEMMA ApprovalStep ==
  TypeOK /\ ApprovalInv /\ [Next]_vars => ApprovalInv'
<1> SUFFICES ASSUME TypeOK, ApprovalInv, [Next]_vars PROVE ApprovalInv'
  OBVIOUS
<1> USE DEF ApprovalInv, Clear, PodsAreApproved
<1>1. CASE SyncWorkspace
  BY <1>1 DEF SyncWorkspace, Sync, podVars, workers
<1>2. CASE SyncRuns
  BY <1>2 DEF SyncRuns, wsVars, podVars, workers
<1>3. CASE SyncPods
  BY <1>3 DEF SyncPods, wsVars, workers
<1>4. CASE ReconcileWorkspace
  <2> DEFINE read == GetWorkspace
             kept == PruneApprovals(read.approvals)
  <2>1. kept \subseteq approved
    BY ReadTypes DEF GetWorkspace
  <2>2. PICK q \in UpdatedQueues(read.queue, EligibleRuns(kept)) :
          ww' = [pc |-> "status", queue |-> q]
    BY <1>4 DEF ReconcileWorkspace
  <2>3. ToSet(q) \subseteq EligibleRuns(kept)
    BY <2>2, ReadTypes, UpdatedQueueType, RunsAssumption
  <2>4. Clear(ToSet(q))
    BY <2>1, <2>3, EligibleIsClear
  <2>5. ToSet(ww'.queue) \cap Gated \subseteq approved'
    BY <1>4, <2>2, <2>4 DEF ReconcileWorkspace
  <2>6. ws'.approvals \subseteq approved' /\ ws'.queue = ws.queue
    BY <1>4, <2>1 DEF ReconcileWorkspace, PutWorkspace, wsVars, TypeOK, Workspace
  <2>7. QED
    BY <1>4, <2>5, <2>6 DEF ReconcileWorkspace, runVars, podVars, caches
<1>5. CASE UpdateWorkspaceStatus
  <2>1. ws'.approvals = ws.approvals
    BY <1>5 DEF UpdateWorkspaceStatus, PutWorkspace, TypeOK, Workspace, wsVars
  <2>2. ws'.queue = ws.queue \/ ws'.queue = ww.queue
    BY <1>5 DEF UpdateWorkspaceStatus, PutWorkspace, TypeOK, Workspace, wsVars
  <2>3. ToSet(ws'.queue) \cap Gated \subseteq approved
    BY <1>5, <2>2 DEF UpdateWorkspaceStatus
  <2>4. QED
    BY <1>5, <2>1, <2>3 DEF UpdateWorkspaceStatus, runVars, podVars, caches
<1>6. ASSUME NEW r \in Runs, DropRun(r) PROVE ApprovalInv'
  BY <1>6 DEF DropRun, wsVars, podVars, caches, workers
<1>7. ASSUME NEW r \in Runs, FailOnArchive(r) \/ ReconcileRun(r)
      PROVE  ApprovalInv'
  <2>1. Clear(ToSet(GetWorkspace.queue))
    BY DEF GetWorkspace
  <2>2. QED
    BY <1>7, <2>1
    DEF FailOnArchive, ReconcileRun, AdoptRun, wsVars, podVars, caches
<1>8. CASE RunChain
  <2>1. rw'.pc = "status" /\ UNCHANGED <<wsVars, caches, ww, approved>>
    BY <1>8 DEF RunChain, ManageQueue, CreatePod, ReportPod, SetStatus
  <2>2. ASSUME NEW r \in Gated, pods'[r] # "none" PROVE r \in approved
    <3>1. CASE pods[r] # "none"
      BY <2>2, <3>1 DEF Gated
    <3>2. CASE pods[r] = "none"
      <4>1. CreatePod /\ pods[rw.run] = "none"
        BY <1>8, <2>2, <3>2
        DEF RunChain, ManageQueue, CreatePod, ReportPod, podVars
      <4>2. rw.run = r
        <5>1. pods \in [Runs -> PodPhases] /\ r \in Runs
          BY RunsAssumption DEF TypeOK, Gated
        <5>2. pods' = [pods EXCEPT ![rw.run] = "Pending"]
          BY <4>1 DEF CreatePod, PutPod
        <5>3. QED
          BY <2>2, <3>2, <5>1, <5>2
      <4>3. IsActive(rw.queue, r)
        BY <2>2, <4>1, <4>2 DEF CreatePod, MayProceed, Gated
      <4>4. r \in ToSet(rw.queue)
        BY <4>1, <4>3, WorkerTypes, ActiveIsMember DEF CreatePod
      <4>5. QED
        BY <2>2, <4>1, <4>4 DEF CreatePod
    <3>3. QED
      BY <3>1, <3>2
  <2>3. QED
    BY <2>1, <2>2 DEF Gated, wsVars, caches
<1>9. CASE UpdateRunStatus
  BY <1>9 DEF UpdateRunStatus, Idle, wsVars, podVars, caches
<1>10. ASSUME NEW r \in Runs, CreateRun(r) \/ DeleteRun(r) PROVE ApprovalInv'
  BY <1>10 DEF CreateRun, DeleteRun, wsVars, podVars, caches, workers
<1>11. ASSUME NEW r \in Runs, ApproveRun(r) PROVE ApprovalInv'
  <2>1. ws'.approvals = ws.approvals \cup {r} /\ ws'.queue = ws.queue
    BY <1>11 DEF ApproveRun, PutWorkspace, TypeOK, Workspace
  <2>2. QED
    BY <1>11, <2>1 DEF ApproveRun, podVars, caches, workers
<1>12. ASSUME NEW r \in Runs, StartPod(r) \/ TerminatePod(r) \/ CollectPod(r)
       PROVE  ApprovalInv'
  <2>1. \A s \in Runs : pods'[s] # "none" => pods[s] # "none"
    BY <1>12
    DEF StartPod, TerminatePod, CollectPod, SetPod, PutPod, TypeOK
  <2>2. QED
    BY <1>12, <2>1, RunsAssumption
    DEF StartPod, TerminatePod, CollectPod, SetPod, wsVars, caches, workers
<1>13. CASE UNCHANGED vars
  BY <1>13 DEF vars
<1>14. QED
  BY <1>1, <1>2, <1>3, <1>4, <1>5, <1>6, <1>7, <1>8, <1>9, <1>10, <1>11,
     <1>12, <1>13
  DEF Next, Watch, WorkspaceController, RunController, Client, Kubernetes

\* No privileged queueable run has a pod before a client approved it, for any
\* number of runs, any lag of the caches and any timing of the controllers.
THEOREM ApprovalSafety == Spec => []PodsAreApproved
<1>1. Init => TypeOK /\ ApprovalInv
  BY TypeInit, ApprovalInit
<1>2. TypeOK /\ ApprovalInv /\ [Next]_vars => (TypeOK /\ ApprovalInv)'
  BY TypeStep, ApprovalStep
<1>3. ApprovalInv => PodsAreApproved
  BY DEF ApprovalInv
<1>4. QED
  BY <1>1, <1>2, <1>3, PTL DEF Spec

-----------------------------------------------------------------------------
(* Done runs.  The controller asks its cache whether a run is done, and a  *)
(* cache that trails may say no.  What saves it is that the run is written *)
(* before anything is decided about it: the write succeeds only if the     *)
(* cache had the latest version, and from there to the status update the   *)
(* run worker is the only one to write the run's status.                   *)

DoneInv ==
  /\ \A r \in Runs : runs[r].object = "absent" => ~IsDone(runs[r].status)
  /\ "runs" \in Lag => \A r \in Runs \ runsBehind : runCache[r] = runs[r]
  /\ rw.pc # "idle" /\ Exists(runs[rw.run]) => ~IsDone(runs[rw.run].status)

LEMMA DoneInit == Init => DoneInv
BY DEF Init, DoneInv, NewRun, IsDone, Idle

\* A write to a run leaves the cache behind on that run or changes nothing.
LEMMA PutRunKeepsCache ==
  ASSUME TypeOK, DoneInv, NEW r \in Runs, NEW new, PutRun(r, new)
  PROVE  /\ "runs" \in Lag => \A s \in Runs \ runsBehind' : runCache[s] = runs'[s]
         /\ runs'[r] = new
         /\ \A s \in Runs \ {r} : runs'[s] = runs[s]
BY DEF TypeOK, DoneInv, PutRun

LEMMA DoneInvStep == TypeOK /\ DoneInv /\ [Next]_vars => DoneInv'
<1> SUFFICES ASSUME TypeOK, DoneInv, [Next]_vars PROVE DoneInv'
  OBVIOUS
<1> USE DEF Exists
<1>1. ASSUME UNCHANGED <<runVars, runCache>>, rw' = rw \/ rw'.pc = "idle" \/
             (rw.pc # "idle" /\ rw'.run = rw.run)
      PROVE  DoneInv'
  BY <1>1 DEF DoneInv, runVars
<1>2. CASE SyncWorkspace \/ SyncPods \/ WorkspaceController
  BY <1>1, <1>2
  DEF SyncWorkspace, SyncPods, WorkspaceController, ReconcileWorkspace,
      UpdateWorkspaceStatus, workers, caches
<1>3. CASE SyncRuns
  BY <1>3 DEF SyncRuns, Sync, DoneInv, workers
<1>4. ASSUME NEW r \in Runs, DropRun(r) PROVE DoneInv'
  BY <1>1, <1>4 DEF DropRun, workers, caches
<1>5. ASSUME NEW r \in Runs, FailOnArchive(r) \/ ReconcileRun(r)
      PROVE  DoneInv'
  <2>1. GetRun(r) = runs[r]
    BY <1>5
    DEF FailOnArchive, ReconcileRun, AdoptRun, GetRun, HasLatestRun, DoneInv
  <2>2. PutRun(r, [runs[r] EXCEPT !.adopted = TRUE])
    BY <1>5 DEF FailOnArchive, ReconcileRun, AdoptRun
  <2>3. /\ runs'[r].status = runs[r].status
        /\ runs'[r].object = runs[r].object
    BY <2>2, PutRunKeepsCache DEF TypeOK, Run
  <2>4. ~IsDone(runs'[r].status) /\ Exists(runs'[r])
    BY <1>5, <2>1, <2>3 DEF FailOnArchive, ReconcileRun, AdoptRun
  <2>5. rw'.run = r \/ rw'.pc = "idle"
    BY <1>5 DEF Idle, FailOnArchive, ReconcileRun, AdoptRun
  <2>6. UNCHANGED runCache
    BY <1>5 DEF FailOnArchive, ReconcileRun, AdoptRun, caches
  <2>7. \A s \in Runs : runs'[s].object = "absent" => ~IsDone(runs'[s].status)
    BY <2>2, <2>4, PutRunKeepsCache DEF DoneInv
  <2>8. QED
    BY <2>2, <2>4, <2>5, <2>6, <2>7, PutRunKeepsCache DEF DoneInv
<1>6. CASE RunChain
  BY <1>1, <1>6 DEF RunChain, ManageQueue, CreatePod, ReportPod, SetStatus, caches
<1>7. CASE UpdateRunStatus
  <2>1. rw' = Idle /\ UNCHANGED runCache /\ rw.run \in Runs
    BY <1>7, WorkerTypes DEF UpdateRunStatus, caches
  <2>2. CASE ~HasLatestRun(rw.run)
    BY <1>1, <1>7, <2>1, <2>2 DEF UpdateRunStatus, Idle
  <2>3. CASE HasLatestRun(rw.run)
    <3>1. PutRun(rw.run, [runs[rw.run] EXCEPT !.status = rw.status])
      BY <1>7, <2>3 DEF UpdateRunStatus
    <3>2. runs'[rw.run].object = "present"
      BY <2>1, <2>3, <3>1, PutRunKeepsCache DEF HasLatestRun, TypeOK, Run
    <3>3. QED
      BY <2>1, <3>1, <3>2, PutRunKeepsCache DEF DoneInv, Idle
  <2>4. QED
    BY <2>2, <2>3
<1>8. ASSUME NEW r \in Runs, CreateRun(r) PROVE DoneInv'
  <2>1. PutRun(r, [runs[r] EXCEPT !.object = "present"])
    BY <1>8 DEF CreateRun
  <2>2. runs'[r].object = "present" /\ ~IsDone(runs'[r].status)
    BY <1>8, <2>1, PutRunKeepsCache DEF CreateRun, DoneInv, TypeOK, Run
  <2>3. UNCHANGED <<rw, runCache>>
    BY <1>8 DEF CreateRun, workers, caches
  <2>4. rw.pc # "idle" => rw.run \in Runs
    BY WorkerTypes
  <2>5. QED
    BY <2>1, <2>2, <2>3, <2>4, PutRunKeepsCache DEF DoneInv
<1>9. ASSUME NEW r \in Runs, DeleteRun(r) PROVE DoneInv'
  <2>1. PutRun(r, [NewRun EXCEPT !.object = "deleted"])
    BY <1>9 DEF DeleteRun
  <2>2. runs'[r].object = "deleted"
    BY <2>1, PutRunKeepsCache DEF NewRun
  <2>3. UNCHANGED <<rw, runCache>>
    BY <1>9 DEF DeleteRun, workers, caches
  <2>4. rw.pc # "idle" => rw.run \in Runs
    BY WorkerTypes
  <2>5. QED
    BY <2>1, <2>2, <2>3, <2>4, PutRunKeepsCache DEF DoneInv
<1>10. ASSUME NEW r \in Runs,
              ApproveRun(r) \/ StartPod(r) \/ TerminatePod(r) \/ CollectPod(r)
       PROVE  DoneInv'
  BY <1>1, <1>10
  DEF ApproveRun, StartPod, TerminatePod, CollectPod, SetPod, workers, caches
<1>11. CASE UNCHANGED vars
  BY <1>1, <1>11 DEF vars, runVars
<1>12. QED
  BY <1>2, <1>3, <1>4, <1>5, <1>6, <1>7, <1>8, <1>9, <1>10, <1>11
  DEF Next, Watch, RunController, Client, Kubernetes

\* What a step does to a run that is done.
LEMMA DoneStep ==
  ASSUME TypeOK, DoneInv, [Next]_vars, NEW r \in Runs,
         Exists(runs[r]), IsDone(runs[r].status)
  PROVE  /\ Exists(runs'[r]) => runs'[r].status = runs[r].status
         /\ pods[r] = "none" => pods'[r] = "none"
<1>1. CASE \/ Watch \/ WorkspaceController
           \/ \E s \in Runs : DropRun(s) \/ ApproveRun(s)
           \/ ManageQueue \/ ReportPod
           \/ UNCHANGED vars
  BY <1>1
  DEF Watch, SyncWorkspace, SyncRuns, SyncPods, WorkspaceController,
      ReconcileWorkspace, UpdateWorkspaceStatus, DropRun, ApproveRun,
      ManageQueue, ReportPod, runVars, podVars, vars
<1>2. ASSUME NEW s \in Runs,
             FailOnArchive(s) \/ ReconcileRun(s) \/ CreateRun(s) \/ DeleteRun(s)
      PROVE  /\ Exists(runs'[r]) => runs'[r].status = runs[r].status
             /\ pods' = pods
  <2>1. CASE FailOnArchive(s) \/ ReconcileRun(s)
    BY <2>1, PutRunKeepsCache
    DEF FailOnArchive, ReconcileRun, AdoptRun, TypeOK, Run, podVars
  <2>2. CASE CreateRun(s)
    BY <2>2, PutRunKeepsCache DEF CreateRun, Exists, podVars
  <2>3. CASE DeleteRun(s)
    <3>1. runs'[s].object = "deleted"
      BY <2>3, PutRunKeepsCache DEF DeleteRun, NewRun
    <3>2. QED
      BY <2>3, <3>1, PutRunKeepsCache DEF DeleteRun, Exists, podVars
  <2>4. QED
    BY <1>2, <2>1, <2>2, <2>3
<1>3. CASE CreatePod
  <2>1. rw.run # r
    BY <1>3 DEF CreatePod, DoneInv
  <2>2. QED
    BY <1>3, <2>1 DEF CreatePod, PutPod, TypeOK, runVars, podVars
<1>4. CASE UpdateRunStatus
  <2>1. rw.run # r /\ rw.run \in Runs
    BY <1>4, WorkerTypes DEF UpdateRunStatus, DoneInv
  <2>2. QED
    BY <1>4, <2>1, PutRunKeepsCache DEF UpdateRunStatus, runVars, podVars
<1>5. ASSUME NEW s \in Runs, StartPod(s) \/ TerminatePod(s) \/ CollectPod(s)
      PROVE  runs' = runs /\ (pods[r] = "none" => pods'[r] = "none")
  BY <1>5
  DEF StartPod, TerminatePod, CollectPod, SetPod, PutPod, TypeOK, runVars
<1>6. QED
  BY <1>1, <1>2, <1>3, <1>4, <1>5
  DEF Next, RunController, RunChain, Client, Kubernetes

\* A run that completed or failed keeps its status and gets no pod afterwards,
\* for any runs and any lag of the caches.
THEOREM DoneStaysDone == Spec => DoneIsFinal
<1>1. Init => TypeOK /\ DoneInv
  BY TypeInit, DoneInit
<1>2. TypeOK /\ DoneInv /\ [Next]_vars => (TypeOK /\ DoneInv)'
  BY TypeStep, DoneInvStep
<1>3. TypeOK /\ DoneInv /\ [Next]_vars =>
        [\A r \in Runs : Exists(runs[r]) /\ IsDone(runs[r].status) =>
           /\ Exists(runs'[r]) => runs'[r].status = runs[r].status
           /\ pods[r] = "none" => pods'[r] = "none"]_vars
  BY DoneStep
<1>4. QED
  BY <1>1, <1>2, <1>3, PTL DEF Spec, DoneIsFinal

-----------------------------------------------------------------------------
(* Statuses and pods.  A pod only advances until its run is deleted, so    *)
(* what a cache holds of it, and any status computed from that, is never   *)
(* ahead of the pod itself.                                                *)

Trails(cached, phase) ==
  \/ cached = "none" \/ cached = phase
  \/ cached = "Pending" /\ phase \in {"Running", "Terminated"}
  \/ cached = "Running" /\ phase = "Terminated"

FollowInv ==
  /\ \A r \in Runs : runs[r].object # "deleted" =>
       Follows(runs[r].status.complete, pods[r]) /\ Trails(podCache[r], pods[r])
  /\ rw.pc # "idle" /\ runs[rw.run].object # "deleted" =>
       Follows(rw.status.complete, pods[rw.run])

LEMMA FollowInit == Init => FollowInv
BY DEF Init, FollowInv, NewRun, Follows, Trails, Idle

\* A status and a cache entry that are not ahead of a pod stay so.
LEMMA PodAdvances ==
  ASSUME NEW old, NEW new, Trails(old, new), old # "none" \/ new = "Pending"
  PROVE  /\ \A reason : Follows(reason, old) => Follows(reason, new)
         /\ \A cached : Trails(cached, old) => Trails(cached, new)
BY DEF Follows, Trails

\* A status computed from the cache of pods is not ahead of the pod.
LEMMA CacheIsNotAhead ==
  ASSUME NEW cached \in PodPhases \ {"none"}, NEW phase, Trails(cached, phase)
  PROVE  Follows(ReasonOf(cached), phase)
BY DEF PodPhases, ReasonOf, Follows, Trails

LEMMA FollowStep == TypeOK /\ FollowInv /\ [Next]_vars => FollowInv'
<1> SUFFICES ASSUME TypeOK, FollowInv, [Next]_vars PROVE FollowInv'
  OBVIOUS
<1> DEFINE Done(r) == runs[r].object = "deleted"
<1>0. /\ rw.pc # "idle" => rw.run \in Runs
      /\ runs \in [Runs -> Run] /\ pods \in [Runs -> PodPhases]
  BY WorkerTypes DEF TypeOK
<1>1. ASSUME UNCHANGED <<runVars, podVars, podCache>>, rw' = rw \/ rw'.pc = "idle"
      PROVE  FollowInv'
  BY <1>1 DEF FollowInv, runVars, podVars
<1>2. CASE \/ SyncWorkspace \/ WorkspaceController
           \/ \E r \in Runs : DropRun(r) \/ ApproveRun(r)
           \/ UNCHANGED vars
  BY <1>1, <1>2
  DEF SyncWorkspace, WorkspaceController, ReconcileWorkspace,
      UpdateWorkspaceStatus, DropRun, ApproveRun, workers, caches, vars,
      runVars, podVars
<1>3. CASE SyncRuns
  BY <1>3 DEF SyncRuns, FollowInv, workers, podVars
<1>4. CASE SyncPods
  <2>1. \A r \in Runs : podCache'[r] \in {podCache[r], pods[r]}
    BY <1>4 DEF SyncPods, Sync
  <2>2. UNCHANGED <<runs, pods, rw>>
    BY <1>4 DEF SyncPods, runVars, workers
  <2>3. QED
    BY <2>1, <2>2 DEF FollowInv, Trails
\* A run that is written keeps its pod, and no run becomes undeleted.
<1>5. ASSUME NEW r \in Runs, NEW new, PutRun(r, new),
             UNCHANGED <<podVars, podCache>>,
             Done(r) => new.object = "deleted",
             new.object # "deleted" => Follows(new.status.complete, pods[r]),
             \/ rw' = rw \/ rw'.pc = "idle"
             \/ rw'.run = r /\ rw'.status = new.status
      PROVE  FollowInv'
  <2>1. /\ runs'[r] = new
        /\ \A s \in Runs \ {r} : runs'[s] = runs[s]
    BY <1>0, <1>5 DEF PutRun
  <2>2. \A s \in Runs : runs'[s].object # "deleted" => ~Done(s)
    BY <1>5, <2>1
  <2>3. UNCHANGED <<pods, podCache>>
    BY <1>5 DEF podVars
  <2>4. QED
    BY <1>0, <1>5, <2>1, <2>2, <2>3 DEF FollowInv
<1>6. ASSUME NEW r \in Runs,
             \/ FailOnArchive(r) \/ ReconcileRun(r) \/ CreateRun(r) \/ DeleteRun(r)
      PROVE  FollowInv'
  <2>1. CASE FailOnArchive(r) \/ ReconcileRun(r)
    <3>1. AdoptRun(r)
      BY <2>1 DEF FailOnArchive, ReconcileRun
    <3> DEFINE new == [runs[r] EXCEPT !.adopted = TRUE]
    <3>2. new.object = runs[r].object /\ new.status = runs[r].status
      BY <1>0 DEF Run
    <3>3. rw' = rw \/ (rw'.run = r /\ rw'.status = new.status)
      BY <2>1, <3>2 DEF FailOnArchive, ReconcileRun
    <3>4. PutRun(r, new) /\ UNCHANGED <<podVars, podCache>>
      BY <3>1 DEF AdoptRun, caches
    <3>5. QED
      BY <1>5, <3>2, <3>3, <3>4 DEF FollowInv
  <2>2. CASE CreateRun(r)
    <3> DEFINE new == [runs[r] EXCEPT !.object = "present"]
    <3>1. new.object = "present" /\ new.status = runs[r].status
      BY <1>0 DEF Run
    <3>2. PutRun(r, new) /\ UNCHANGED <<podVars, podCache, rw>>
      BY <2>2 DEF CreateRun, caches, workers
    <3>3. runs[r].object = "absent"
      BY <2>2 DEF CreateRun
    <3>4. Follows(new.status.complete, pods[r])
      BY <3>1, <3>3 DEF FollowInv
    <3>5. QED
      BY <1>5, <3>1, <3>2, <3>3, <3>4
  <2>3. CASE DeleteRun(r)
    <3> DEFINE new == [NewRun EXCEPT !.object = "deleted"]
    <3>1. new.object = "deleted"
      BY DEF NewRun
    <3>2. PutRun(r, new) /\ UNCHANGED <<podVars, podCache, rw>>
      BY <2>3 DEF DeleteRun, caches, workers
    <3>3. QED
      BY <1>5, <3>1, <3>2
  <2>4. QED
    BY <1>6, <2>1, <2>2, <2>3
<1>7. CASE UpdateRunStatus
  <2>1. rw.pc = "status" /\ rw.run \in Runs /\ rw'.pc = "idle"
    BY <1>0, <1>7 DEF UpdateRunStatus, Idle
  <2>2. UNCHANGED <<podVars, podCache>>
    BY <1>7 DEF UpdateRunStatus, caches
  <2>3. CASE HasLatestRun(rw.run)
    <3> DEFINE new == [runs[rw.run] EXCEPT !.status = rw.status]
    <3>1. new.object = runs[rw.run].object /\ new.status = rw.status
      BY <1>0, <2>1 DEF Run
    <3>2. PutRun(rw.run, new)
      BY <1>7, <2>3 DEF UpdateRunStatus
    <3>3. new.object # "deleted" => Follows(new.status.complete, pods[rw.run])
      BY <2>1, <3>1 DEF FollowInv
    <3>4. QED
      BY <1>5, <2>1, <2>2, <3>1, <3>2, <3>3
  <2>4. CASE ~HasLatestRun(rw.run)
    BY <1>1, <1>7, <2>1, <2>2, <2>4 DEF UpdateRunStatus
  <2>5. QED
    BY <2>3, <2>4
<1>8. CASE ManageQueue
  <2>1. /\ UNCHANGED <<runs, pods, podCache>>
        /\ rw'.status.complete \in {"Queued", "Unqueued"}
    BY <1>8 DEF ManageQueue, SetStatus, runVars, podVars, caches
  <2>2. QED
    BY <2>1 DEF FollowInv, Follows
\* A pod advances, and no run changes.
<1>9. ASSUME NEW r \in Runs, NEW phase, PutPod(r, phase),
             ~Done(r) => Trails(pods[r], phase),
             ~Done(r) => pods[r] # "none" \/ phase = "Pending",
             UNCHANGED <<runVars, podCache>>,
             \/ rw' = rw
             \/ rw'.run = r /\ (~Done(r) => Follows(rw'.status.complete, phase))
      PROVE  FollowInv'
  <2>1. /\ pods'[r] = phase
        /\ \A s \in Runs \ {r} : pods'[s] = pods[s]
        /\ UNCHANGED <<runs, podCache>>
    BY <1>0, <1>9 DEF PutPod, runVars
  <2>2. ~Done(r) =>
          /\ \A reason : Follows(reason, pods[r]) => Follows(reason, phase)
          /\ \A cached : Trails(cached, pods[r]) => Trails(cached, phase)
    BY <1>9, PodAdvances
  <2>3. QED
    BY <1>0, <1>9, <2>1, <2>2 DEF FollowInv
<1>10. CASE CreatePod
  <2>1. rw.pc = "chain" /\ rw.run \in Runs /\ UNCHANGED <<runVars, podCache>>
    BY <1>0, <1>10 DEF CreatePod, caches
  <2>2. CASE pods[rw.run] = "none"
    <3>1. /\ PutPod(rw.run, "Pending")
          /\ rw'.run = rw.run /\ rw'.status.complete = "PodCreated"
      BY <1>10, <2>2 DEF CreatePod, SetStatus
    <3>2. Trails("none", "Pending") /\ Follows("PodCreated", "Pending")
      BY DEF Trails, Follows
    <3>3. QED
      BY <1>9, <2>1, <2>2, <3>1, <3>2
  <2>3. CASE pods[rw.run] # "none"
    <3>1. /\ UNCHANGED <<runs, pods, podCache>>
          /\ rw'.run = rw.run /\ rw'.status.complete = rw.status.complete
      BY <1>10, <2>1, <2>3 DEF CreatePod, SetStatus, runVars, podVars
    <3>2. QED
      BY <2>1, <3>1 DEF FollowInv
  <2>4. QED
    BY <2>2, <2>3
<1>11. CASE ReportPod
  <2>1. rw.pc = "chain" /\ rw.run \in Runs
    BY <1>0, <1>11 DEF ReportPod
  <2>2. GetPod(rw.run) \in PodPhases \ {"none"}
    BY <1>11, <2>1, ReadTypes DEF ReportPod
  <2>3. /\ UNCHANGED <<runs, pods, podCache>>
        /\ rw'.run = rw.run /\ rw'.status.complete = ReasonOf(GetPod(rw.run))
    BY <1>11 DEF ReportPod, SetStatus, runVars, podVars, caches
  <2>4. ~Done(rw.run) => Trails(GetPod(rw.run), pods[rw.run])
    BY <2>1 DEF FollowInv, GetPod, Trails
  <2>5. ~Done(rw.run) => Follows(rw'.status.complete, pods[rw.run])
    BY <2>2, <2>3, <2>4, CacheIsNotAhead
  <2>6. QED
    BY <2>3, <2>5 DEF FollowInv
<1>12. ASSUME NEW r \in Runs, StartPod(r) \/ TerminatePod(r) \/ CollectPod(r)
       PROVE  FollowInv'
  <2>1. UNCHANGED <<runVars, podCache, rw>>
    BY <1>12 DEF StartPod, TerminatePod, CollectPod, SetPod, caches, workers
  <2>2. PICK phase \in PodPhases :
          /\ PutPod(r, phase)
          /\ ~Done(r) => Trails(pods[r], phase) /\ pods[r] # "none"
    BY <1>12
    DEF StartPod, TerminatePod, CollectPod, SetPod, Trails, PodPhases
  <2>3. QED
    BY <1>9, <2>1, <2>2
<1>13. QED
  BY <1>2, <1>3, <1>4, <1>6, <1>7, <1>8, <1>10, <1>11, <1>12
  DEF Next, Watch, RunController, RunChain, Client, Kubernetes

\* The status of a run is never ahead of its pod, for any runs and any lag of
\* the caches.
THEOREM StatusNeverAhead == Spec => []StatusFollowsPod
<1>1. Init => TypeOK /\ FollowInv
  BY TypeInit, FollowInit
<1>2. TypeOK /\ FollowInv /\ [Next]_vars => (TypeOK /\ FollowInv)'
  BY TypeStep, FollowStep
<1>3. FollowInv => StatusFollowsPod
  BY DEF FollowInv, StatusFollowsPod, Exists
<1>4. QED
  BY <1>1, <1>2, <1>3, PTL DEF Spec

-----------------------------------------------------------------------------
(* The loop of updateCombinedQueue.  Induction is over sets of numbers.    *)

\* What holds of zero and of each next number holds of all.
LEMMA SetInduction ==
  ASSUME NEW S, 0 \in S, \A n \in Nat : n \in S => n + 1 \in S
  PROVE  Nat \subseteq S
<1> SUFFICES ASSUME Nat \ S # {} PROVE FALSE
  OBVIOUS
<1> DEFINE Less == OpToRel(<, Nat)
<1>0. \A x, y \in Nat : x < y => <<x, y>> \in Less
  BY DEF OpToRel
<1>1. IsWellFoundedOn(Less, Nat)
  BY NatLessThanWellFounded
<1> HIDE DEF Less
<1>2. PICK x \in Nat \ S : \A y \in Nat \ S : <<y, x>> \notin Less
  BY <1>1, WFMin
<1>3. x # 0 /\ x - 1 \in Nat /\ x - 1 < x
  OBVIOUS
<1>4. x - 1 \in S
  BY <1>0, <1>2, <1>3
<1>5. (x - 1) + 1 = x
  BY <1>3
<1> QED
  BY <1>3, <1>4, <1>5

\* A set of numbers has a least one.
LEMMA MinIsLeast ==
  ASSUME NEW S \in SUBSET Nat, S # {}
  PROVE  Min(S) \in S /\ \A y \in S : Min(S) <= y
<1> DEFINE Less == OpToRel(<, Nat)
<1>0. \A x, y \in Nat : x < y => <<x, y>> \in Less
  BY DEF OpToRel
<1>1. IsWellFoundedOn(Less, Nat)
  BY NatLessThanWellFounded
<1> HIDE DEF Less
<1>2. PICK x \in S : \A y \in S : <<y, x>> \notin Less
  <2>1. S \subseteq Nat
    OBVIOUS
  <2> QED
    BY <1>1, <2>1, WFMin
<1>3. ASSUME NEW y \in S PROVE x <= y
  <2>1. x \in Nat /\ y \in Nat /\ ~(y < x)
    BY <1>0, <1>2
  <2> QED
    BY <2>1
<1> QED
  BY <1>3 DEF Min

\* What the loop makes of the runs listed when it has walked a set of positions of
\* the queue.  (FoldRight is that function, if there is one.)
Walks(g, S, currQ, listed) ==
  g = [s \in SUBSET S |->
         IF s = {} THEN listed ELSE MoveToFront(currQ[Min(s)], g[s \ {Min(s)}])]

\* It goes one position further.
LEMMA WalkOne ==
  ASSUME NEW m \in Nat, NEW n \in Nat, m <= n, NEW currQ, NEW listed,
         NEW g, Walks(g, (m + 1)..n, currQ, listed)
  PROVE  \E h : Walks(h, m..n, currQ, listed)
<1> DEFINE h == [s \in SUBSET (m..n) |->
                   IF m \in s THEN MoveToFront(currQ[m], g[s \ {m}]) ELSE g[s]]
           next(s) == IF s = {} THEN listed ELSE MoveToFront(currQ[Min(s)], h[s \ {Min(s)}])
<1>1. \A s \in SUBSET (m..n) : m \notin s => s \in SUBSET ((m + 1)..n)
  OBVIOUS
<1>2. ASSUME NEW s \in SUBSET ((m + 1)..n)
      PROVE  g[s] = IF s = {} THEN listed ELSE MoveToFront(currQ[Min(s)], g[s \ {Min(s)}])
  BY DEF Walks
<1>3. ASSUME NEW s \in SUBSET (m..n) PROVE h[s] = next(s)
  <2>1. CASE m \in s
    <3>1. Min(s) = m
      <4>1. s \in SUBSET Nat /\ s # {}
        BY <2>1
      <4>4. Min(s) \in s /\ \A y \in s : Min(s) <= y
        BY <4>1, MinIsLeast, Zenon
      <4>2. Min(s) \in m..n /\ Min(s) <= m
        BY <2>1, <4>4
      <4> HIDE DEF h
      <4>3. m <= Min(s) /\ Min(s) \in Nat
        BY <4>2
      <4> QED
        BY <4>2, <4>3
    <3>2. h[s] = MoveToFront(currQ[m], g[s \ {m}])
      BY <2>1
    <3>3. h[s \ {m}] = g[s \ {m}]
      OBVIOUS
    <3> QED
      BY <2>1, <3>1, <3>2, <3>3
  <2>2. CASE m \notin s
    <3>1. h[s] = g[s] /\ s \in SUBSET ((m + 1)..n)
      BY <1>1, <2>2
    <3>2. \A x : h[s \ {x}] = g[s \ {x}]
      BY <2>2
    <3> QED
      BY <1>2, <3>1, <3>2
  <2> QED
    BY <2>1, <2>2
<1>4. Walks(h, m..n, currQ, listed)
  BY <1>3 DEF Walks
<1> QED
  BY <1>4

\* So it walks all of the queue, from its back.
LEMMA LoopWalks ==
  ASSUME NEW X, NEW currQ \in Seq(X), NEW listed
  PROVE  \E g : /\ Walks(g, 1..Len(currQ), currQ, listed)
                /\ UpdateCombinedQueue(currQ, listed) = g[1..Len(currQ)]
<1> DEFINE n == Len(currQ)
           walked == {k \in Nat : k <= n => \E g : Walks(g, (n - k + 1)..n, currQ, listed)}
           iter == CHOOSE iter : Walks(iter, 1..n, currQ, listed)
<1>1. n \in Nat /\ DOMAIN currQ = 1..n
  BY LenProperties
<1>2. 0 \in walked
  <2> DEFINE g == [s \in SUBSET ((n + 1)..n) |-> listed]
  <2>1. (n + 1)..n = {}
    BY <1>1
  <2>2. Walks(g, (n + 1)..n, currQ, listed)
    BY <2>1 DEF Walks
  <2>3. n - 0 + 1 = n + 1
    BY <1>1
  <2> QED
    BY <2>2, <2>3
<1>3. ASSUME NEW k \in Nat, k \in walked PROVE k + 1 \in walked
  <2> SUFFICES ASSUME k + 1 <= n
               PROVE  \E g : Walks(g, (n - (k + 1) + 1)..n, currQ, listed)
    OBVIOUS
  <2> DEFINE m == n - k
  <2>1. /\ m \in Nat /\ m <= n /\ k <= n
        /\ n - k + 1 = m + 1 /\ n - (k + 1) + 1 = m
    BY <1>1
  <2>2. PICK g : Walks(g, (m + 1)..n, currQ, listed)
    BY <1>3, <2>1
  <2> HIDE DEF m, n
  <2>3. \E h : Walks(h, m..n, currQ, listed)
    BY <1>1, <2>1, <2>2, WalkOne
  <2> QED
    BY <2>1, <2>3
<1>4. n \in walked
  <2> HIDE DEF walked, n
  <2> QED
    BY <1>1, <1>2, <1>3, SetInduction
<1>5. Walks(iter, 1..n, currQ, listed)
  <2>1. n - n + 1 = 1
    BY <1>1
  <2>2. \E g : Walks(g, 1..n, currQ, listed)
    BY <1>4, <2>1
  <2> QED
    BY <2>2, Zenon
<1>6. UpdateCombinedQueue(currQ, listed) = iter[1..n]
  BY <1>1 DEF UpdateCombinedQueue, FoldRight, MapThenFoldSet, Walks
<1> QED
  BY <1>5, <1>6

\* Nobody is listed twice.
Distinct(q) == \A i, j \in DOMAIN q : i # j => q[i] # q[j]

\* A listing of a set has each of its members in one place.
LEMMA ListingIsWhole ==
  ASSUME NEW E, IsFiniteSet(E), NEW q \in SetToSeqs(E)
  PROVE  /\ Cardinality(E) \in Nat /\ Len(q) = Cardinality(E)
         /\ q \in Seq(E) /\ q \in [1..Len(q) -> E] /\ DOMAIN q = 1..Len(q)
         /\ Distinct(q) /\ ToSet(q) = E
<1> DEFINE D == 1..Cardinality(E)
<1>1. Cardinality(E) \in Nat
  BY FS_CardinalityType
<1>2. q \in [D -> E] /\ \A i, j \in D : i # j => q[i] # q[j]
  BY DEF SetToSeqs
<1>3. DOMAIN q = D /\ q \in Seq(E) /\ Len(q) = Cardinality(E)
  BY <1>1, <1>2
<1>4. IsFiniteSet(D) /\ Cardinality(D) = Cardinality(E)
  BY <1>1, FS_Interval
<1>5. q \in Injection(D, E)
  BY <1>2 DEF Injection, IsInjective
<1>6. q \in Surjection(D, E)
  BY <1>1, <1>4, <1>5, FS_Injection
<1>7. ToSet(q) = E
  BY <1>2, <1>3, <1>6 DEF Surjection, ToSet
<1> QED
  BY <1>1, <1>2, <1>3, <1>7 DEF Distinct

\* One run comes before another.
Before(q, x, y) == \E i, j \in DOMAIN q : i < j /\ q[i] = x /\ q[j] = y

\* Where the runs come from when the one at p is moved to the front.
From(p, i) == IF i = 1 THEN p ELSE IF i <= p THEN i - 1 ELSE i

LEMMA MovedFrom ==
  ASSUME NEW E, IsFiniteSet(E), NEW q \in SetToSeqs(E), NEW p \in 1..Len(q)
  PROVE  /\ MoveToFront(q[p], q) \in [1..Len(q) -> E]
         /\ \A i \in 1..Len(q) : MoveToFront(q[p], q)[i] = q[From(p, i)]
<1> DEFINE n == Len(q)
           r == q[p]
           front == SubSeq(q, 1, p - 1)
           back == SubSeq(q, p + 1, n)
           found == {i \in 1..n : q[i] = r}
<1>1. n \in Nat /\ q \in Seq(E) /\ q \in [1..n -> E] /\ Distinct(q) /\ r \in E
  BY ListingIsWhole
<1>2. found = {p}
  BY <1>1 DEF Distinct
<1>3. Min(found) = p
  BY <1>2 DEF Min
<1>4. Contains(q, r) /\ \E i \in 1..n : q[i] = r
  BY DEF Contains
<1>5. SelectInSeq(q, LAMBDA v : v = r) = p
  BY <1>2, <1>3 DEF SelectInSeq
<1>6. RemoveFirst(q, r) = front \o back
  BY <1>4, <1>5 DEF RemoveFirst, RemoveAt
<1>7. MoveToFront(r, q) = <<r>> \o (front \o back)
  BY <1>4, <1>6 DEF MoveToFront
<1>8. /\ front \in Seq(E) /\ Len(front) = p - 1
      /\ \A i \in 1..(p - 1) : front[i] = q[i]
  BY <1>1, SubSeqProperties
<1>9. /\ back \in Seq(E) /\ Len(back) = n - p
      /\ \A i \in 1..(n - p) : back[i] = q[p + i]
  <2>1. /\ back \in Seq(E) /\ Len(back) = IF p + 1 <= n THEN n - (p + 1) + 1 ELSE 0
        /\ \A i \in 1..(n - (p + 1) + 1) : back[i] = q[(p + 1) + i - 1]
    <3>1. p + 1 \in Int /\ n \in Int /\ \A i \in (p + 1)..n : q[i] \in E
      BY <1>1
    <3> QED
      BY <3>1, SubSeqProperties
  <2>4. p \in 1..n
    OBVIOUS
  <2> HIDE DEF back, n
  <2>2. n - (p + 1) + 1 = n - p /\ (~(p + 1 <= n) => n - p = 0)
    BY <1>1, <2>4
  <2>3. \A i \in 1..(n - p) : (p + 1) + i - 1 = p + i
    BY <1>1, <2>4
  <2> QED
    BY <2>1, <2>2, <2>3
<1> HIDE DEF front, back, r, n
<1>10. /\ front \o back \in Seq(E) /\ Len(front \o back) = n - 1
       /\ \A i \in 1..(n - 1) : (front \o back)[i] = IF i <= p - 1 THEN q[i] ELSE q[i + 1]
  <2>1. /\ front \o back \in Seq(E) /\ Len(front \o back) = (p - 1) + (n - p)
        /\ \A i \in 1..((p - 1) + (n - p)) :
             (front \o back)[i] = IF i <= p - 1 THEN front[i] ELSE back[i - (p - 1)]
    <3>1. /\ front \in Seq(E) /\ back \in Seq(E)
          /\ Len(front) = p - 1 /\ Len(back) = n - p
      BY <1>8, <1>9
    <3>2. /\ front \o back \in Seq(E) /\ Len(front \o back) = Len(front) + Len(back)
          /\ \A i \in 1..(Len(front) + Len(back)) :
               (front \o back)[i] = IF i <= Len(front) THEN front[i]
                                    ELSE back[i - Len(front)]
      BY <3>1, ConcatProperties
    <3> QED
      BY <3>1, <3>2
  <2>2. (p - 1) + (n - p) = n - 1
    BY <1>1 DEF n
  <2>3. \A i \in 1..(n - 1) : i > p - 1 => i - (p - 1) \in 1..(n - p) /\ p + (i - (p - 1)) = i + 1
    BY <1>1 DEF n
  <2>4. \A i \in 1..(n - 1) : i <= p - 1 => i \in 1..(p - 1)
    BY <1>1 DEF n
  <2> DEFINE rest == front \o back
  <2> HIDE DEF rest
  <2>5. ASSUME NEW i \in 1..(n - 1)
        PROVE  rest[i] = IF i <= p - 1 THEN q[i] ELSE q[i + 1]
    <3>1. rest[i] = IF i <= p - 1 THEN front[i] ELSE back[i - (p - 1)]
      BY <2>1, <2>2 DEF rest
    <3>2. CASE i <= p - 1
      BY <1>8, <2>4, <3>1, <3>2
    <3>3. CASE ~(i <= p - 1)
      <4>1. /\ i - (p - 1) \in 1..(n - p) /\ p + (i - (p - 1)) = i + 1
        BY <1>1, <2>3, <3>3 DEF n
      <4> QED
        BY <1>9, <3>1, <3>3, <4>1
    <3> QED
      BY <3>2, <3>3
  <2> QED
    BY <2>1, <2>2, <2>5 DEF rest
<1> DEFINE rest == front \o back
<1>11. <<r>> \in Seq(E) /\ Len(<<r>>) = 1 /\ <<r>>[1] = r
  BY <1>1
<1> HIDE DEF rest
<1>12. /\ <<r>> \o rest \in Seq(E) /\ Len(<<r>> \o rest) = n
       /\ \A i \in 1..n : (<<r>> \o rest)[i] = IF i <= 1 THEN r ELSE rest[i - 1]
  <2>1. /\ <<r>> \o rest \in Seq(E) /\ Len(<<r>> \o rest) = 1 + (n - 1)
        /\ \A i \in 1..(1 + (n - 1)) :
             (<<r>> \o rest)[i] = IF i <= 1 THEN <<r>>[i] ELSE rest[i - 1]
    BY <1>10, <1>11, ConcatProperties DEF rest
  <2>2. 1 + (n - 1) = n
    BY <1>1
  <2> QED
    BY <1>1, <1>11, <2>1, <2>2
<1> DEFINE m == MoveToFront(r, q)
<1>13. m \in [1..n -> E] /\ \A i \in 1..n : m[i] = IF i <= 1 THEN r ELSE rest[i - 1]
  BY <1>7, <1>12, LenProperties DEF rest
<1> HIDE DEF m
<1>14. ASSUME NEW i \in 1..n PROVE m[i] = q[From(p, i)]
  <2>1. CASE i = 1
    BY <1>1, <1>13, <2>1 DEF From, r
  <2>2. CASE i # 1
    <3>1. i - 1 \in 1..(n - 1) /\ (i - 1) + 1 = i /\ (i - 1 <= p - 1 <=> i <= p)
      BY <1>1, <2>2 DEF n
    <3>2. m[i] = rest[i - 1]
      BY <1>1, <1>13, <2>2
    <3>3. rest[i - 1] = IF i <= p THEN q[i - 1] ELSE q[i]
      BY <1>10, <3>1 DEF rest
    <3> QED
      BY <2>2, <3>2, <3>3 DEF From
  <2> QED
    BY <2>1, <2>2
<1> QED
  BY <1>13, <1>14 DEF m, n, r

\* Moving a run to the front puts it before the others and leaves their order.
LEMMA MovedToFront ==
  ASSUME NEW E, IsFiniteSet(E), NEW q \in SetToSeqs(E), NEW r
  PROVE  LET m == MoveToFront(r, q)
         IN  /\ m \in SetToSeqs(E)
             /\ \A x, y \in E :
                  Before(m, x, y) <=> IF r \in E /\ (x = r \/ y = r) THEN x = r /\ y # r
                                      ELSE Before(q, x, y)
<1> DEFINE n == Len(q)
           m == MoveToFront(r, q)
<1>1. /\ n \in Nat /\ n = Cardinality(E) /\ q \in [1..n -> E] /\ DOMAIN q = 1..n
      /\ Distinct(q) /\ ToSet(q) = E
  BY ListingIsWhole
<1> HIDE DEF n, m
<1>2. CASE r \notin E
  <2>1. m = q
    BY <1>1, <1>2 DEF m, n, MoveToFront, Contains
  <2> QED
    BY <1>2, <2>1 DEF m
<1>3. CASE r \in E
  <2>1. PICK p \in 1..n : q[p] = r
    BY <1>1, <1>3 DEF ToSet
  <2>2. m \in [1..n -> E] /\ \A i \in 1..n : m[i] = q[From(p, i)]
    BY <2>1, MovedFrom DEF m, n
  <2>3. DOMAIN m = 1..n
    BY <2>2
  <2>4. \A i \in 1..n : From(p, i) \in 1..n
    BY <1>1 DEF From
  <2>5. \A i, j \in 1..n : i # j => From(p, i) # From(p, j)
    BY <1>1 DEF From
  <2>6. \A k \in 1..n : \E i \in 1..n : From(p, i) = k
    <3> SUFFICES ASSUME NEW k \in 1..n PROVE \E i \in 1..n : From(p, i) = k
      OBVIOUS
    <3>1. CASE k = p
      <4>1. From(p, 1) = k /\ 1 \in 1..n
        BY <1>1, <3>1 DEF From
      <4> QED
        BY <4>1
    <3>2. CASE k < p
      <4>1. k + 1 \in 1..n /\ From(p, k + 1) = k
        BY <1>1, <3>2 DEF From
      <4> QED
        BY <4>1
    <3>3. CASE k > p
      <4>1. From(p, k) = k
        BY <1>1, <3>3 DEF From
      <4> QED
        BY <4>1
    <3> QED
      BY <1>1, <3>1, <3>2, <3>3
  <2>7. \A i, j \in 1..n : i # j => m[i] # m[j]
    BY <1>1, <2>2, <2>4, <2>5 DEF Distinct
  <2>8. m \in SetToSeqs(E)
    BY <1>1, <2>2, <2>7 DEF SetToSeqs
  <2>9. \A i, j \in 1..n : i < j => IF From(p, i) = p \/ From(p, j) = p
                                    THEN From(p, i) = p /\ From(p, j) # p
                                    ELSE From(p, i) < From(p, j)
    BY <1>1 DEF From
  <2> HIDE DEF From
  <2>10. ASSUME NEW x \in E, NEW y \in E, Before(m, x, y)
         PROVE  IF x = r \/ y = r THEN x = r /\ y # r ELSE Before(q, x, y)
    <3>1. PICK i \in 1..n, j \in 1..n : i < j /\ m[i] = x /\ m[j] = y
      BY <2>3, <2>10 DEF Before
    <3>2. q[From(p, i)] = x /\ q[From(p, j)] = y
      BY <2>2, <3>1
    <3>3. (x = r <=> From(p, i) = p) /\ (y = r <=> From(p, j) = p)
      BY <1>1, <2>1, <2>4, <3>2 DEF Distinct
    <3> QED
      BY <1>1, <2>4, <2>9, <3>1, <3>2, <3>3 DEF Before
  <2>11. ASSUME NEW x \in E, NEW y \in E,
                IF x = r \/ y = r THEN x = r /\ y # r ELSE Before(q, x, y)
         PROVE  Before(m, x, y)
    <3>1. PICK a \in 1..n, b \in 1..n : q[a] = x /\ q[b] = y
      BY <1>1 DEF ToSet
    <3>2. PICK i \in 1..n, j \in 1..n : From(p, i) = a /\ From(p, j) = b
      BY <2>6
    <3>3. m[i] = x /\ m[j] = y
      BY <2>2, <3>1, <3>2
    <3>4. (x = r <=> a = p) /\ (y = r <=> b = p)
      BY <1>1, <2>1, <3>1 DEF Distinct
    <3>5. x # r /\ y # r => a < b
      <4> SUFFICES ASSUME Before(q, x, y) PROVE a < b
        BY <2>11
      <4>1. PICK c \in 1..n, d \in 1..n : c < d /\ q[c] = x /\ q[d] = y
        BY <1>1 DEF Before
      <4>2. c = a /\ d = b
        BY <1>1, <3>1, <4>1 DEF Distinct
      <4> QED
        BY <4>1, <4>2
    <3>6. i # j /\ ~(j < i)
      <4>1. i # j
        BY <2>11, <3>1, <3>2, <3>4, <3>5
      <4>2. ASSUME j < i PROVE FALSE
        BY <2>9, <2>11, <3>2, <3>4, <3>5, <4>2
      <4> QED
        BY <4>1, <4>2
    <3>7. i < j
      BY <1>1, <3>6
    <3> QED
      BY <2>3, <3>3, <3>7 DEF Before
  <2> QED
    BY <1>3, <2>8, <2>10, <2>11 DEF m
<1> QED
  BY <1>2, <1>3 DEF m

\* Who comes before whom settles a listing.
LEMMA OrderSettles ==
  ASSUME NEW E, IsFiniteSet(E), NEW p \in SetToSeqs(E), NEW q \in SetToSeqs(E),
         \A x, y \in E : Before(p, x, y) => Before(q, x, y)
  PROVE  p = q
<1> DEFINE n == Cardinality(E)
           diff == {i \in 1..n : p[i] # q[i]}
<1>1. /\ n \in Nat /\ p \in [1..n -> E] /\ q \in [1..n -> E]
      /\ DOMAIN p = 1..n /\ DOMAIN q = 1..n
      /\ Distinct(p) /\ Distinct(q) /\ ToSet(p) = E /\ ToSet(q) = E
  BY ListingIsWhole
<1> HIDE DEF n
<1>2. SUFFICES ASSUME diff # {} PROVE FALSE
  BY <1>1
<1>3. PICK i \in 1..n : p[i] # q[i] /\ \A j \in 1..n : p[j] # q[j] => i <= j
  <2>1. diff \in SUBSET Nat
    OBVIOUS
  <2> HIDE DEF diff
  <2>2. Min(diff) \in diff /\ \A j \in diff : Min(diff) <= j
    BY <1>2, <2>1, MinIsLeast
  <2> QED
    BY <2>2 DEF diff
<1>4. PICK j \in 1..n : q[j] = p[i]
  BY <1>1 DEF ToSet
<1>5. PICK k \in 1..n : p[k] = q[i]
  BY <1>1 DEF ToSet
<1>6. i < j
  BY <1>1, <1>3, <1>4 DEF Distinct
<1>7. i < k
  BY <1>1, <1>3, <1>5 DEF Distinct
<1>8. Before(p, p[i], q[i]) /\ p[i] \in E /\ q[i] \in E
  BY <1>1, <1>5, <1>7 DEF Before
<1>9. PICK a \in 1..n, b \in 1..n : a < b /\ q[a] = p[i] /\ q[b] = q[i]
  <2>1. Before(q, p[i], q[i])
    BY <1>8
  <2> QED
    BY <1>1, <2>1 DEF Before
<1>10. a = j /\ b = i
  BY <1>1, <1>4, <1>9 DEF Distinct
<1> QED
  BY <1>6, <1>9, <1>10

\* What the loop comes to when it has walked the queue back to position k: those
\* it has met come first, in the order of the queue; the others follow as listed.
Ahead(currQ, k, listed, x, y) ==
  \/ \E a \in k..Len(currQ) : /\ currQ[a] = x
                              /\ \A b \in k..Len(currQ) : currQ[b] = y => a < b
  \/ /\ \A a \in k..Len(currQ) : currQ[a] \notin {x, y}
     /\ Before(listed, x, y)

\* The run at position k is moved ahead of all the others.
LEMMA AheadOne ==
  ASSUME NEW X, NEW currQ \in Seq(X), NEW k \in 1..Len(currQ), NEW listed, NEW x, NEW y
  PROVE  Ahead(currQ, k, listed, x, y) <=>
           IF x = currQ[k] \/ y = currQ[k] THEN x = currQ[k] /\ y # currQ[k]
           ELSE Ahead(currQ, k + 1, listed, x, y)
<1> DEFINE n == Len(currQ)
<1>1. n \in Nat /\ k \in 1..n
  BY LenProperties
<1> HIDE DEF n
<1>2. k \in k..n /\ \A a \in k..n : a = k \/ (a \in (k + 1)..n /\ k < a)
  BY <1>1
<1>3. \A a \in (k + 1)..n : a \in k..n /\ k < a /\ ~(a < k)
  BY <1>1
<1>4. CASE x = currQ[k] /\ y # currQ[k]
  <2>1. \A b \in k..n : currQ[b] = y => k < b
    BY <1>2, <1>4
  <2> QED
    BY <1>2, <1>4, <2>1 DEF Ahead, n
<1>5. CASE y = currQ[k]
  <2>1. \A a \in k..n : ~(a < k)
    BY <1>1
  <2> QED
    BY <1>2, <1>5, <2>1 DEF Ahead, n
<1>6. CASE x # currQ[k] /\ y # currQ[k]
  <2>1. \A a \in k..n : currQ[a] = x \/ currQ[a] = y => a \in (k + 1)..n
    BY <1>2, <1>6
  <2>2. ASSUME Ahead(currQ, k, listed, x, y) PROVE Ahead(currQ, k + 1, listed, x, y)
    BY <1>3, <2>1, <2>2 DEF Ahead, n
  <2>3. ASSUME Ahead(currQ, k + 1, listed, x, y) PROVE Ahead(currQ, k, listed, x, y)
    BY <1>2, <1>3, <1>6, <2>1, <2>3 DEF Ahead, n
  <2> QED
    BY <1>6, <2>2, <2>3
<1> QED
  BY <1>4, <1>5, <1>6

\* The loop only reorders what is listed: whom the queue names first comes first.
LEMMA LoopOrders ==
  ASSUME NEW E, IsFiniteSet(E), NEW X, NEW currQ \in Seq(X), NEW listed \in SetToSeqs(E)
  PROVE  LET q == UpdateCombinedQueue(currQ, listed)
         IN  /\ q \in SetToSeqs(E)
             /\ \A x, y \in E : Before(q, x, y) <=> Ahead(currQ, 1, listed, x, y)
<1> DEFINE n == Len(currQ)
           Ordered(q, k) ==
             /\ q \in SetToSeqs(E)
             /\ \A x, y \in E : Before(q, x, y) <=> Ahead(currQ, k, listed, x, y)
<1>1. n \in Nat
  BY LenProperties
<1>2. PICK g : Walks(g, 1..n, currQ, listed) /\ UpdateCombinedQueue(currQ, listed) = g[1..n]
  BY LoopWalks
<1> DEFINE walked == {k \in Nat : k <= n => Ordered(g[(n - k + 1)..n], n - k + 1)}
<1>3. \A s \in SUBSET (1..n) :
        g[s] = IF s = {} THEN listed ELSE MoveToFront(currQ[Min(s)], g[s \ {Min(s)}])
  BY <1>2 DEF Walks
<1>4. 0 \in walked
  <2>1. n - 0 + 1 = n + 1 /\ (n + 1)..n = {}
    BY <1>1
  <2>2. g[{}] = listed
    BY <1>3
  <2>3. \A x, y : Ahead(currQ, n + 1, listed, x, y) <=> Before(listed, x, y)
    BY <2>1 DEF Ahead
  <2> QED
    BY <2>1, <2>2, <2>3
<1>5. ASSUME NEW j \in Nat, j \in walked PROVE j + 1 \in walked
  <2> SUFFICES ASSUME j + 1 <= n
               PROVE  Ordered(g[(n - (j + 1) + 1)..n], n - (j + 1) + 1)
    OBVIOUS
  <2> DEFINE k == n - j
             q == g[(k + 1)..n]
             m == g[k..n]
             r == currQ[k]
  <2>1. k \in 1..n /\ j <= n /\ n - j + 1 = k + 1 /\ n - (j + 1) + 1 = k
    BY <1>1
  <2>2. Ordered(q, k + 1)
    BY <1>5, <2>1
  <2> HIDE DEF k
  <2>3. Min(k..n) = k
    <3>1. k..n \in SUBSET Nat /\ k \in k..n
      BY <1>1, <2>1
    <3>2. Min(k..n) \in k..n /\ Min(k..n) <= k
      BY <3>1, MinIsLeast
    <3> QED
      BY <1>1, <2>1, <3>2
  <2>4. m = MoveToFront(r, q)
    <3>1. k..n \in SUBSET (1..n) /\ k..n # {} /\ (k..n) \ {k} = (k + 1)..n
      BY <1>1, <2>1
    <3> QED
      BY <1>3, <2>3, <3>1
  <2> HIDE DEF q, m, r
  <2>5. /\ m \in SetToSeqs(E)
        /\ \A x, y \in E :
             Before(m, x, y) <=> IF r \in E /\ (x = r \/ y = r) THEN x = r /\ y # r
                                 ELSE Before(q, x, y)
    BY <2>2, <2>4, MovedToFront
  <2>6. ASSUME NEW x \in E, NEW y \in E
        PROVE  Before(m, x, y) <=> Ahead(currQ, k, listed, x, y)
    <3>1. Before(q, x, y) <=> Ahead(currQ, k + 1, listed, x, y)
      BY <2>2
    <3>2. Before(m, x, y) <=> IF x = r \/ y = r THEN x = r /\ y # r
                              ELSE Before(q, x, y)
      BY <2>5
    <3>3. Ahead(currQ, k, listed, x, y) <=>
            IF x = r \/ y = r THEN x = r /\ y # r
            ELSE Ahead(currQ, k + 1, listed, x, y)
      BY <2>1, AheadOne DEF r
    <3> QED
      BY <3>1, <3>2, <3>3
  <2>7. Ordered(m, k)
    BY <2>5, <2>6
  <2> QED
    BY <2>1, <2>7 DEF m
<1>6. n \in walked
  <2> HIDE DEF walked, n
  <2> QED
    BY <1>1, <1>4, <1>5, SetInduction
<1>7. n - n + 1 = 1
  BY <1>1
<1> QED
  BY <1>2, <1>6, <1>7

\* The loop has the outcomes that UpdatedQueues gives for it, and all of them.
LEMMA LoopIsUpdate ==
  ASSUME NEW E, IsFiniteSet(E), NEW X, NEW currQ \in Seq(X), Distinct(currQ)
  PROVE  UpdatedQueues(currQ, E) =
           {UpdateCombinedQueue(currQ, listed) : listed \in SetToSeqs(E)}
<1> DEFINE n == Len(currQ)
<1>1. n \in Nat /\ DOMAIN currQ = 1..n
  BY LenProperties
<1>2. ASSUME NEW listed \in SetToSeqs(E)
      PROVE  UpdateCombinedQueue(currQ, listed) \in UpdatedQueues(currQ, E)
  <2> DEFINE q == UpdateCombinedQueue(currQ, listed)
  <2>1. /\ q \in SetToSeqs(E)
        /\ \A x, y \in E : Before(q, x, y) <=> Ahead(currQ, 1, listed, x, y)
    BY LoopOrders
  <2> HIDE DEF q
  <2>2. \A i \in DOMAIN q : q[i] \in E
    BY <2>1, ListingIsWhole
  <2>3. ASSUME NEW i \in DOMAIN q, NEW j \in DOMAIN q, i < j, q[j] \in ToSet(currQ)
        PROVE  \E a, b \in DOMAIN currQ : a < b /\ currQ[a] = q[i] /\ currQ[b] = q[j]
    <3>1. Ahead(currQ, 1, listed, q[i], q[j])
      BY <2>1, <2>2, <2>3 DEF Before
    <3>2. PICK b \in 1..n : currQ[b] = q[j]
      BY <1>1, <2>3 DEF ToSet
    <3> QED
      BY <1>1, <3>1, <3>2 DEF Ahead
  <2>4. KeepsPositions(currQ, q)
    BY <2>3 DEF KeepsPositions
  <2> QED
    BY <2>1, <2>4 DEF UpdatedQueues, q
<1>3. ASSUME NEW newQ \in UpdatedQueues(currQ, E)
      PROVE  newQ = UpdateCombinedQueue(currQ, newQ)
  <2> DEFINE q == UpdateCombinedQueue(currQ, newQ)
  <2>1. newQ \in SetToSeqs(E) /\ KeepsPositions(currQ, newQ)
    BY DEF UpdatedQueues
  <2>2. /\ q \in SetToSeqs(E)
        /\ \A x, y \in E : Before(q, x, y) <=> Ahead(currQ, 1, newQ, x, y)
    BY <2>1, LoopOrders
  <2> HIDE DEF q, n
  <2>3. ASSUME NEW x \in E, NEW y \in E, Before(newQ, x, y)
        PROVE  Before(q, x, y)
    <3>1. PICK i \in DOMAIN newQ, j \in DOMAIN newQ : i < j /\ newQ[i] = x /\ newQ[j] = y
      BY <2>3 DEF Before
    <3>2. CASE y \in ToSet(currQ)
      <4>1. PICK a \in DOMAIN currQ, b \in DOMAIN currQ :
              a < b /\ currQ[a] = x /\ currQ[b] = y
        BY <2>1, <3>1, <3>2 DEF KeepsPositions
      <4>2. \A c \in 1..n : currQ[c] = y => c = b
        BY <1>1, <4>1 DEF Distinct
      <4>3. Ahead(currQ, 1, newQ, x, y)
        BY <1>1, <4>1, <4>2 DEF Ahead, n
      <4> QED
        BY <2>2, <4>3
    <3>3. CASE y \notin ToSet(currQ)
      <4>1. \A b \in 1..n : currQ[b] # y
        BY <1>1, <3>3 DEF ToSet
      <4>2. Ahead(currQ, 1, newQ, x, y)
        BY <2>3, <4>1 DEF Ahead, n
      <4> QED
        BY <2>2, <4>2
    <3> QED
      BY <3>2, <3>3
  <2>4. newQ = q
    BY <2>1, <2>2, <2>3, OrderSettles
  <2> QED
    BY <2>4 DEF q
<1>4. \A newQ \in UpdatedQueues(currQ, E) : newQ \in SetToSeqs(E)
  BY DEF UpdatedQueues
<1> QED
  BY <1>2, <1>3, <1>4

\* The queue of a workspace names nobody twice, for any caches that trail.
DistinctInv == Distinct(ws.queue) /\ (ww # Idle => Distinct(ww.queue))

LEMMA DistinctInit == Init => DistinctInv
<1>1. Distinct(<<>>)
  BY DEF Distinct
<1> QED
  BY <1>1 DEF Init, DistinctInv

LEMMA DistinctNext ==
  ASSUME TypeOK, DistinctInv, [Next]_vars
  PROVE  DistinctInv'
<1>0. ws \in Workspace
  BY DEF TypeOK
<1>1. CASE UNCHANGED <<ws, ww>>
  BY <1>1 DEF DistinctInv
<1>2. CASE ReconcileWorkspace
  <2>1. PICK eligible \in SUBSET Runs : ww'.queue \in UpdatedQueues(GetWorkspace.queue, eligible)
    <3>1. \A S : EligibleRuns(S) \in SUBSET Runs
      BY RunsAssumption DEF EligibleRuns
    <3> QED
      BY <1>2, <3>1 DEF ReconcileWorkspace
  <2>2. Distinct(ww'.queue)
    <3>1. IsFiniteSet(eligible) /\ ww'.queue \in SetToSeqs(eligible)
      BY <2>1, RunsAssumption, FS_Subset DEF UpdatedQueues
    <3> QED
      BY <3>1, ListingIsWhole
  <2>3. UNCHANGED ws.queue
    BY <1>0, <1>2 DEF ReconcileWorkspace, PutWorkspace, wsVars, Workspace
  <2> QED
    BY <2>2, <2>3 DEF DistinctInv
<1>3. CASE UpdateWorkspaceStatus
  <2>1. /\ ww # Idle /\ ww' = Idle
        /\ ws'.queue = ws.queue \/ ws'.queue = ww.queue
    BY <1>0, <1>3 DEF UpdateWorkspaceStatus, HasLatestWorkspace, PutWorkspace, wsVars, Workspace
  <2> QED
    BY <2>1 DEF DistinctInv
<1>4. ASSUME NEW r \in Runs, ApproveRun(r) PROVE DistinctInv'
  <2>1. UNCHANGED <<ws.queue, ww>>
    BY <1>0, <1>4 DEF ApproveRun, PutWorkspace, Workspace, workers
  <2> QED
    BY <2>1 DEF DistinctInv
<1> QED
  BY <1>1, <1>2, <1>3, <1>4
  DEF Next, Watch, SyncWorkspace, SyncRuns, SyncPods, WorkspaceController, RunController,
      DropRun, FailOnArchive, ReconcileRun, AdoptRun, RunChain, ManageQueue, CreatePod,
      ReportPod, UpdateRunStatus, Client, CreateRun, DeleteRun, Kubernetes, StartPod,
      TerminatePod, CollectPod, SetPod, wsVars, workers, vars

\* The loop of the code has exactly the outcomes that UpdatedQueues gives for it,
\* on every queue that a workspace comes to have and for any runs.
THEOREM LoopIsRight == Spec => []LoopRebuildsQueue
<1>1. TypeOK /\ DistinctInv => LoopRebuildsQueue
  <2> SUFFICES ASSUME TypeOK, DistinctInv, NEW eligible \in SUBSET Names
               PROVE  UpdatedQueues(ws.queue, eligible) =
                        {UpdateCombinedQueue(ws.queue, listed) : listed \in SetToSeqs(eligible)}
    BY DEF LoopRebuildsQueue
  <2>1. IsFiniteSet(eligible)
    <3>1. IsFiniteSet(Names)
      BY RunsAssumption, FS_AddElement DEF Names
    <3> QED
      BY <3>1, FS_Subset
  <2>2. ws.queue \in Seq(Runs) /\ Distinct(ws.queue)
    BY DEF TypeOK, Workspace, DistinctInv
  <2> QED
    BY <2>1, <2>2, LoopIsUpdate
<1> QED
  BY <1>1, TypeInit, TypeStep, DistinctInit, DistinctNext, PTL DEF Spec

-----------------------------------------------------------------------------
(* Rebuilding the queue.  Those of a queue that are still wanted stay, in  *)
(* their order and ahead of the newcomers, so its head stays its head.     *)

\* A rebuilt queue lists whoever is eligible, once.
LEMMA RebuiltIsWhole ==
  ASSUME NEW q, NEW eligible \in SUBSET Runs, NEW n \in UpdatedQueues(q, eligible)
  PROVE  /\ n \in Seq(Runs) /\ Distinct(n) /\ ToSet(n) = eligible
         /\ n \in UpdatedQueues(q, ToSet(n))
         /\ IsFiniteSet(eligible) /\ Len(n) = Cardinality(eligible)
<1>1. IsFiniteSet(eligible) /\ n \in SetToSeqs(eligible)
  BY RunsAssumption, FS_Subset DEF UpdatedQueues
<1>2. n \in Seq(eligible) /\ Distinct(n) /\ ToSet(n) = eligible /\ Len(n) = Cardinality(eligible)
  BY <1>1, ListingIsWhole
<1>3. n \in Seq(Runs)
  BY <1>2, SeqMonotonic
<1> QED
  BY <1>1, <1>2, <1>3

\* Who is at the head of a queue and stays in it, stays at its head.
LEMMA HeadStays ==
  ASSUME NEW q \in Seq(Runs), Distinct(q),
         NEW eligible \in SUBSET Runs, NEW n \in UpdatedQueues(q, eligible),
         NEW r \in ToSet(n), IsActive(q, r)
  PROVE  IsActive(n, r)
<1>1. n \in Seq(Runs) /\ KeepsPositions(q, n)
  BY RebuiltIsWhole DEF UpdatedQueues
<1>2. PICK j \in DOMAIN n : n[j] = r
  BY DEF ToSet
<1>3. 1 \in DOMAIN q /\ q[1] = r /\ r \in ToSet(q)
  BY DEF IsActive, ToSet
<1>4. ASSUME 1 < j PROVE FALSE
  <2>1. 1 \in DOMAIN n
    BY <1>1, <1>2
  <2>2. PICK a, b \in DOMAIN q : a < b /\ q[b] = r
    BY <1>1, <1>2, <1>3, <1>4, <2>1 DEF KeepsPositions
  <2>3. b = 1
    BY <1>3, <2>2 DEF Distinct
  <2> QED
    BY <2>2, <2>3
<1>5. j = 1
  BY <1>1, <1>2, <1>4
<1> QED
  BY <1>1, <1>2, <1>5 DEF IsActive

\* A queue is what comes first in it and what comes behind.
LEMMA SplitQueue ==
  ASSUME NEW n \in Seq(Runs), NEW k \in 0..Len(n)
  PROVE  LET front == SubSeq(n, 1, k)
             back  == SubSeq(n, k + 1, Len(n))
         IN  /\ front \in [1..k -> Runs] /\ \A i \in 1..k : front[i] = n[i]
             /\ back \in [1..(Len(n) - k) -> Runs]
             /\ \A i \in 1..(Len(n) - k) : back[i] = n[k + i]
             /\ n = front \o back
<1> DEFINE front == SubSeq(n, 1, k)
           back  == SubSeq(n, k + 1, Len(n))
<1>1. Len(n) \in Nat /\ \A i \in 1..Len(n) : n[i] \in Runs
  BY LenProperties
<1>2. n = front \o back
  <2>1. 1 \in 1..(Len(n) + 1) /\ k \in (1 - 1)..Len(n) /\ Len(n) \in k..Len(n)
    BY <1>1
  <2>2. front \o back = SubSeq(n, 1, Len(n))
    BY <2>1, ConcatAdjacentSubSeq
  <2> QED
    BY <2>2, SubSeqFull
<1>3. /\ front \in Seq(Runs) /\ Len(front) = k
      /\ \A i \in 1..k : front[i] = n[1 + i - 1]
  BY <1>1, SubSeqProperties
<1>4. /\ back \in Seq(Runs) /\ Len(back) = Len(n) - k
      /\ \A i \in 1..(Len(n) - k) : back[i] = n[(k + 1) + i - 1]
  BY <1>1, SubSeqProperties
<1> HIDE DEF front, back
<1>5. front \in [1..k -> Runs] /\ back \in [1..(Len(n) - k) -> Runs]
  BY <1>3, <1>4, LenProperties
<1>6. /\ \A i \in 1..k : front[i] = n[i]
      /\ \A i \in 1..(Len(n) - k) : back[i] = n[k + i]
  BY <1>1, <1>3, <1>4
<1> QED
  BY <1>2, <1>5, <1>6 DEF front, back

\* A rebuilt queue is an update of the queue in the sense of CommandQueue.
LEMMA RebuiltIsUpdate ==
  ASSUME NEW q \in Seq(Runs), NEW eligible \in SUBSET Runs,
         NEW n \in UpdatedQueues(q, eligible)
  PROVE  \E front \in SetToSeqs(ToSet(q) \cap eligible),
            back \in SetToSeqs(eligible \ ToSet(q)) :
           Queue!InOrder(front, q) /\ n = front \o back
<1> DEFINE N     == Cardinality(eligible)
           Olds  == {i \in 1..N : n[i] \in ToSet(q)}
           k     == Cardinality(Olds)
           front == SubSeq(n, 1, k)
           back  == SubSeq(n, k + 1, N)
<1>1. /\ n \in Seq(Runs) /\ Distinct(n) /\ ToSet(n) = eligible
      /\ IsFiniteSet(eligible) /\ Len(n) = N /\ N \in Nat /\ DOMAIN n = 1..N
      /\ KeepsPositions(q, n)
  BY RebuiltIsWhole, FS_CardinalityType DEF UpdatedQueues
<1> HIDE DEF N
\* Those who stay come first.
<1>2. \A i, j \in 1..N : i < j /\ j \in Olds => i \in Olds
  <2> SUFFICES ASSUME NEW i \in 1..N, NEW j \in 1..N, i < j, n[j] \in ToSet(q)
               PROVE  n[i] \in ToSet(q)
    OBVIOUS
  <2>1. PICK a \in DOMAIN q, b \in DOMAIN q : a < b /\ q[a] = n[i] /\ q[b] = n[j]
    <3>1. i \in DOMAIN n /\ j \in DOMAIN n /\ KeepsPositions(q, n)
      BY <1>1
    <3> QED
      BY <3>1 DEF KeepsPositions
  <2>2. q[a] \in ToSet(q)
    BY DEF ToSet
  <2> QED
    BY <2>1, <2>2
<1>3. IsFiniteSet(Olds) /\ k \in 0..N
  <2>1. IsFiniteSet(1..N) /\ Cardinality(1..N) = N
    BY <1>1, FS_Interval
  <2> QED
    BY <1>1, <2>1, FS_Subset, FS_CardinalityType
<1>4. Olds = 1..k
  <2>1. \A x \in Olds : x <= k
    <3> SUFFICES ASSUME NEW x \in Olds, x > k PROVE FALSE
      BY <1>1, <1>3
    <3>1. 1..x \subseteq Olds
      BY <1>1, <1>2
    <3>2. Cardinality(1..x) = x
      BY <1>1, FS_Interval
    <3>3. Cardinality(1..x) <= k
      BY <1>3, <3>1, FS_Subset
    <3> QED
      BY <1>1, <1>3, <3>2, <3>3
  <2>2. Olds \in SUBSET (1..k)
    BY <1>1, <1>3, <2>1
  <2>3. IsFiniteSet(1..k) /\ Cardinality(1..k) = k
    BY <1>3, FS_Interval
  <2> QED
    BY <2>2, <2>3, FS_Subset
<1> HIDE DEF Olds, k
<1>5. /\ front \in [1..k -> Runs] /\ \A i \in 1..k : front[i] = n[i]
      /\ back \in [1..(N - k) -> Runs] /\ \A i \in 1..(N - k) : back[i] = n[k + i]
      /\ n = front \o back
  BY <1>1, <1>3, SplitQueue
<1> HIDE DEF front, back
<1>6. front \in SetToSeqs(ToSet(q) \cap eligible)
  <2> DEFINE S == ToSet(q) \cap eligible
  <2>1. front \in [1..k -> S] /\ \A i, j \in 1..k : i # j => front[i] # front[j]
    <3>1. 1..k \subseteq 1..N
      BY <1>1, <1>3
    <3>2. \A i \in 1..k : front[i] \in S
      BY <1>1, <1>4, <1>5, <3>1 DEF Olds, ToSet
    <3>3. \A i, j \in 1..k : i # j => n[i] # n[j]
      BY <1>1, <3>1 DEF Distinct
    <3>4. \A i, j \in 1..k : i # j => front[i] # front[j]
      BY <1>5, <3>3
    <3> HIDE DEF S
    <3>5. front \in [1..k -> S]
      BY <1>5, <3>2
    <3> QED
      BY <3>4, <3>5
  <2>2. ASSUME NEW s \in S PROVE \E i \in 1..k : front[i] = s
    <3>1. PICK i \in 1..N : n[i] = s /\ s \in ToSet(q)
      BY <1>1 DEF ToSet
    <3>2. i \in 1..k
      BY <1>4, <3>1 DEF Olds
    <3> QED
      BY <1>5, <3>1, <3>2
  <2> HIDE DEF S
  <2>3. front \in Bijection(1..k, S)
    BY <2>1, <2>2 DEF Bijection, Injection, IsInjective, Surjection
  <2>4. IsFiniteSet(1..k) /\ Cardinality(1..k) = k
    BY <1>3, FS_Interval
  <2>5. Cardinality(S) = k
    BY <2>3, <2>4, FS_Bijection DEF ExistsBijection
  <2>6. front \in SetToSeqs(S)
    BY <2>1, <2>5 DEF SetToSeqs
  <2> QED
    BY <2>6 DEF S
<1>7. back \in SetToSeqs(eligible \ ToSet(q))
  <2> DEFINE S == eligible \ ToSet(q)
             m == N - k
  <2>1. m \in Nat /\ \A i \in 1..m : k + i \in (1..N) \ Olds
    <3>1. m \in Nat
      BY <1>1, <1>3
    <3>2. ASSUME NEW i \in 1..m PROVE k + i \in 1..N /\ k + i \notin 1..k
      BY <1>1, <1>3
    <3> QED
      BY <1>4, <3>1, <3>2
  <2>2. back \in [1..m -> S] /\ \A i, j \in 1..m : i # j => back[i] # back[j]
    <3>1. \A i \in 1..m : back[i] \in S
      BY <1>1, <1>5, <2>1 DEF Olds, ToSet
    <3>2. \A i, j \in 1..m : i # j => back[i] # back[j]
      <4> SUFFICES ASSUME NEW i \in 1..m, NEW j \in 1..m, i # j
                   PROVE  back[i] # back[j]
        OBVIOUS
      <4>1. k + i # k + j /\ k + i \in 1..N /\ k + j \in 1..N
        BY <1>3, <2>1
      <4>2. n[k + i] # n[k + j]
        BY <1>1, <4>1 DEF Distinct
      <4>3. back[i] = n[k + i] /\ back[j] = n[k + j]
        BY <1>5
      <4> QED
        BY <4>2, <4>3
    <3> QED
      BY <1>5, <2>1, <3>1, <3>2
  <2>3. ASSUME NEW s \in S PROVE \E i \in 1..m : back[i] = s
    <3>1. PICK i \in 1..N : n[i] = s
      BY <1>1 DEF ToSet
    <3>2. i \notin 1..k
      BY <1>4, <3>1 DEF Olds
    <3>3. i - k \in 1..m /\ k + (i - k) = i
      BY <1>1, <1>3, <3>2
    <3> QED
      BY <1>5, <3>1, <3>3
  <2> HIDE DEF S, m
  <2>4. back \in Bijection(1..m, S)
    BY <2>2, <2>3 DEF Bijection, Injection, IsInjective, Surjection
  <2>5. IsFiniteSet(1..m) /\ Cardinality(1..m) = m
    BY <2>1, FS_Interval
  <2>6. Cardinality(S) = m
    BY <2>4, <2>5, FS_Bijection DEF ExistsBijection
  <2>7. back \in SetToSeqs(S)
    BY <2>2, <2>6 DEF SetToSeqs
  <2> QED
    BY <2>7 DEF S
<1>8. Queue!InOrder(front, q)
  <2> SUFFICES ASSUME NEW i \in 1..k, NEW j \in 1..k, i < j
               PROVE  \E a, b \in DOMAIN q : a < b /\ q[a] = front[i] /\ q[b] = front[j]
    BY <1>3, <1>5 DEF Queue!InOrder
  <2>1. i \in 1..N /\ j \in 1..N /\ n[j] \in ToSet(q)
    BY <1>4 DEF Olds
  <2>2. \E a, b \in DOMAIN q : a < b /\ q[a] = n[i] /\ q[b] = n[j]
    BY <1>1, <2>1 DEF KeepsPositions
  <2> QED
    BY <1>5, <2>2
<1> QED
  BY <1>5, <1>6, <1>7, <1>8

-----------------------------------------------------------------------------
(* The queue.  Runs and their caches move one way while no run is deleted: *)
(* they come to exist, and to be done.  A run in the queue then stays      *)
(* eligible until it is done, so the worker that rebuilds the queue keeps  *)
(* the head for as long as its pod, or the decision to make it, lasts.     *)

Over == {r \in Runs : IsDone(runs[r].status)}

RunsInv ==
  /\ \A r \in Runs : runs[r].object # "deleted"
  /\ \A r \in Runs : /\ Exists(runCache[r]) => Exists(runs[r])
                     /\ IsDone(runCache[r].status) => r \in Over
  /\ rw.pc # "idle" => Exists(runs[rw.run])

LEMMA RunsInit == Init => RunsInv
<1>1. \A r \in Runs : NewRun.object = "absent" /\ ~IsDone(NewRun.status)
  BY DEF NewRun, IsDone
<1> QED
  BY <1>1 DEF Init, RunsInv, Idle, Exists

\* What a step does to the runs, and to the cache of them.
LEMMA RunSteps ==
  ASSUME TypeOK, RunsInv, [Next]_vars, Deletable = {}
  PROVE  /\ \/ UNCHANGED runs
            \/ \E r \in Runs, new \in Run :
                 PutRun(r, new) /\ new.object = "present"
         /\ runCache' = runCache \/ runCache' = runs
         /\ rw'.pc # "idle" =>
              \/ rw.pc # "idle" /\ rw'.run = rw.run
              \/ rw'.run \in Runs /\ Exists(runs[rw'.run])
<1>0. runs \in [Runs -> Run] /\ (rw.pc # "idle" => rw.run \in Runs)
  BY WorkerTypes DEF TypeOK
<1>1. CASE \/ SyncWorkspace \/ SyncPods \/ WorkspaceController
           \/ \E r \in Runs : DropRun(r) \/ ApproveRun(r)
           \/ Kubernetes \/ UNCHANGED vars
  BY <1>1
  DEF SyncWorkspace, SyncPods, WorkspaceController, ReconcileWorkspace,
      UpdateWorkspaceStatus, DropRun, ApproveRun, Kubernetes, StartPod, TerminatePod,
      CollectPod, SetPod, runVars, caches, workers, vars
<1>2. CASE SyncRuns
  BY <1>2 DEF SyncRuns, Sync, workers
<1>3. ASSUME NEW r \in Runs, FailOnArchive(r) \/ ReconcileRun(r) \/ CreateRun(r)
      PROVE  /\ \E new \in Run : PutRun(r, new) /\ new.object = "present"
             /\ runCache' = runCache
             /\ rw' = rw \/ (rw'.run = r /\ Exists(runs[r]))
  <2>1. CASE CreateRun(r)
    <3> DEFINE new == [runs[r] EXCEPT !.object = "present"]
    <3>1. new \in Run /\ new.object = "present"
      BY <1>0 DEF Run
    <3>2. PutRun(r, new) /\ runCache' = runCache /\ rw' = rw
      BY <2>1 DEF CreateRun, caches, workers
    <3> QED
      BY <3>1, <3>2
  <2>2. CASE FailOnArchive(r) \/ ReconcileRun(r)
    <3> DEFINE new == [runs[r] EXCEPT !.adopted = TRUE]
    <3>1. AdoptRun(r) /\ Exists(runs[r])
      BY <2>2 DEF FailOnArchive, ReconcileRun, AdoptRun, HasLatestRun
    <3>2. new \in Run /\ new.object = "present"
      BY <1>0, <3>1 DEF Run, Exists
    <3>3. rw' = rw \/ rw'.run = r
      BY <2>2 DEF FailOnArchive, ReconcileRun
    <3> QED
      BY <3>1, <3>2, <3>3 DEF AdoptRun, caches
  <2> QED
    BY <1>3, <2>1, <2>2
<1>4. CASE RunChain
  BY <1>4 DEF RunChain, ManageQueue, CreatePod, ReportPod, SetStatus, runVars, caches
<1>5. CASE UpdateRunStatus
  <2>1. rw.run \in Runs /\ rw.status \in Status /\ rw'.pc = "idle" /\ runCache' = runCache
    BY <1>5, WorkerTypes DEF UpdateRunStatus, Idle, caches
  <2>2. CASE HasLatestRun(rw.run)
    <3> DEFINE new == [runs[rw.run] EXCEPT !.status = rw.status]
    <3>1. new \in Run /\ new.object = "present"
      BY <1>0, <2>1, <2>2 DEF Run, HasLatestRun, Exists
    <3> QED
      BY <1>5, <2>1, <2>2, <3>1 DEF UpdateRunStatus
  <2>3. CASE ~HasLatestRun(rw.run)
    BY <1>5, <2>1, <2>3 DEF UpdateRunStatus, runVars
  <2> QED
    BY <2>2, <2>3
<1>6. \A r \in Runs : ~DeleteRun(r)
  BY DEF DeleteRun
<1> QED
  BY <1>1, <1>2, <1>3, <1>4, <1>5, <1>6
  DEF Next, Watch, RunController, Client

\* Runs come to exist and to be done, in the cache after they are.
LEMMA RunsGoOn ==
  ASSUME TypeOK, DoneInv, RunsInv, [Next]_vars, Deletable = {}
  PROVE  /\ RunsInv' /\ Over \subseteq Over'
         /\ \A r \in Runs : Exists(runs[r]) => Exists(runs'[r])
         /\ \A r \in Runs : Exists(runCache[r]) => Exists(runCache'[r])
         /\ \A r \in Runs : IsDone(runCache[r].status) => IsDone(runCache'[r].status)
<1>0. runs \in [Runs -> Run] /\ (rw.pc # "idle" => rw.run \in Runs)
  BY WorkerTypes DEF TypeOK
<1>1. \A r \in Runs : runs'[r] = runs[r] \/ runs'[r].object = "present"
  BY <1>0, RunSteps DEF PutRun
<1>2. \A r \in Runs : Exists(runs[r]) => Exists(runs'[r])
  BY <1>1 DEF Exists
<1>3. Over \subseteq Over'
  <2> SUFFICES ASSUME NEW r \in Runs, IsDone(runs[r].status)
               PROVE  IsDone(runs'[r].status)
    BY DEF Over
  <2>1. Exists(runs[r])
    BY <1>0 DEF DoneInv, RunsInv, Run, Exists
  <2> QED
    BY <1>2, <2>1, DoneStep
<1>4. runCache' = runCache \/ runCache' = runs
  BY RunSteps
<1>5. RunsInv'
  <2>1. \A r \in Runs : runs'[r].object # "deleted"
    BY <1>1 DEF RunsInv
  <2>2. \A r \in Runs : /\ Exists(runCache'[r]) => Exists(runs'[r])
                        /\ IsDone(runCache'[r].status) => r \in Over'
    BY <1>2, <1>3, <1>4 DEF RunsInv, Over
  <2>3. rw'.pc # "idle" => Exists(runs'[rw'.run])
    BY <1>0, <1>2, RunSteps DEF RunsInv
  <2> QED
    BY <2>1, <2>2, <2>3 DEF RunsInv
<1> QED
  BY <1>2, <1>3, <1>4, <1>5 DEF RunsInv, Over

\* The runs that are, or were until they were done, eligible for the queue.
Listed ==
  {r \in Queueable : /\ Exists(GetRun(r))
                     /\ ~IsDone(GetRun(r).status) /\ r \in Privileged =>
                          r \in ws.approvals}

\* What is asked about a run of the cache, whether it trails or not.
LEMMA CachedRuns ==
  ASSUME TypeOK, DoneInv, RunsInv, [Next]_vars, Deletable = {}, NEW r \in Runs
  PROVE  /\ Exists(GetRun(r)) => Exists(GetRun(r)')
         /\ IsDone(GetRun(r).status) => IsDone(GetRun(r)'.status)
         /\ IsDone(GetRun(r).status) => r \in Over
BY RunsGoOn DEF GetRun, RunsInv, Over

\* An approval is pruned with a run that is gone or done only.
LEMMA ApprovalsStay ==
  ASSUME TypeOK, [Next]_vars, "workspace" \notin Lag,
         NEW r \in ws.approvals, Exists(GetRun(r)), ~IsDone(GetRun(r).status)
  PROVE  r \in ws'.approvals
<1>0. ws \in Workspace /\ r \in Runs /\ GetRun(r) \in Run
  BY ReadTypes DEF TypeOK, Workspace
<1>1. CASE UNCHANGED ws
  BY <1>1
<1>2. CASE ReconcileWorkspace
  <2>1. r \in PruneApprovals(ws.approvals)
    <3>1. SetRunPhase(GetRun(r).status) # "completed"
      BY <1>0 DEF SetRunPhase, IsDone, Run, Status, Reasons
    <3> QED
      BY <3>1 DEF PruneApprovals
  <2> QED
    BY <1>0, <1>2, <2>1
    DEF ReconcileWorkspace, GetWorkspace, PutWorkspace, wsVars, Workspace
<1>3. CASE UpdateWorkspaceStatus
  BY <1>0, <1>3 DEF UpdateWorkspaceStatus, PutWorkspace, wsVars, Workspace
<1>4. ASSUME NEW s \in Runs, ApproveRun(s) PROVE r \in ws'.approvals
  BY <1>0, <1>4 DEF ApproveRun, PutWorkspace, Workspace
<1> QED
  BY <1>1, <1>2, <1>3, <1>4
  DEF Next, Watch, SyncWorkspace, SyncRuns, SyncPods, WorkspaceController, RunController,
      DropRun, FailOnArchive, ReconcileRun, AdoptRun, RunChain, ManageQueue, CreatePod,
      ReportPod, UpdateRunStatus, Client, CreateRun, DeleteRun, Kubernetes, StartPod,
      TerminatePod, CollectPod, SetPod, wsVars, vars

LEMMA ListedStay ==
  ASSUME TypeOK, DoneInv, RunsInv, [Next]_vars, Deletable = {}, "workspace" \notin Lag
  PROVE  Listed \subseteq Listed'
BY CachedRuns, ApprovalsStay, RunsAssumption DEF Listed

\* Which pods execute.
LEMMA ExecutingSteps ==
  ASSUME TypeOK, RunsInv, [Next]_vars, Deletable = {}
  PROVE  \/ UNCHANGED Executing
         \/ \E r \in Executing : TerminatePod(r) /\ Executing' = Executing \ {r}
         \/ /\ CreatePod /\ rw.run \in Queueable /\ pods[rw.run] = "none"
            /\ Executing' = Executing \cup {rw.run}
<1>0. /\ pods \in [Runs -> PodPhases] /\ Queueable \subseteq Runs
      /\ rw.pc # "idle" => rw.run \in Runs
  BY WorkerTypes, RunsAssumption DEF TypeOK
<1>1. CASE UNCHANGED pods
  BY <1>1 DEF Executing
<1>2. ASSUME NEW r \in Runs, NEW phase \in PodPhases, pods' = [pods EXCEPT ![r] = phase]
      PROVE  Executing' = IF r \in Queueable /\ phase \in {"Pending", "Running"}
                          THEN Executing \cup {r} ELSE Executing \ {r}
  <2>1. \A s \in Queueable : pods'[s] = IF s = r THEN phase ELSE pods[s]
    BY <1>0, <1>2
  <2> QED
    BY <1>0, <2>1 DEF Executing
<1>3. CASE CreatePod /\ ~UNCHANGED pods
  <2>1. /\ rw.run \in Runs /\ pods[rw.run] = "none"
        /\ pods' = [pods EXCEPT ![rw.run] = "Pending"]
    BY <1>0, <1>3 DEF CreatePod, PutPod, podVars
  <2>2. rw.run \notin Executing /\ "Pending" \in PodPhases
    BY <2>1 DEF Executing, PodPhases
  <2>3. Executing' = IF rw.run \in Queueable THEN Executing \cup {rw.run}
                     ELSE Executing \ {rw.run}
    BY <1>2, <2>1, <2>2
  <2> QED
    BY <1>3, <2>1, <2>2, <2>3
<1>4. ASSUME NEW r \in Runs, StartPod(r) PROVE UNCHANGED Executing
  <2>1. pods[r] = "Pending" /\ pods' = [pods EXCEPT ![r] = "Running"]
    BY <1>4 DEF StartPod, SetPod, PutPod
  <2>2. "Running" \in PodPhases
    BY DEF PodPhases
  <2> QED
    BY <1>2, <2>1, <2>2 DEF Executing
<1>5. ASSUME NEW r \in Runs, TerminatePod(r) PROVE Executing' = Executing \ {r}
  <2>1. pods' = [pods EXCEPT ![r] = "Terminated"]
    BY <1>5 DEF TerminatePod, SetPod, PutPod
  <2>2. "Terminated" \in PodPhases
    BY DEF PodPhases
  <2> QED
    BY <1>2, <2>1, <2>2
<1>6. \A r \in Runs : ~CollectPod(r)
  BY DEF CollectPod, RunsInv
<1>7. CASE Kubernetes
  BY <1>4, <1>5, <1>6, <1>7 DEF Kubernetes
<1> QED
  BY <1>1, <1>3, <1>7
  DEF Next, Watch, SyncWorkspace, SyncRuns, SyncPods, WorkspaceController,
      ReconcileWorkspace, UpdateWorkspaceStatus, RunController, DropRun, FailOnArchive,
      ReconcileRun, AdoptRun, RunChain, ManageQueue, ReportPod, UpdateRunStatus, Client,
      CreateRun, ApproveRun, DeleteRun, podVars, vars

\* The queue is written by one step only, and is what its worker holds.
LEMMA QueueSteps ==
  ASSUME TypeOK, [Next]_vars, "workspace" \notin Lag
  PROVE  \/ UNCHANGED ws.queue /\ ~UpdateWorkspaceStatus
         \/ /\ UpdateWorkspaceStatus /\ ww # Idle /\ ww' = Idle
            /\ ws'.queue = ww.queue /\ UNCHANGED <<pods, runs, rw>>
<1>0. ws \in Workspace
  BY DEF TypeOK
<1>1. CASE UNCHANGED ws /\ ~UpdateWorkspaceStatus
  BY <1>1
<1>2. CASE ReconcileWorkspace
  <2>1. ww = Idle /\ ~UpdateWorkspaceStatus
    BY <1>2 DEF ReconcileWorkspace, UpdateWorkspaceStatus
  <2>2. UNCHANGED ws.queue
    BY <1>0, <1>2 DEF ReconcileWorkspace, PutWorkspace, wsVars, Workspace
  <2> QED
    BY <2>1, <2>2
<1>3. CASE UpdateWorkspaceStatus
  BY <1>0, <1>3
  DEF UpdateWorkspaceStatus, HasLatestWorkspace, PutWorkspace, Workspace, runVars, podVars
<1>4. ASSUME NEW s \in Runs, ApproveRun(s), ~UpdateWorkspaceStatus
      PROVE  UNCHANGED ws.queue
  BY <1>0, <1>4 DEF ApproveRun, PutWorkspace, Workspace
<1> QED
  BY <1>1, <1>2, <1>3, <1>4
  DEF Next, Watch, SyncWorkspace, SyncRuns, SyncPods, WorkspaceController, RunController,
      DropRun, FailOnArchive, ReconcileRun, AdoptRun, RunChain, ManageQueue, CreatePod,
      ReportPod, UpdateRunStatus, Client, CreateRun, DeleteRun, Kubernetes, StartPod,
      TerminatePod, CollectPod, SetPod, wsVars, vars

\* The queue that is published.
PublishedInv == Distinct(ws.queue) /\ ToSet(ws.queue) \subseteq Listed

\* The queue that is to be published: no run is left out that is not done.
RebuiltInv ==
  ww # Idle => /\ ToSet(ww.queue) \subseteq Listed
               /\ ww.queue \in UpdatedQueues(ws.queue, ToSet(ww.queue))
               /\ ToSet(ws.queue) \ Over \subseteq ToSet(ww.queue)

\* The run that executes.
HeadInv == \A r \in Executing : IsActive(ws.queue, r) /\ r \notin Over

\* The run that is worked on: what its worker has read of the queue goes on to
\* hold of the queue as it is, and it is not done while its pod executes.
WorkerInv ==
  /\ rw.pc = "chain" =>
       /\ ~IsDone(rw.status)
       /\ rw.run \in Executing => IsActive(rw.queue, rw.run)
       /\ rw.run \in Queueable /\ IsActive(rw.queue, rw.run) => IsActive(ws.queue, rw.run)
  /\ rw.pc = "status" /\ IsDone(rw.status) => rw.run \notin Executing

QueueInv == PublishedInv /\ RebuiltInv /\ HeadInv /\ WorkerInv

\* What has been assumed where the queue is promised.
Promised ==
  "workspace" \notin Lag /\ Deletable = {} /\ "pending" \notin TimesOut

LEMMA QueueInit == Init => QueueInv
<1> SUFFICES ASSUME Init PROVE QueueInv
  OBVIOUS
<1>1. ws.queue = <<>> /\ ToSet(<<>>) = {} /\ Distinct(<<>>)
  BY DEF Init, ToSet, Distinct
<1>2. ww = Idle /\ rw.pc = "idle" /\ Executing = {}
  BY RunsAssumption DEF Init, Idle, Executing
<1> QED
  BY <1>1, <1>2 DEF QueueInv, PublishedInv, RebuiltInv, HeadInv, WorkerInv

\* A queue that may be published is one of runs.
LEMMA QueueTypes ==
  ASSUME TypeOK
  PROVE  /\ ws.queue \in Seq(Runs) /\ Listed \subseteq Queueable
         /\ Queueable \subseteq Runs
         /\ ww # Idle => ww.queue \in Seq(Runs) /\ ToSet(ww.queue) \in SUBSET Runs
<1>1. ww # Idle => ww.queue \in Seq(Runs)
  BY WorkerTypes
<1>2. \A q \in Seq(Runs) : ToSet(q) \in SUBSET Runs
  BY DEF ToSet
<1> QED
  BY <1>1, <1>2, RunsAssumption DEF TypeOK, Workspace, Listed

LEMMA PublishedNext ==
  ASSUME TypeOK, DoneInv, RunsInv, QueueInv, [Next]_vars, Promised
  PROVE  PublishedInv'
<1>1. Listed \subseteq Listed'
  BY ListedStay DEF Promised
<1>2. CASE UNCHANGED ws.queue
  BY <1>1, <1>2 DEF QueueInv, PublishedInv
<1>3. CASE ww # Idle /\ ws'.queue = ww.queue
  <2>1. Distinct(ww.queue) /\ ToSet(ww.queue) \subseteq Listed
    BY <1>3, QueueTypes, RebuiltIsWhole DEF QueueInv, RebuiltInv
  <2> QED
    BY <1>1, <1>3, <2>1 DEF PublishedInv
<1> QED
  BY <1>2, <1>3, QueueSteps DEF Promised

\* Who is active and not done stays active.
LEMMA ActiveStays ==
  ASSUME TypeOK, DoneInv, RunsInv, QueueInv, [Next]_vars, Promised,
         NEW r, IsActive(ws.queue, r), r \notin Over
  PROVE  IsActive(ws'.queue, r)
<1>1. CASE UNCHANGED ws.queue
  BY <1>1
<1>2. CASE ww # Idle /\ ws'.queue = ww.queue
  <2>1. r \in ToSet(ws.queue)
    BY QueueTypes, ActiveIsMember
  <2>2. r \in ToSet(ww.queue)
    BY <1>2, <2>1 DEF QueueInv, RebuiltInv
  <2>3. IsActive(ww.queue, r)
    BY <1>2, <2>2, QueueTypes, HeadStays DEF QueueInv, RebuiltInv, PublishedInv
  <2> QED
    BY <1>2, <2>3
<1> QED
  BY <1>1, <1>2, QueueSteps DEF Promised

\* Nobody else moves the worker that rebuilds the queue.
LEMMA RebuildSteps ==
  ASSUME [Next]_vars
  PROVE  UNCHANGED ww \/ ww' = Idle \/ ReconcileWorkspace
BY DEF Next, Watch, SyncWorkspace, SyncRuns, SyncPods, WorkspaceController,
       UpdateWorkspaceStatus, RunController, DropRun, FailOnArchive, ReconcileRun,
       AdoptRun, RunChain, ManageQueue, CreatePod, ReportPod, UpdateRunStatus, Client,
       CreateRun, ApproveRun, DeleteRun, Kubernetes, StartPod, TerminatePod, CollectPod,
       SetPod, workers, vars

LEMMA RebuiltNext ==
  ASSUME TypeOK, DoneInv, RunsInv, QueueInv, [Next]_vars, Promised
  PROVE  RebuiltInv'
<1>1. CASE ww' = Idle
  BY <1>1 DEF RebuiltInv
<1>2. CASE UNCHANGED ww /\ ww' # Idle
  <2>1. UNCHANGED ws.queue
    BY <1>2, QueueSteps DEF Promised
  <2>2. Listed \subseteq Listed' /\ Over \subseteq Over'
    BY ListedStay, RunsGoOn DEF Promised
  <2> QED
    BY <1>2, <2>1, <2>2 DEF QueueInv, RebuiltInv
<1>3. CASE ReconcileWorkspace
  <2> DEFINE kept == PruneApprovals(ws.approvals)
  <2>1. PICK q \in UpdatedQueues(ws.queue, EligibleRuns(kept)) :
          ww' = [pc |-> "status", queue |-> q]
    BY <1>3 DEF ReconcileWorkspace, GetWorkspace, Promised
  <2>2. /\ ws'.approvals = kept /\ ws'.queue = ws.queue
        /\ UNCHANGED <<runs, runCache>>
    BY <1>3
    DEF ReconcileWorkspace, GetWorkspace, PutWorkspace, wsVars, runVars, caches, TypeOK,
        Workspace, Promised
  <2>3. EligibleRuns(kept) \subseteq Listed'
    BY <2>2 DEF EligibleRuns, Listed, GetRun
  <2>4. ToSet(ws.queue) \ Over \subseteq EligibleRuns(kept)
    <3> SUFFICES ASSUME NEW r \in ToSet(ws.queue), r \notin Over
                 PROVE  r \in EligibleRuns(kept)
      OBVIOUS
    <3>1. r \in Listed /\ r \in Runs
      BY QueueTypes DEF QueueInv, PublishedInv
    <3>2. ~IsDone(GetRun(r).status)
      BY <3>1, CachedRuns DEF Promised
    <3>3. Exists(GetRun(r)) /\ r \in Queueable /\ (r \in Privileged => r \in ws.approvals)
      BY <3>1, <3>2 DEF Listed
    <3>4. r \in Privileged => r \in kept
      BY <2>2, <3>2, <3>3, ApprovalsStay DEF Promised
    <3> QED
      BY <3>2, <3>3, <3>4 DEF EligibleRuns
  <2>5. EligibleRuns(kept) \in SUBSET Runs
    BY RunsAssumption DEF EligibleRuns
  <2>6. ToSet(q) = EligibleRuns(kept) /\ q \in UpdatedQueues(ws.queue, ToSet(q))
    BY <2>1, <2>5, RebuiltIsWhole
  <2>7. Over \subseteq Over' /\ ww'.queue = q
    BY <2>1, RunsGoOn DEF Promised
  <2> HIDE DEF kept
  <2> QED
    BY <2>2, <2>3, <2>4, <2>6, <2>7 DEF RebuiltInv
<1> QED
  BY <1>1, <1>2, <1>3, RebuildSteps

\* A run is done by the end of the reconcile that has found it so.
LEMMA OverSteps ==
  ASSUME TypeOK, RunsInv, [Next]_vars, Deletable = {}, NEW r \in Over', r \notin Over
  PROVE  /\ UpdateRunStatus /\ rw.pc = "status" /\ r = rw.run /\ IsDone(rw.status)
         /\ UNCHANGED pods
<1>0. /\ runs \in [Runs -> Run] /\ r \in Runs /\ (rw.pc # "idle" => rw.run \in Runs)
      /\ runs'[r].status # runs[r].status
  BY WorkerTypes DEF TypeOK, Over
<1>1. ASSUME NEW s \in Runs, NEW new, PutRun(s, new), new.status = runs[s].status
      PROVE  FALSE
  BY <1>0, <1>1 DEF PutRun
<1>2. \A s \in Runs : ~CreateRun(s) /\ ~AdoptRun(s) /\ ~DeleteRun(s)
  <2> SUFFICES ASSUME NEW s \in Runs PROVE ~CreateRun(s) /\ ~AdoptRun(s) /\ ~DeleteRun(s)
    OBVIOUS
  <2>1. /\ [runs[s] EXCEPT !.object = "present"].status = runs[s].status
        /\ [runs[s] EXCEPT !.adopted = TRUE].status = runs[s].status
    BY <1>0 DEF Run
  <2> QED
    BY <1>1, <2>1 DEF CreateRun, AdoptRun, DeleteRun
<1>3. ~UNCHANGED runs
  BY <1>0
<1>4. UpdateRunStatus
  BY <1>2, <1>3
  DEF Next, Watch, SyncWorkspace, SyncRuns, SyncPods, WorkspaceController,
      ReconcileWorkspace, UpdateWorkspaceStatus, RunController, DropRun, FailOnArchive,
      ReconcileRun, RunChain, ManageQueue, CreatePod, ReportPod, Client, ApproveRun,
      Kubernetes, StartPod, TerminatePod, CollectPod, SetPod, runVars, vars
<1>5. /\ runs' = [runs EXCEPT ![rw.run] = [runs[rw.run] EXCEPT !.status = rw.status]]
      /\ rw.run \in Runs /\ rw.pc = "status" /\ UNCHANGED pods
  BY <1>0, <1>3, <1>4 DEF UpdateRunStatus, PutRun, runVars, podVars
<1>6. r = rw.run /\ runs'[r].status = rw.status
  BY <1>0, <1>5 DEF Run
<1> QED
  BY <1>4, <1>5, <1>6 DEF Over

\* A pod is created of the run at the head, when no other executes.
LEMMA PodIsOfHead ==
  ASSUME TypeOK, DoneInv, RunsInv, QueueInv,
         CreatePod, rw.run \in Queueable, pods[rw.run] = "none"
  PROVE  /\ IsActive(ws.queue, rw.run) /\ Executing = {} /\ rw.run \notin Over
         /\ rw.run \in Runs
<1>1. rw.pc = "chain" /\ IsActive(rw.queue, rw.run)
  BY DEF CreatePod, MayProceed
<1>2. IsActive(ws.queue, rw.run)
  BY <1>1 DEF QueueInv, WorkerInv
<1>3. ASSUME NEW r \in Executing PROVE FALSE
  <2>1. r = rw.run
    BY <1>2 DEF QueueInv, HeadInv, IsActive
  <2> QED
    BY <2>1 DEF Executing
<1>4. rw.run \notin Over
  BY <1>1 DEF DoneInv, RunsInv, Over
<1> QED
  BY <1>1, <1>2, <1>3, <1>4, WorkerTypes

LEMMA HeadNext ==
  ASSUME TypeOK, DoneInv, RunsInv, QueueInv, [Next]_vars, Promised
  PROVE  HeadInv'
<1> SUFFICES ASSUME NEW r \in Executing' PROVE IsActive(ws'.queue, r) /\ r \notin Over'
  BY DEF HeadInv
<1>1. CASE r \in Executing
  <2>1. IsActive(ws.queue, r) /\ r \notin Over
    BY <1>1 DEF QueueInv, HeadInv
  <2>2. ~(rw.pc = "status" /\ IsDone(rw.status) /\ r = rw.run)
    BY <1>1 DEF QueueInv, WorkerInv
  <2> QED
    BY <2>1, <2>2, ActiveStays, OverSteps DEF Promised
<1>2. CASE r \notin Executing
  <2>1. CreatePod /\ rw.run \in Queueable /\ pods[rw.run] = "none" /\ r = rw.run
    BY <1>2, ExecutingSteps DEF Promised
  <2>2. IsActive(ws.queue, r) /\ r \notin Over /\ rw.pc = "chain"
    BY <2>1, PodIsOfHead DEF CreatePod
  <2> QED
    BY <2>2, ActiveStays, OverSteps DEF Promised
<1> QED
  BY <1>1, <1>2

\* What the run worker takes up, and what it comes to.
LEMMA WorkerMoves ==
  ASSUME TypeOK, DoneInv, [Next]_vars
  PROVE  \/ UNCHANGED rw
         \/ rw'.pc = "idle"
         \/ /\ \E r \in Runs : ReconcileRun(r)
            /\ UNCHANGED <<ws, pods>> /\ ~IsDone(rw'.status)
         \/ RunChain /\ rw'.pc = "status" /\ rw'.run = rw.run
<1>1. CASE RunChain
  BY <1>1 DEF RunChain, ManageQueue, CreatePod, ReportPod, SetStatus
<1>2. CASE UpdateRunStatus
  BY <1>2 DEF UpdateRunStatus, Idle
<1>3. ASSUME NEW r \in Runs, ReconcileRun(r)
      PROVE  UNCHANGED <<ws, pods>> /\ ~IsDone(rw'.status)
  <2>1. GetRun(r) = runs[r] /\ ~IsDone(runs[r].status)
    BY <1>3 DEF ReconcileRun, AdoptRun, GetRun, HasLatestRun, DoneInv
  <2>2. rw'.status = runs[r].status
    BY <1>3 DEF ReconcileRun
  <2> QED
    BY <1>3, <2>1, <2>2 DEF ReconcileRun, AdoptRun, wsVars, podVars
<1>4. CASE UNCHANGED rw
  BY <1>4
<1> QED
  BY <1>1, <1>2, <1>3, <1>4
  DEF Next, Watch, SyncWorkspace, SyncRuns, SyncPods, WorkspaceController,
      ReconcileWorkspace, UpdateWorkspaceStatus, RunController, DropRun, FailOnArchive,
      Client, CreateRun, ApproveRun, DeleteRun, Kubernetes, StartPod, TerminatePod,
      CollectPod, SetPod, workers, vars

\* A run that the chain finds done does not execute.
LEMMA DoneIsOver ==
  ASSUME TypeOK, DoneInv, FollowInv, RunsInv, QueueInv, RunChain, Promised,
         IsDone(rw'.status)
  PROVE  rw.run \notin Executing' /\ UNCHANGED pods
<1>0. rw.pc = "chain" /\ rw.run \in Runs /\ rw.status \in Status
  BY WorkerTypes DEF RunChain, ManageQueue, CreatePod, ReportPod
<1>1. CASE ManageQueue
  <2>1. rw.run \notin Executing
    BY <1>0, <1>1 DEF ManageQueue, MayProceed, QueueInv, WorkerInv
  <2> QED
    BY <1>1, <2>1 DEF ManageQueue, podVars, Executing
<1>2. CASE CreatePod
  <2>1. \/ rw'.status = [complete |-> "PodCreated", failed |-> FALSE]
        \/ rw'.status = [complete |-> rw.status.complete, failed |-> FALSE]
    <3>1. \/ SetStatus("PodCreated", FALSE, FALSE)
          \/ SetStatus(rw.status.complete, FALSE, TRUE)
      BY <1>2 DEF CreatePod
    <3>2. CASE SetStatus("PodCreated", FALSE, FALSE)
      BY <3>2 DEF SetStatus
    <3>3. CASE SetStatus(rw.status.complete, FALSE, TRUE)
      BY <3>3 DEF SetStatus
    <3> QED
      BY <3>1, <3>2, <3>3
  <2>2. ~IsDone(rw.status)
    BY <1>0 DEF QueueInv, WorkerInv
  <2> QED
    BY <1>0, <2>1, <2>2, <1>2 DEF IsDone
<1>3. CASE ReportPod
  <2>1. rw'.status = [complete |-> ReasonOf(GetPod(rw.run)), failed |-> FALSE]
    <3>1. SetStatus(ReasonOf(GetPod(rw.run)), FALSE, FALSE)
      BY <1>3 DEF ReportPod, LimitPassed, Promised
    <3> QED
      BY <3>1 DEF SetStatus
  <2>2. GetPod(rw.run) \in PodPhases \ {"none"}
    BY <1>0, <1>3, ReadTypes DEF ReportPod
  <2>3. GetPod(rw.run) = "Terminated"
    BY <2>1, <2>2 DEF IsDone, ReasonOf, PodPhases
  <2>4. pods[rw.run] = "Terminated"
    BY <1>0, <2>3 DEF FollowInv, RunsInv, GetPod, Trails
  <2> QED
    BY <1>3, <2>4 DEF ReportPod, podVars, Executing
<1> QED
  BY <1>1, <1>2, <1>3 DEF RunChain

LEMMA WorkerNext ==
  ASSUME TypeOK, DoneInv, FollowInv, RunsInv, QueueInv, [Next]_vars, Promised
  PROVE  WorkerInv'
<1>1. CASE UNCHANGED rw
  <2>1. rw.pc # "idle" /\ rw.run \notin Executing => rw.run \notin Executing'
    <3> SUFFICES ASSUME rw.run \notin Executing, rw.run \in Executing', rw.pc # "idle"
                 PROVE  FALSE
      OBVIOUS
    <3>1. CreatePod
      BY ExecutingSteps DEF Promised
    <3> QED
      BY <1>1, <3>1 DEF CreatePod, SetStatus
  <2>2. rw.pc = "chain" => rw.run \notin Over
    BY WorkerTypes DEF DoneInv, RunsInv, Over
  <2>3. rw.pc = "chain" /\ IsActive(ws.queue, rw.run) => IsActive(ws'.queue, rw.run)
    BY <2>2, ActiveStays
  <2> QED
    BY <1>1, <2>1, <2>3 DEF QueueInv, WorkerInv
<1>2. CASE rw'.pc = "idle"
  BY <1>2 DEF WorkerInv
<1>3. ASSUME NEW r \in Runs, ReconcileRun(r), UNCHANGED <<ws, pods>>, ~IsDone(rw'.status)
      PROVE  WorkerInv'
  <2>1. rw'.pc = "chain" /\ rw'.queue = ws.queue /\ Executing' = Executing
    BY <1>3 DEF ReconcileRun, GetWorkspace, Promised, Executing
  <2> QED
    BY <1>3, <2>1 DEF QueueInv, HeadInv, WorkerInv
<1>4. CASE RunChain /\ rw'.pc = "status" /\ rw'.run = rw.run
  BY <1>4, DoneIsOver DEF WorkerInv
<1> QED
  BY <1>1, <1>2, <1>3, <1>4, WorkerMoves

LEMMA QueueNext ==
  ASSUME TypeOK, DoneInv, FollowInv, RunsInv, QueueInv, [Next]_vars, Promised
  PROVE  QueueInv'
BY PublishedNext, RebuiltNext, HeadNext, WorkerNext DEF QueueInv

\* The abstract specification counts and orders sets as this one does.
LEMMA QueueCounts == \A S : Queue!Cardinality(S) = Cardinality(S)
BY Zenon DEF Cardinality, Queue!Cardinality

LEMMA QueueOrders == \A S : Queue!SetToSeqs(S) = SetToSeqs(S)
BY QueueCounts, Zenon DEF SetToSeqs, Queue!SetToSeqs

\* Every step is one of the promised queue, or leaves it alone.
LEMMA QueueRefines ==
  ASSUME TypeOK, DoneInv, RunsInv, QueueInv, [Next]_vars, Promised
  PROVE  [Queue!Next]_<<ws.queue, Executing>>
<1>1. CASE UpdateWorkspaceStatus
  <2>1. /\ ww # Idle /\ ws'.queue = ww.queue /\ UNCHANGED <<pods, runs, rw>>
    BY <1>1, QueueSteps DEF Promised
  <2> DEFINE old     == ToSet(ws.queue)
             new     == ToSet(ww.queue)
             leaving == old \ new
             joining == new \ old
  <2>2. /\ ws.queue \in Seq(Runs) /\ new \in SUBSET Runs
        /\ ww.queue \in UpdatedQueues(ws.queue, new) /\ new \subseteq Queueable
    BY <2>1, QueueTypes DEF QueueInv, RebuiltInv
  <2>3. leaving \in SUBSET (old \ Executing)
    <3>1. \A r \in Executing : r \in new
      <4> SUFFICES ASSUME NEW r \in Executing PROVE r \in new
        OBVIOUS
      <4>1. IsActive(ws.queue, r) /\ r \notin Over
        BY DEF QueueInv, HeadInv
      <4>2. r \in old
        BY <2>2, <4>1, ActiveIsMember
      <4> QED
        BY <2>1, <4>1, <4>2 DEF QueueInv, RebuiltInv
    <3> QED
      BY <3>1
  <2>4. joining \in SUBSET (Queueable \ old)
    BY <2>2
  <2>5. old \cap new = old \ leaving
    OBVIOUS
  <2>6. PICK front \in SetToSeqs(old \cap new), back \in SetToSeqs(joining) :
          Queue!InOrder(front, ws.queue) /\ ww.queue = front \o back
    BY <2>2, RebuiltIsUpdate
  <2> HIDE DEF leaving, joining, old, new
  <2>7. Executing' = Executing
    BY <2>1 DEF Executing
  <2>8. Queue!Update
    <3>1. front \in SetToSeqs(old \ leaving) /\ ws'.queue = front \o back
      BY <2>1, <2>5, <2>6
    <3>2. old = Queue!ToSet(ws.queue)
      BY DEF old, ToSet, Queue!ToSet
    <3>3. /\ front \in Queue!SetToSeqs(old \ leaving)
          /\ back \in Queue!SetToSeqs(joining)
      BY <2>6, <3>1, QueueOrders
    <3> QED
      BY <2>3, <2>4, <2>6, <2>7, <3>1, <3>2, <3>3 DEF Queue!Update
  <2> QED
    BY <2>8 DEF Queue!Next
<1>2. CASE ~UpdateWorkspaceStatus
  <2>1. ws'.queue = ws.queue
    BY <1>2, QueueSteps DEF Promised
  <2>2. ASSUME NEW r \in Executing, Executing' = Executing \ {r} PROVE Queue!Next
    <3>1. r \in Queueable
      BY DEF Executing
    <3> QED
      BY <2>1, <2>2, <3>1 DEF Queue!Next, Queue!End
  <2>3. ASSUME CreatePod, rw.run \in Queueable, pods[rw.run] = "none",
               Executing' = Executing \cup {rw.run}
        PROVE  Queue!Next
    <3>1. IsActive(ws.queue, rw.run) /\ Executing = {}
      BY <2>3, PodIsOfHead
    <3>2. Queue!Start(rw.run)
      BY <2>1, <2>3, <3>1 DEF Queue!Start, IsActive
    <3> QED
      BY <2>3, <3>2 DEF Queue!Next
  <2> QED
    BY <2>1, <2>2, <2>3, ExecutingSteps DEF Promised
<1> QED
  BY <1>1, <1>2

\* The controllers implement the queue that users are promised, for any runs,
\* as long as the workspace is read at its latest version, runs are not deleted
\* and no pod is given up while it is pending.
THEOREM QueueImplemented ==
  ASSUME "workspace" \notin Lag, Deletable = {}, "pending" \notin TimesOut
  PROVE  Spec => ImplementsQueue
<1> DEFINE IInv == TypeOK /\ DoneInv /\ FollowInv /\ RunsInv /\ QueueInv
<1>0. Promised
  BY DEF Promised
<1>1. Init => IInv /\ Queue!Init
  <2>1. Init => Queue!Init
    BY RunsAssumption DEF Init, Queue!Init, Executing
  <2> QED
    BY <2>1, TypeInit, DoneInit, FollowInit, RunsInit, QueueInit
<1>2. IInv /\ [Next]_vars => IInv'
  BY <1>0, TypeStep, DoneInvStep, FollowStep, RunsGoOn, QueueNext DEF Promised
<1>3. IInv /\ [Next]_vars => [Queue!Next]_<<ws.queue, Executing>>
  BY <1>0, QueueRefines
<1> HIDE DEF IInv
<1> QED
  BY <1>1, <1>2, <1>3, PTL DEF Spec, ImplementsQueue, Queue!Spec

\* Under the same conditions only one command at a time runs on a workspace, for
\* any runs; where the cache of the workspace trails, two may.
THEOREM OneAtATime ==
  ASSUME "workspace" \notin Lag, Deletable = {}, "pending" \notin TimesOut
  PROVE  Spec => []MutualExclusion
<1> DEFINE IInv == TypeOK /\ DoneInv /\ FollowInv /\ RunsInv /\ QueueInv
<1>0. Promised
  BY DEF Promised
<1>1. Init => IInv
  BY TypeInit, DoneInit, FollowInit, RunsInit, QueueInit
<1>2. IInv /\ [Next]_vars => IInv'
  BY <1>0, TypeStep, DoneInvStep, FollowStep, RunsGoOn, QueueNext DEF Promised
<1>3. IInv => MutualExclusion
  <2> SUFFICES ASSUME QueueInv PROVE MutualExclusion
    OBVIOUS
  <2> DEFINE running == {r \in Queueable : pods[r] = "Running"}
  <2>1. \A r, s \in running : r = s
    BY DEF QueueInv, HeadInv, IsActive, Executing
  <2>2. CASE running = {}
    BY <2>2, FS_EmptySet DEF MutualExclusion
  <2>3. ASSUME NEW r \in running PROVE MutualExclusion
    <3>1. running = {r}
      BY <2>1, <2>3
    <3>2. Cardinality({r}) = 1
      BY FS_Singleton
    <3>3. Cardinality(running) = 1
      BY <3>1, <3>2, Zenon
    <3> HIDE DEF running
    <3>4. Cardinality(running) <= 1
      BY <3>3
    <3> QED
      BY <3>4 DEF MutualExclusion, running
  <2> QED
    BY <2>2, <2>3
<1> HIDE DEF IInv
<1> QED
  BY <1>1, <1>2, <1>3, PTL DEF Spec
=============================================================================
