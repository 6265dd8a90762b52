------------------------------ MODULE Operator ------------------------------
(***************************************************************************)
(* The operator of one workspace: the workspace reconciler, the run        *)
(* reconciler, the API server they read and write, their informer caches,  *)
(* and the clients, kubelets and garbage collector around them.            *)
(*                                                                         *)
(* Both reconcilers read through informer caches, which follow the API     *)
(* server with a delay, and write to the API server, which refuses a write *)
(* that was prepared from a superseded version of the object.  Each has    *)
(* one worker, fed by a work queue that watch events fill; a failed        *)
(* reconcile puts its request back.  There is one workspace: a worker      *)
(* handles one object at a time and no state is shared between workspaces. *)
(* The workspace exists throughout, with its finalizer in place.           *)
(*                                                                         *)
(* Time is left out: a wait that has begun may have outlasted its limit    *)
(* whenever it is looked at, for the waits in TimesOut.                    *)
(***************************************************************************)
EXTENDS Naturals, FiniteSets, WorkspaceQueue

CONSTANTS
  Runs,        \* names of the runs that clients may create in the workspace
  Queueable,   \* those whose command is queueable (apply, destroy, sh, ...)
  Privileged,  \* those whose command the workspace lists as privileged
  Deletable,   \* those whose client may delete them (Ctrl-C, failed launch)
  TimesOut,    \* the waits that may exceed their limit
  Resync,      \* TRUE: any object may be reconciled at any time
  Lag          \* the kinds of object whose cache may trail the API server

Timeouts == {"enqueue", "queue", "pending"}
Kinds    == {"workspace", "runs", "pods"}

ASSUME RunsAssumption ==
  /\ IsFiniteSet(Runs)
  /\ Queueable \subseteq Runs
  /\ Privileged \subseteq Runs
  /\ Deletable \subseteq Runs
  /\ TimesOut \subseteq Timeouts
  /\ Resync \in BOOLEAN
  /\ Lag \subseteq Kinds

VARIABLES
  ws,        \* API server: the workspace's combined queue and approvals
  runs,      \* API server: the Run objects
  pods,      \* API server: the phase of each run's pod
  wsCache,   \* informer cache of the workspace
  wsBehind,  \* the cache does not hold the latest version of the workspace
  runCache,  \* informer cache of the runs
  runsBehind,\* runs of which the cache does not hold the latest version
  podCache,  \* informer cache of the pods
  podsBehind,\* runs whose pod has changed since the cache was filled
  wsTodo,    \* work queue of the workspace reconciler: is there a request?
  runTodo,   \* work queue of the run reconciler
  ww,        \* worker of the workspace reconciler
  rw,        \* worker of the run reconciler
  approved   \* history: the runs a client has ever approved

vars == <<ws, runs, pods, wsCache, wsBehind, runCache, runsBehind, podCache,
          podsBehind, wsTodo, runTodo, ww, rw, approved>>

wsVars  == <<ws, wsBehind>>
runVars == <<runs, runsBehind>>
podVars == <<pods, podsBehind>>
caches  == <<wsCache, runCache, podCache>>
todo    == <<wsTodo, runTodo>>
workers == <<ww, rw>>

-----------------------------------------------------------------------------
(* The objects.  A run's status is its Complete condition, given by its    *)
(* reason ("none": the condition is absent), and whether it has a Failed   *)
(* condition.  Pods that succeeded and pods that failed are treated alike. *)

Reasons == {"none", "Unqueued", "Queued", "PodCreated", "PodPending",
            "PodRunning", "PodTerminated"}
Status  == [complete: Reasons, failed: BOOLEAN]
Run     == [object: {"absent", "present", "deleted"}, adopted: BOOLEAN,
            status: Status]
PodPhases == {"none", "Pending", "Running", "Terminated"}
Workspace == [queue: Seq(Runs), approvals: SUBSET Runs]

NewRun == [object |-> "absent", adopted |-> FALSE,
           status |-> [complete |-> "none", failed |-> FALSE]]

Idle == [pc |-> "idle"]
WorkspaceWorker == {Idle} \cup [pc: {"status"}, queue: Seq(Runs)]
RunWorker ==
  {Idle}
  \cup [pc: {"chain"}, run: Runs, queue: Seq(Runs), status: Status]
  \cup [pc: {"status"}, run: Runs, status: Status, backoff: BOOLEAN]

TypeOK ==
  /\ ws \in Workspace
  /\ runs \in [Runs -> Run]
  /\ pods \in [Runs -> PodPhases]
  /\ wsCache \in Workspace
  /\ wsBehind \in BOOLEAN
  /\ runCache \in [Runs -> Run]
  /\ runsBehind \subseteq Runs
  /\ podCache \in [Runs -> PodPhases]
  /\ podsBehind \subseteq Runs
  /\ wsTodo \in BOOLEAN
  /\ runTodo \subseteq Runs
  /\ ww \in WorkspaceWorker
  /\ rw \in RunWorker
  /\ approved \subseteq Runs

Exists(run) == run.object = "present"

IsDone(status) == status.complete = "PodTerminated" \/ status.failed

SetRunPhase(status) ==
  IF status.failed THEN "failed"
  ELSE [none |-> "unknown", Unqueued |-> "waiting", Queued |-> "queued",
        PodCreated |-> "provisioning", PodPending |-> "provisioning",
        PodRunning |-> "running", PodTerminated |-> "completed"]
       [status.complete]

Init ==
  /\ ws = [queue |-> <<>>, approvals |-> {}]
  /\ runs = [r \in Runs |-> NewRun]
  /\ pods = [r \in Runs |-> "none"]
  /\ wsCache = ws /\ wsBehind = FALSE
  /\ runCache = runs /\ runsBehind = {}
  /\ podCache = pods /\ podsBehind = {}
  /\ wsTodo = Resync /\ runTodo = IF Resync THEN Runs ELSE {}
  /\ ww = Idle /\ rw = Idle
  /\ approved = {}

-----------------------------------------------------------------------------
(* Reads and writes.  A write needs the latest version of the object, and  *)
(* one that changes something makes a version the cache does not have.     *)

GetWorkspace == IF "workspace" \in Lag THEN wsCache ELSE ws
GetRun(r)    == IF "runs" \in Lag THEN runCache[r] ELSE runs[r]
GetPod(r)    == IF "pods" \in Lag THEN podCache[r] ELSE pods[r]

\* Slip: a run is written whatever version of it was read.
HasLatestRunUnchecked(r) == Exists(runs[r])

HasLatestWorkspace == "workspace" \in Lag => ~wsBehind
HasLatestRun(r) == ("runs" \in Lag => r \notin runsBehind) /\ Exists(runs[r])

PutWorkspace(new) ==
  /\ ws' = new
  /\ wsBehind' = (wsBehind \/ new # ws)

PutRun(r, new) ==
  /\ runs' = [runs EXCEPT ![r] = new]
  /\ runsBehind' = IF new # runs[r] THEN runsBehind \cup {r} ELSE runsBehind

PutPod(r, phase) ==
  /\ pods' = [pods EXCEPT ![r] = phase]
  /\ podsBehind' = podsBehind \cup {r}

-----------------------------------------------------------------------------
(* Watch events: the cache of a kind catches up with the API server, and   *)
(* the handlers of the controllers that watch the kind enqueue requests.   *)

\* (The cache of a kind that does not trail is not read, and is left alone.)
Sync(kind, cache, object) == IF kind \in Lag THEN object ELSE cache

\* Slip: the run controller does not watch workspaces.
SyncWorkspaceAlone ==
  /\ wsBehind
  /\ wsCache' = Sync("workspace", wsCache, ws) /\ wsBehind' = FALSE
  /\ wsTodo' = TRUE
  /\ UNCHANGED <<ws, runVars, podVars, runCache, podCache, runTodo, workers,
                 approved>>

SyncWorkspace ==
  /\ wsBehind
  /\ wsCache' = Sync("workspace", wsCache, ws) /\ wsBehind' = FALSE
  /\ wsTodo' = TRUE
  /\ runTodo' = runTodo \cup
       {r \in Runs : Exists(GetRun(r)) /\ ~IsDone(GetRun(r).status)}
  /\ UNCHANGED <<ws, runVars, podVars, runCache, podCache, workers, approved>>

SyncRuns ==
  /\ runsBehind # {}
  /\ runCache' = Sync("runs", runCache, runs) /\ runsBehind' = {}
  /\ wsTodo' = TRUE
  /\ runTodo' = runTodo \cup runsBehind
  /\ UNCHANGED <<wsVars, runs, podVars, wsCache, podCache, workers, approved>>

SyncPods ==
  /\ podsBehind # {}
  /\ podCache' = Sync("pods", podCache, pods) /\ podsBehind' = {}
  /\ runTodo' = runTodo \cup podsBehind
  /\ UNCHANGED <<wsVars, runVars, pods, wsCache, runCache, wsTodo, workers,
                 approved>>

-----------------------------------------------------------------------------
(* The workspace reconciler.                                               *)

\* An approval is kept while its run is in the cache and has not completed.
PruneApprovals(approvals) ==
  {r \in approvals : /\ Exists(GetRun(r))
                     /\ SetRunPhase(GetRun(r).status) # "completed"}

\* Slip: the filter forgets privileged commands.
EligibleRunsUnfiltered(approvals) ==
  {r \in Queueable : Exists(GetRun(r)) /\ ~IsDone(GetRun(r).status)}

\* The filter of updateCombinedQueue, over the runs the cache lists.
EligibleRuns(approvals) ==
  {r \in Queueable : /\ Exists(GetRun(r))
                     /\ ~IsDone(GetRun(r).status)
                     /\ r \in Privileged => r \in approvals}

\* Reads the workspace, prunes its approvals and rebuilds its queue.  Pruning
\* writes the workspace, so what is read is the latest version if anything is
\* pruned; if it is not, the write conflicts and the request stays queued.
ReconcileWorkspace ==
  /\ wsTodo /\ ww = Idle
  /\ LET read == GetWorkspace
         kept == PruneApprovals(read.approvals)
     IN /\ kept # read.approvals => HasLatestWorkspace
        /\ IF kept # read.approvals
           THEN PutWorkspace([ws EXCEPT !.approvals = kept])
           ELSE UNCHANGED <<wsVars>>
        /\ \E q \in UpdatedQueues(read.queue, EligibleRuns(kept)) :
             ww' = [pc |-> "status", queue |-> q]
  /\ wsTodo' = Resync
  /\ UNCHANGED <<runVars, podVars, caches, runTodo, rw, approved>>

\* Reads the workspace again and writes the queue computed above to it.
UpdateWorkspaceStatus ==
  /\ ww # Idle
  /\ IF HasLatestWorkspace
     THEN PutWorkspace([ws EXCEPT !.queue = ww.queue]) /\ UNCHANGED wsTodo
     ELSE wsTodo' = TRUE /\ UNCHANGED <<wsVars>>
  /\ ww' = Idle
  /\ UNCHANGED <<runVars, podVars, caches, runTodo, rw, approved>>

-----------------------------------------------------------------------------
(* The run reconciler.                                                     *)

Remaining(r) == IF Resync THEN runTodo ELSE runTodo \ {r}

\* A request for a run that is gone or done is dropped.
DropRun(r) ==
  /\ r \in runTodo /\ rw = Idle
  /\ ~Exists(GetRun(r)) \/ IsDone(GetRun(r).status)
  /\ runTodo' = Remaining(r)
  /\ UNCHANGED <<wsVars, runVars, podVars, caches, wsTodo, workers, approved>>

\* Reads the run and its workspace, and writes the workspace into the run as
\* its owner.  The write is made on every reconcile (isAlreadyOwner compares
\* the reference with the run's own kind and never finds it), so a run read
\* from a cache that is behind always conflicts and its request stays queued.
AdoptRun(r) ==
  /\ r \in runTodo /\ rw = Idle
  /\ Exists(GetRun(r)) /\ ~IsDone(GetRun(r).status)
  /\ HasLatestRun(r)
  /\ PutRun(r, [runs[r] EXCEPT !.adopted = TRUE])
  /\ UNCHANGED <<wsVars, podVars, caches, wsTodo, ww, approved>>

\* The run is adopted, but making it the owner of its config map (which has
\* no other state here) is refused: the reconcile ends and is tried again.
FailOnArchive(r) == AdoptRun(r) /\ UNCHANGED <<rw, runTodo>>

ReconcileRun(r) ==
  /\ AdoptRun(r)
  /\ rw' = [pc |-> "chain", run |-> r, queue |-> GetWorkspace.queue,
            status |-> runs[r].status]
  /\ runTodo' = Remaining(r)

\* Slip: a run may proceed from anywhere in the queue.
MayProceedFromQueue ==
  rw.run \in Queueable => rw.run \in ToSet(rw.queue)

MayProceed == rw.run \in Queueable => IsActive(rw.queue, rw.run)

\* A limit can only have passed on a run whose Complete condition has been
\* False for a while, so not on one that had no such condition yet.
LimitPassed(wait) == wait \in TimesOut /\ rw.status.complete # "none"

SetStatus(complete, failed, backoff) ==
  rw' = [pc |-> "status", run |-> rw.run, backoff |-> backoff,
         status |-> [complete |-> complete, failed |-> failed]]

\* manageQueue, when the run is not at the head of the queue.
ManageQueue ==
  /\ rw.pc = "chain" /\ ~MayProceed
  /\ \/ /\ rw.run \in ToSet(rw.queue)
        /\ \/ SetStatus("Queued", FALSE, FALSE)
           \/ LimitPassed("queue") /\ SetStatus("Queued", TRUE, TRUE)
     \/ /\ rw.run \notin ToSet(rw.queue)
        /\ \/ SetStatus("Unqueued", FALSE, FALSE)
           \/ LimitPassed("enqueue") /\ SetStatus("Unqueued", TRUE, TRUE)
  /\ UNCHANGED <<wsVars, runVars, podVars, caches, todo, ww, approved>>

\* managePod, when the cache has no pod: creating one fails if it is there.
CreatePod ==
  /\ rw.pc = "chain" /\ MayProceed
  /\ GetPod(rw.run) = "none"
  /\ IF pods[rw.run] = "none"
     THEN /\ PutPod(rw.run, "Pending")
          /\ SetStatus("PodCreated", FALSE, FALSE)
     ELSE /\ SetStatus(rw.status.complete, FALSE, TRUE)
          /\ UNCHANGED podVars
  /\ UNCHANGED <<wsVars, runVars, caches, todo, ww, approved>>

\* Slip: the phase is stored as it is.
ReasonOfUntranslated(phase) == phase

\* Slip: a pod counts as running once it is there.
ReasonOfEager(phase) ==
  IF phase = "Terminated" THEN "PodTerminated" ELSE "PodRunning"

ReasonOf(phase) == [Pending |-> "PodPending", Running |-> "PodRunning",
                    Terminated |-> "PodTerminated"][phase]

\* managePod, when the cache has the pod: the status follows its phase.
ReportPod ==
  /\ rw.pc = "chain" /\ MayProceed
  /\ LET phase == GetPod(rw.run)
     IN /\ phase # "none"
        /\ \/ SetStatus(ReasonOf(phase), FALSE, FALSE)
           \/ /\ phase = "Pending" /\ LimitPassed("pending")
              /\ SetStatus(ReasonOf(phase), TRUE, FALSE)
  /\ UNCHANGED <<wsVars, runVars, podVars, caches, todo, ww, approved>>

\* Reads the run again and writes the status computed above to it.  A write
\* that conflicts, and an error of the chain, put the request back.
UpdateRunStatus ==
  /\ rw.pc = "status"
  /\ IF HasLatestRun(rw.run)
     THEN PutRun(rw.run, [runs[rw.run] EXCEPT !.status = rw.status])
     ELSE UNCHANGED <<runVars>>
  /\ runTodo' = IF HasLatestRun(rw.run) /\ ~rw.backoff
                THEN runTodo ELSE runTodo \cup {rw.run}
  /\ rw' = Idle
  /\ UNCHANGED <<wsVars, podVars, caches, wsTodo, ww, approved>>

-----------------------------------------------------------------------------
(* Clients.                                                                *)

CreateRun(r) ==
  /\ runs[r].object = "absent"
  /\ PutRun(r, [runs[r] EXCEPT !.object = "present"])
  /\ UNCHANGED <<wsVars, podVars, caches, todo, workers, approved>>

\* The launcher approves the run it has created, on the latest workspace.
ApproveRun(r) ==
  /\ Exists(runs[r]) /\ r \in Privileged \ approved
  /\ PutWorkspace([ws EXCEPT !.approvals = @ \cup {r}])
  /\ approved' = approved \cup {r}
  /\ UNCHANGED <<runVars, podVars, caches, todo, workers>>

DeleteRun(r) ==
  /\ Exists(runs[r]) /\ r \in Deletable
  /\ PutRun(r, [NewRun EXCEPT !.object = "deleted"])
  /\ UNCHANGED <<wsVars, podVars, caches, todo, workers, approved>>

(* Kubernetes: pods run to their end, and a deleted run's pod is collected. *)

SetPod(r, phase) ==
  /\ PutPod(r, phase)
  /\ UNCHANGED <<wsVars, runVars, caches, todo, workers, approved>>

StartPod(r)     == pods[r] = "Pending" /\ SetPod(r, "Running")
TerminatePod(r) == pods[r] = "Running" /\ SetPod(r, "Terminated")
CollectPod(r)   == /\ runs[r].object = "deleted" /\ pods[r] # "none"
                   /\ SetPod(r, "none")

-----------------------------------------------------------------------------

Watch == SyncWorkspace \/ SyncRuns \/ SyncPods

WorkspaceController == ReconcileWorkspace \/ UpdateWorkspaceStatus

RunChain == ManageQueue \/ CreatePod \/ ReportPod

RunController ==
  \/ \E r \in Runs : DropRun(r) \/ FailOnArchive(r) \/ ReconcileRun(r)
  \/ RunChain
  \/ UpdateRunStatus

Client == \E r \in Runs : CreateRun(r) \/ ApproveRun(r) \/ DeleteRun(r)

Kubernetes == \E r \in Runs : StartPod(r) \/ TerminatePod(r) \/ CollectPod(r)

Next == Watch \/ WorkspaceController \/ RunController \/ Client \/ Kubernetes

Spec == Init /\ [][Next]_vars
-----------------------------------------------------------------------------
(* Safety.                                                                 *)

\* The pod of a run whose command is both queueable and privileged is created
\* only after a client has approved the run (updateCombinedQueue lets it into
\* the queue, and manageQueue to a pod, on no other condition), whatever
\* versions of the workspace and of the runs the two controllers act on.
PodsAreApproved ==
  \A r \in Queueable \cap Privileged : pods[r] # "none" => r \in approved

Follows(reason, phase) ==
  /\ reason \in {"PodCreated", "PodPending"} => phase # "none"
  /\ reason = "PodRunning" => phase \in {"Running", "Terminated"}
  /\ reason = "PodTerminated" => phase = "Terminated"

\* The status of a run is never ahead of its pod: a run reported created,
\* pending, running or completed has a pod that got that far, although it is
\* computed from a cached pod and written later.
StatusFollowsPod ==
  \A r \in Runs : Exists(runs[r]) => Follows(runs[r].status.complete, pods[r])

\* A run that has completed or failed is left as it is: its status does not
\* change any more and no pod is created for it, although the controller
\* decides whether it is done from a cache that may not know yet.
DoneIsFinal ==
  [][\A r \in Runs : Exists(runs[r]) /\ IsDone(runs[r].status) =>
       /\ Exists(runs'[r]) => runs'[r].status = runs[r].status
       /\ pods[r] = "none" => pods'[r] = "none"]_vars

\* Whom the cache may list: anybody who is queued, and others.
Names == Runs \cup {"stranger"}

\* The loop of updateCombinedQueue, run on any queue that the workspace comes to
\* have (looked at when both reconcilers rest) and on every order in which the
\* cache can list any set of runs, has exactly the outcomes UpdatedQueues gives for
\* them: nobody is lost or listed twice, who was queued stays ahead of who was
\* behind, and newcomers come last.
LoopRebuildsQueue ==
  ww = Idle /\ rw = Idle =>
    \A eligible \in SUBSET Names :
      UpdatedQueues(ws.queue, eligible) =
        {UpdateCombinedQueue(ws.queue, listed) : listed \in SetToSeqs(eligible)}

Executing == {r \in Queueable : pods[r] \in {"Pending", "Running"}}

\* Only one queueable command at a time runs on the workspace.
MutualExclusion == Cardinality({r \in Queueable : pods[r] = "Running"}) <= 1

\* The controllers implement the queue users are promised, provided that the
\* workspace is read at its latest version, runs are not deleted and no pod is
\* given up while pending; the caches of runs and pods may trail.
Queue == INSTANCE CommandQueue
           WITH Commands <- Queueable, queue <- ws.queue, executing <- Executing
ImplementsQueue == Queue!Spec

-----------------------------------------------------------------------------
(* Liveness.  Watches deliver; each controller takes its requests in order *)
(* and finishes what it takes; pods are scheduled and end.                 *)

Fairness ==
  /\ WF_vars(SyncWorkspace) /\ WF_vars(SyncRuns) /\ WF_vars(SyncPods)
  /\ WF_vars(ReconcileWorkspace) /\ WF_vars(UpdateWorkspaceStatus)
  /\ \A r \in Runs : SF_vars(ReconcileRun(r))
  /\ WF_vars(RunChain) /\ WF_vars(UpdateRunStatus)
  /\ \A r \in Runs : WF_vars(StartPod(r)) /\ WF_vars(TerminatePod(r))

FairSpec == Spec /\ Fairness

\* Every run that is created is completed in the end: no wake-up between the
\* two controllers is lost, however late their caches are and however often
\* their writes conflict.
EveryRunCompletes ==
  \A r \in Runs : Exists(runs[r]) ~> runs[r].status.complete = "PodTerminated"
=============================================================================
