------------------------------ MODULE Provision ------------------------------
(***************************************************************************)
(* One life of a workspace: the reconciler makes what the workspace needs  *)
(* and reports whether it is ready, the cluster binds its volume and runs  *)
(* its pod, whose init container installs terraform, and a client that has *)
(* created the workspace ("workspace new") watches until it is ready, or   *)
(* deletes it again.                                                       *)
(*                                                                         *)
(* The reconciler reads from caches, one for each kind of object, and its  *)
(* status is refused if the cache of the workspace trails.  A limit of the *)
(* client may have passed whenever it is looked at.                        *)
(***************************************************************************)
EXTENDS Naturals, Sequences, FiniteSets

CONSTANTS
  Existing,  \* the objects of the namespace that an earlier workspace has made
  Taken,     \* whether the name may be taken, by a workspace of another user
  Lag,       \* the objects whose creation a cache may be late to show
  Crashes,   \* how often the installer may fail
  Faults     \* what may go wrong, one of it and once

Shared == {"account", "role", "binding"}
Owned  == {"builtins", "pvc", "pod"}
Things == Shared \cup Owned

ASSUME ProvisionAssumption ==
  /\ Existing \subseteq Shared
  /\ Taken \subseteq BOOLEAN
  /\ Lag \subseteq Things /\ {"pvc", "pod"} \subseteq Lag
  /\ Crashes \in Nat
  /\ Faults \subseteq {"api", "state", "lose", "evict", "drain", "delete"}

VARIABLES
  ws,         \* API server: the workspace
  wsCache,    \* informer cache of the workspace
  behind,     \* the cache does not hold the latest version of the workspace
  things,     \* API server: the objects around the workspace
  cache,      \* informer caches of these objects
  kept,       \* the objects that name the workspace as their owner
  todo,       \* work queue: is there a request for the workspace?
  worker,     \* the reconciler
  client,     \* the command that creates the workspace
  crashes,    \* how often the installer has failed
  installed,  \* history: the installer has succeeded
  faults      \* what may still go wrong

vars == <<ws, wsCache, behind, things, cache, kept, todo, worker, client,
          crashes, installed, faults>>

-----------------------------------------------------------------------------

\* The reason of the Ready condition; it is true for the reason "Ready" only.
Reasons == {"none", "Ready", "Pending", "Failure", "Deleting"}
Phases  == {"", "ready", "initializing", "error", "deleting", "unknown"}

Status    == [ready: Reasons, phase: Phases]
Objects   == {"absent", "present", "deleting", "gone"}
Workspace == [object: Objects, finalizer: BOOLEAN, status: Status]

\* The pod's phase is Pending until the installer has succeeded.
PodStates == {"waiting", "installing", "crashed", "installed", "Running", "Failed"}
\* Of the pod, the reconciler looks at the phase only.
PhaseOf(pod) ==
  IF pod \in {"waiting", "installing", "crashed", "installed"} THEN "Pending" ELSE pod

Seen(x) == IF x = "pod" THEN PhaseOf(things[x]) ELSE things[x]

States == [pvc |-> {"Pending", "Bound", "Lost"}, pod |-> PodStates \cup {"Pending"}]

StatesOf(x) == {"none"} \cup IF x \in DOMAIN States THEN States[x] ELSE {"there"}

Steps == <<"builtins", "account", "role", "binding", "state", "pvc", "pod", "status">>

Waits  == {"reconciled", "ready", "container"}
Exits  == {"none", "zero", "error"}
Client == [pc: {"start", "waiting", "stopping", "exit", "cleanup",
                "ok", "error", "refused"},
           open: SUBSET Waits, stream: BOOLEAN, exit: Exits, env: BOOLEAN]

TypeOK ==
  /\ ws \in Workspace /\ wsCache \in Workspace
  /\ behind \in BOOLEAN
  /\ {things, cache} \subseteq [Things -> UNION {StatesOf(x) : x \in Things}]
  /\ \A x \in Things : {things[x], cache[x]} \subseteq StatesOf(x)
  /\ kept \subseteq Owned
  /\ todo \in BOOLEAN
  /\ worker \in [step: 0..Len(Steps), ready: Reasons, failed: BOOLEAN]
  /\ client \in Client
  /\ crashes \in 0..Crashes
  /\ installed \in BOOLEAN
  /\ faults \subseteq Faults

Init ==
  /\ ws \in [object: {IF taken THEN "present" ELSE "absent" : taken \in Taken}, finalizer: {FALSE},
             status: {[ready |-> "none", phase |-> ""]}]
  /\ wsCache = [ws EXCEPT !.object = "absent"] /\ behind = (ws.object # "absent")
  /\ things = [x \in Things |-> IF x \in Existing THEN "there" ELSE "none"]
  /\ cache = things
  /\ kept = {}
  /\ todo = FALSE
  /\ worker = [step |-> 0, ready |-> "none", failed |-> FALSE]
  /\ client = [pc |-> "start", open |-> Waits, stream |-> FALSE,
               exit |-> "none", env |-> FALSE]
  /\ crashes = 0 /\ installed = FALSE
  /\ faults = Faults

Exists(object) == object \in {"present", "deleting"}

Spend(fault) == fault \in faults /\ faults' = {}

\* A write to the workspace: one that changes nothing makes no new version.
Put(new) ==
  /\ ws' = new
  /\ behind' = (behind \/ new # ws)

-----------------------------------------------------------------------------
(* The reconciler.                                                         *)

cluster == <<things, kept, crashes, installed>>

IdleWorker == [step |-> 0, ready |-> "none", failed |-> FALSE]

\* An owned object's event makes a request for its owner.
SyncWorkspace ==
  /\ behind
  /\ behind' = FALSE /\ wsCache' = ws
  /\ todo' = TRUE
  /\ UNCHANGED <<ws, cluster, cache, worker, client, faults>>

\* Slip: pods are not among the objects whose events are watched.
SyncWithoutPods(x) ==
  /\ cache[x] # Seen(x)
  /\ cache' = [cache EXCEPT ![x] = Seen(x)]
  /\ todo' = (todo \/ x \in Owned \ {"pod"})
  /\ UNCHANGED <<ws, wsCache, behind, cluster, worker, client, faults>>

Sync(x) ==
  /\ cache[x] # Seen(x)
  /\ cache' = [cache EXCEPT ![x] = Seen(x)]
  /\ todo' = (todo \/ x \in Owned)
  /\ UNCHANGED <<ws, wsCache, behind, cluster, worker, client, faults>>

At(step) == worker.step > 0 /\ Steps[worker.step] = step

HasWork(step) ==
  CASE step \in {"pvc", "pod", "status"} -> TRUE
    [] step = "state" -> "state" \in faults
    [] OTHER -> cache[step] = "none"

\* The step after one that has anything to do: an object that the cache has
\* is left as it is, but for the two that are looked at.
NextStep(step) ==
  CHOOSE n \in (step + 1)..Len(Steps) :
    /\ HasWork(Steps[n])
    /\ \A m \in (step + 1)..(n - 1) : ~HasWork(Steps[m])

\* On to the next step with the condition as it then is.
Continue(ready) ==
  worker' = [worker EXCEPT !.step = NextStep(worker.step), !.ready = ready]

\* Reads the workspace, gives it its finalizer, and bails out of the chain if
\* it is being deleted.
Reconcile ==
  /\ todo /\ worker.step = 0
  /\ IF ~Exists(wsCache.object)
     THEN todo' = FALSE /\ UNCHANGED <<ws, behind, worker>>
     ELSE IF ~wsCache.finalizer /\ behind
     THEN UNCHANGED <<ws, behind, todo, worker>>
     ELSE /\ todo' = FALSE
          /\ IF wsCache.finalizer THEN UNCHANGED <<ws, behind>>
             ELSE Put([ws EXCEPT !.finalizer = TRUE])
          /\ worker' = IF wsCache.object = "deleting"
                       THEN [step |-> Len(Steps), ready |-> "Deleting", failed |-> FALSE]
                       ELSE [step |-> NextStep(0), ready |-> wsCache.status.ready, failed |-> FALSE]
  /\ UNCHANGED <<wsCache, cluster, cache, client, faults>>

Bail == worker' = [worker EXCEPT !.step = Len(Steps), !.failed = TRUE]

\* Slip: the volume is made without naming the workspace as its owner.
NameOwnerExceptVolume == {"builtins", "pod"}

\* What is made with a controller reference to the workspace.
NameOwner == Owned

New == [x \in Things |-> CASE x = "pvc" -> "Pending" [] x = "pod" -> "waiting"
                           [] OTHER -> "there"]

\* An object that the cache does not have is made, unless it is there after all.
\* Making an owned object sets the condition; the shared ones leave it alone.
Make(x) ==
  /\ At(x) /\ cache[x] = "none"
  /\ IF things[x] # "none"
     THEN Bail /\ UNCHANGED <<cache, things, kept>>
     ELSE /\ things' = [things EXCEPT ![x] = New[x]]
          /\ cache' = IF x \in Lag THEN cache ELSE [cache EXCEPT ![x] = New[x]]
          /\ kept' = kept \cup ({x} \cap NameOwner)
          /\ Continue(IF x \in Owned THEN "Pending" ELSE worker.ready)
  /\ UNCHANGED <<ws, wsCache, behind, todo, client, crashes, installed, faults>>

FailToMake(x) ==
  /\ At(x) /\ cache[x] = "none"
  /\ Spend("api")
  /\ Bail
  /\ UNCHANGED <<ws, wsCache, behind, cluster, cache, todo, client>>

reading == <<ws, wsCache, behind, cluster, cache, todo, client>>

\* The cache has got it since the step was reached.
FindThing(x) ==
  /\ x \notin {"pvc", "pod"}
  /\ At(x) /\ cache[x] # "none"
  /\ Continue(worker.ready)
  /\ UNCHANGED <<reading, faults>>

\* manageState touches neither the condition nor the objects here.
ManageState ==
  /\ At("state")
  /\ \/ Continue(worker.ready) /\ UNCHANGED faults
     \/ Bail /\ Spend("state")
  /\ UNCHANGED reading

\* Volumes may be bound only once a pod needs them: pending is no reason to stop.
ManagePVC ==
  /\ At("pvc")
  /\ CASE cache["pvc"] = "Bound"   -> Continue(worker.ready)
       [] cache["pvc"] = "Pending" -> Continue("Pending")
       [] cache["pvc"] = "Lost"    -> Bail
       [] OTHER                    -> FALSE
  /\ UNCHANGED <<reading, faults>>

\* Slip: a pod that has a node counts as one that runs.
ReadyOnceScheduled(pod) == IF pod = "Failed" THEN "Failure" ELSE "Ready"

\* The phase of the pod decides.
ReadyOf(pod) ==
  CASE pod = "Running" -> "Ready"
    [] pod = "Failed"  -> "Failure"
    [] OTHER           -> "Pending"

ManagePod ==
  /\ At("pod") /\ cache["pod"] # "none"
  /\ Continue(ReadyOf(cache["pod"]))
  /\ UNCHANGED <<reading, faults>>

SetPhase(ready) ==
  [none |-> "unknown", Ready |-> "ready", Pending |-> "initializing",
   Failure |-> "error", Deleting |-> "deleting"][ready]

\* The status is written, whatever became of the chain; an error of either is
\* a reason to try again.
UpdateStatus ==
  /\ At("status")
  /\ LET accepted == ~behind /\ Exists(ws.object)
         status   == [ready |-> worker.ready, phase |-> SetPhase(worker.ready)]
     IN /\ IF accepted THEN Put([ws EXCEPT !.status = status])
           ELSE UNCHANGED <<ws, behind>>
        /\ todo' = (todo \/ worker.failed \/ ~accepted)
  /\ worker' = IdleWorker
  /\ UNCHANGED <<wsCache, cluster, cache, client, faults>>

Reconciler ==
  \/ Reconcile \/ ManageState \/ ManagePVC \/ ManagePod \/ UpdateStatus
  \/ \E x \in Things : Make(x) \/ FailToMake(x) \/ FindThing(x)

-----------------------------------------------------------------------------
(* The cluster.                                                            *)

outside == <<wsCache, cache, todo, worker, client>>

SetThing(x, state) == things' = [things EXCEPT ![x] = state]

\* A volume may be bound at once, or not before a pod needs it.
BindVolume ==
  /\ things["pvc"] = "Pending"
  /\ SetThing("pvc", "Bound")
  /\ UNCHANGED <<ws, behind, outside, kept, crashes, installed, faults>>

MovePod(from, to) ==
  /\ things["pod"] \in from
  /\ SetThing("pod", to)
  /\ UNCHANGED <<ws, behind, outside, kept>>

\* The installer starts, and starts again after it has failed.
StartInstaller ==
  /\ things["pvc"] = "Bound"
  /\ MovePod({"waiting", "crashed"}, "installing")
  /\ UNCHANGED <<crashes, installed, faults>>

FinishInstaller ==
  /\ MovePod({"installing"}, "installed")
  /\ installed' = TRUE
  /\ UNCHANGED <<crashes, faults>>

CrashInstaller ==
  /\ crashes < Crashes
  /\ MovePod({"installing"}, "crashed")
  /\ crashes' = crashes + 1
  /\ UNCHANGED <<installed, faults>>

StartIdler ==
  /\ MovePod({"installed"}, "Running")
  /\ UNCHANGED <<crashes, installed, faults>>

\* A pod is evicted: it stays, and has failed.  A node is drained: the pod goes.
LosePod ==
  /\ \/ Spend("evict") /\ MovePod(PodStates \ {"Failed"}, "Failed")
     \/ Spend("drain") /\ MovePod(PodStates, "none")
  /\ UNCHANGED <<crashes, installed>>

LoseVolume ==
  /\ things["pvc"] = "Bound"
  /\ Spend("lose")
  /\ SetThing("pvc", "Lost")
  /\ UNCHANGED <<ws, behind, outside, kept, crashes, installed>>

\* Deletion is left to the garbage collector if there is a finalizer.
MarkDeleted ==
  Put([ws EXCEPT !.object = IF ws.finalizer THEN "deleting" ELSE "gone"])

DeleteByOther ==
  /\ ws.object = "present"
  /\ Spend("delete")
  /\ MarkDeleted
  /\ UNCHANGED <<outside, cluster>>

\* What names the workspace as its owner goes with it, and before it.
CollectOwned ==
  /\ ws.object \in {"deleting", "gone"}
  /\ \E x \in kept : things[x] # "none"
  /\ things' = [x \in Things |-> IF x \in kept THEN "none" ELSE things[x]]
  /\ kept' = {}
  /\ UNCHANGED <<ws, behind, outside, crashes, installed, faults>>

CollectWorkspace ==
  /\ ws.object = "deleting"
  /\ \A x \in kept : things[x] = "none"
  /\ Put([ws EXCEPT !.object = "gone"])
  /\ UNCHANGED <<outside, cluster, faults>>

Kubernetes ==
  \/ SyncWorkspace \/ BindVolume \/ StartInstaller \/ FinishInstaller
  \/ CrashInstaller \/ StartIdler \/ LosePod \/ LoseVolume
  \/ DeleteByOther \/ CollectOwned \/ CollectWorkspace
  \/ \E x \in Things : Sync(x)

-----------------------------------------------------------------------------
(* The client.  It watches the API server.  Its waits run in a group: the  *)
(* first that fails cancels the others.                                    *)

operator == <<wsCache, cluster, cache, todo, worker, faults>>

SetClient(new) == client' = new /\ UNCHANGED <<ws, behind, operator>>

\* A name that is taken is an error with nothing to clean up.
CreateWorkspace ==
  /\ client.pc = "start"
  /\ IF ws.object = "absent"
     THEN /\ Put([ws EXCEPT !.object = "present"])
          /\ client' = [client EXCEPT !.pc = "waiting"]
     ELSE /\ client' = [client EXCEPT !.pc = "refused"]
          /\ UNCHANGED <<ws, behind>>
  /\ UNCHANGED operator

Waiting(w) == client.pc = "waiting" /\ w \in client.open

Succeed(w) == SetClient([client EXCEPT !.open = @ \ {w}])

\* The others are cancelled, but for the stream of the log.
Fail ==
  SetClient([client EXCEPT !.pc = IF client.stream THEN "stopping" ELSE "cleanup",
                           !.open = {}, !.exit = "none"])

WaitForReconcile ==
  /\ Waiting("reconciled")
  /\ Exists(ws.object) /\ ws.status.ready # "none"
  /\ Succeed("reconciled")

\* Slip: a workspace that has been reconciled is taken for one that is ready.
WaitForReadyUnread ==
  /\ Waiting("ready") /\ ~Waiting("reconciled")
  /\ Exists(ws.object) /\ ws.status.ready # "none"
  /\ Succeed("ready")

\* Both waits watch the workspace: what is ready has been seen to be reconciled.
WaitForReady ==
  /\ Waiting("ready") /\ ~Waiting("reconciled")
  /\ Exists(ws.object)
  /\ \/ ws.status.ready = "Ready" /\ Succeed("ready")
     \/ ws.status.ready \in {"Failure", "Deleting"} /\ Fail

\* InitContainerStreamable: the log is followed from then on.
WaitForContainer ==
  /\ Waiting("container") /\ ~client.stream
  /\ things["pod"] \in PodStates \ {"waiting"}
  /\ SetClient([client EXCEPT !.stream = TRUE])

\* A limit passes, what is watched is deleted, or Ctrl-C cancels everything.
GiveUp == client.pc = "waiting" /\ client.open # {} /\ Fail

\* The log ends with the attempt it is of, or it breaks off.
EndStream ==
  /\ client.stream
  /\ \/ client.pc = "waiting" /\ things["pod"] # "installing"
        /\ SetClient([client EXCEPT !.stream = FALSE, !.open = @ \ {"container"}])
     \/ SetClient([client EXCEPT !.stream = FALSE, !.pc = "cleanup",
                                 !.open = {}, !.exit = "none"])

\* What a monitor may take for the end of the installer.
ExitsOf(pod) ==
  CASE pod \in {"installed", "Running"} -> {"zero"}
    [] pod = "crashed" -> {"error"}
    [] pod = "Failed"  -> {"error"} \cup IF installed THEN {"zero"} ELSE {}
    [] pod = "none"    -> IF client.open = Waits THEN {} ELSE {"error"}
    [] OTHER           -> {}

\* The monitor takes the first end of the installer that it sees.
MonitorExit ==
  /\ client.pc \in {"waiting", "exit"} /\ client.exit = "none"
  /\ \E exit \in ExitsOf(things["pod"]) :
       SetClient([client EXCEPT !.exit = exit])

\* All waits are over: the workspace becomes the current one, if the file that
\* says so can be written.
FinishWaits ==
  /\ client.pc = "waiting" /\ client.open = {}
  /\ \/ SetClient([client EXCEPT !.pc = "exit", !.env = TRUE])
     \/ SetClient([client EXCEPT !.pc = "cleanup", !.exit = "none"])

\* Slip: once it has become ready, the workspace is not cleaned up after.
AwaitExitForGood ==
  /\ client.pc = "exit"
  /\ SetClient([client EXCEPT !.pc = IF client.exit = "zero" THEN "ok" ELSE "error"])

\* Whatever the monitor has come to, within ten seconds.
AwaitExit ==
  /\ client.pc = "exit"
  /\ SetClient([client EXCEPT !.pc = IF client.exit = "zero" THEN "ok" ELSE "cleanup",
                              !.exit = "none"])

Cleanup ==
  /\ client.pc = "cleanup"
  /\ client' = [client EXCEPT !.pc = "error"]
  /\ IF ws.object = "present" THEN MarkDeleted ELSE UNCHANGED <<ws, behind>>
  /\ UNCHANGED operator

Command ==
  \/ CreateWorkspace \/ WaitForReconcile \/ WaitForReady \/ WaitForContainer
  \/ GiveUp \/ EndStream \/ MonitorExit \/ FinishWaits \/ AwaitExit \/ Cleanup

Next == Reconciler \/ Kubernetes \/ Command

Spec == Init /\ [][Next]_vars

\* The controller retries for ever, caches follow, a volume that a pod needs is
\* bound, an installer that goes on being started succeeds in the end, and the
\* garbage collector does its work.  Nothing is assumed of the client.
Fairness ==
  /\ WF_vars(Reconciler) /\ WF_vars(SyncWorkspace)
  /\ \A x \in Things : WF_vars(Sync(x))
  /\ WF_vars(things["pod"] # "none" /\ BindVolume)
  /\ WF_vars(StartInstaller) /\ WF_vars(FinishInstaller) /\ WF_vars(StartIdler)
  /\ WF_vars(CollectOwned) /\ WF_vars(CollectWorkspace)

FairSpec == Spec /\ Fairness

-----------------------------------------------------------------------------
(* Properties.                                                             *)

\* A workspace that reports to be ready has all that its runs need: terraform
\* has been installed, and neither a lagging cache, nor a create that failed in
\* the middle of the chain, nor a pod lost on the way has left one of the
\* objects out (the chain of WorkspaceReconciler).  The pod itself may be gone.
ReadyWorkspaceIsComplete ==
  ws.object = "present" /\ ws.status.ready = "Ready" =>
    /\ installed
    /\ \A x \in Things \ {"pod"} : things[x] # "none"

\* workspace new leaves no workspace behind that it has created and then failed
\* on, wherever it failed (newOptions.cleanup).
NothingIsLeftBehind ==
  client.pc = "error" => ws.object \in {"deleting", "gone"}

\* workspace new succeeds only if terraform was installed, and then, unless
\* something has gone wrong or another user has interfered since, the workspace
\* is there and ready, and was made the current one (newOptions.run).
SuccessIsTold ==
  client.pc = "ok" =>
    /\ installed /\ client.env
    /\ faults = Faults => ws.object = "present" /\ ws.status.ready = "Ready"

\* In the end the workspace is reported to be what its pod is, unless its volume
\* is lost: no event that matters goes by without a request, and every error of
\* the chain is retried.
ReportSettles ==
  <>[](ws.object = "present" =>
         \/ things["pvc"] = "Lost"
         \/ things["pod"] = "Running" /\ ws.status.ready = "Ready"
         \/ things["pod"] = "Failed" /\ ws.status.ready = "Failure")

\* Once a workspace is deleted, all that was made for it goes as well, and then
\* the workspace; also what a reconcile makes that had begun before.
NothingOutlivesTheWorkspace ==
  ws.object = "deleting"
    ~> ws.object = "gone" /\ \A x \in Owned : things[x] = "none"

=============================================================================
