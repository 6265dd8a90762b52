--------------------------- MODULE Provision_proofs ---------------------------
(***************************************************************************)
(* A workspace that reports to be ready is complete, and workspace new     *)
(* leaves none behind that it failed on and tells a success that there is, *)
(* for any objects found in the namespace, any caches that trail and any   *)
(* faults.                                                                 *)
(*                                                                         *)
(* Readiness is decided by a cache and written later: the argument is that *)
(* completeness, once reached, is lost with the workspace only, so that it *)
(* carries over from a cache to the chain, to the condition it works on,   *)
(* to the status, and back to the next reconcile by way of the cache.      *)
(***************************************************************************)
EXTENDS Provision, TLAPS

-----------------------------------------------------------------------------
(* Types.                                                                  *)

\* What the states of each object are.
LEMMA StatesAre ==
  /\ StatesOf("pvc") = {"none", "Pending", "Bound", "Lost"}
  /\ StatesOf("pod") = {"none", "Pending"} \cup PodStates
  /\ \A x \in Things \ {"pvc", "pod"} : StatesOf(x) = {"none", "there"}
BY DEF StatesOf, States, Things, Shared, Owned

\* A new object is of one of its states.
LEMMA NewType == \A x \in Things : New[x] \in StatesOf(x) /\ New[x] # "none"
<1>1. /\ New["pvc"] = "Pending" /\ New["pod"] = "waiting"
      /\ \A x \in Things \ {"pvc", "pod"} : New[x] = "there"
  BY DEF New, Things, Shared, Owned
<1> QED
  BY <1>1, StatesAre DEF PodStates

\* What a cache shows of an object is one of its states.
LEMMA SeenType ==
  ASSUME TypeOK, NEW x \in Things
  PROVE  Seen(x) \in StatesOf(x)
<1>1. things[x] \in StatesOf(x)
  BY DEF TypeOK
<1>2. CASE x = "pod"
  BY <1>1, <1>2, StatesAre DEF Seen, PhaseOf, PodStates
<1>3. CASE x # "pod"
  BY <1>1, <1>3 DEF Seen
<1> QED
  BY <1>2, <1>3

\* An object that takes on one of its states keeps the types.
LEMMA SetType ==
  ASSUME NEW f, NEW x \in Things, NEW s \in StatesOf(x),
         f \in [Things -> UNION {StatesOf(y) : y \in Things}],
         \A y \in Things : f[y] \in StatesOf(y)
  PROVE  LET g == [f EXCEPT ![x] = s]
         IN /\ g \in [Things -> UNION {StatesOf(y) : y \in Things}]
            /\ \A y \in Things : g[y] \in StatesOf(y)
OBVIOUS

\* There is a next step behind each but the last, and what is passed over has
\* nothing to do.
LEMMA NextStepIs ==
  ASSUME NEW step \in 0..7
  PROVE  /\ NextStep(step) \in (step + 1)..8
         /\ \A m \in (step + 1)..(NextStep(step) - 1) : ~HasWork(Steps[m])
<1> DEFINE Work(n)  == HasWork(Steps[n])
           Found(k) == \E n \in (step + 1)..k :
                         Work(n) /\ \A m \in (step + 1)..(n - 1) : ~Work(m)
           Idle(k)  == \A n \in (step + 1)..k : ~Work(n)
<1>1. Len(Steps) = 8 /\ Work(8)
  BY DEF Steps, HasWork
<1> HIDE DEF Work
<1>2. Found(0) \/ Idle(0)
  OBVIOUS
<1>3. ASSUME NEW k \in 0..7, Found(k) \/ Idle(k)
      PROVE  Found(k + 1) \/ Idle(k + 1)
  <2>1. CASE Found(k)
    BY <2>1
  <2>2. CASE Idle(k) /\ ~Work(k + 1)
    BY <2>2
  <2>3. CASE Idle(k) /\ Work(k + 1) /\ step + 1 <= k + 1
    BY <2>3
  <2>4. CASE step + 1 > k + 1
    BY <2>4
  <2> QED
    BY <1>3, <2>1, <2>2, <2>3, <2>4
<1> HIDE DEF Found, Idle
<1>4. Found(8) \/ Idle(8)
  <2>1. Found(1) \/ Idle(1)
    BY <1>2, <1>3
  <2>2. Found(2) \/ Idle(2)
    BY <2>1, <1>3
  <2>3. Found(3) \/ Idle(3)
    BY <2>2, <1>3
  <2>4. Found(4) \/ Idle(4)
    BY <2>3, <1>3
  <2>5. Found(5) \/ Idle(5)
    BY <2>4, <1>3
  <2>6. Found(6) \/ Idle(6)
    BY <2>5, <1>3
  <2>7. Found(7) \/ Idle(7)
    BY <2>6, <1>3
  <2> QED
    BY <2>7, <1>3
<1>5. ~Idle(8)
  BY <1>1 DEF Idle
<1>6. \E n \in (step + 1)..Len(Steps) :
        HasWork(Steps[n]) /\ \A m \in (step + 1)..(n - 1) : ~HasWork(Steps[m])
  BY <1>1, <1>4, <1>5 DEF Found, Work
<1> QED
  BY <1>1, <1>6 DEF NextStep

\* Where the steps of the reconciler are in its chain.
LEMMA StepsAre ==
  /\ Len(Steps) = 8
  /\ Steps[1] = "builtins" /\ Steps[2] = "account" /\ Steps[3] = "role"
  /\ Steps[4] = "binding"  /\ Steps[5] = "state"   /\ Steps[6] = "pvc"
  /\ Steps[7] = "pod"      /\ Steps[8] = "status"
  /\ \A n \in 1..8 : Steps[n] = "status" => n = 8
BY DEF Steps

\* What goes on at a step before the last, goes on to a later one.
LEMMA ContinueType ==
  ASSUME TypeOK, NEW step \in Things \cup {"state"}, At(step),
         NEW ready \in Reasons, Continue(ready)
  PROVE  /\ worker.step \in 1..7
         /\ worker' \in [step : 0..8, ready : Reasons, failed : BOOLEAN]
         /\ worker'.step = NextStep(worker.step) /\ worker'.ready = ready
         /\ worker'.failed = worker.failed
<1>1. worker \in [step : 0..8, ready : Reasons, failed : BOOLEAN]
  BY StepsAre DEF TypeOK
<1>2. worker.step \in 1..7
  BY <1>1, StepsAre DEF At, Things, Shared, Owned
<1>3. NextStep(worker.step) \in 0..8
  BY <1>2, NextStepIs
<1> HIDE DEF NextStep
<1> QED
  BY <1>1, <1>2, <1>3 DEF Continue

\* What bails out goes on to the status.
LEMMA BailType ==
  ASSUME TypeOK, Bail
  PROVE  /\ worker' \in [step : 0..8, ready : Reasons, failed : BOOLEAN]
         /\ worker'.step = 8 /\ worker'.ready = worker.ready
<1>1. worker \in [step : 0..8, ready : Reasons, failed : BOOLEAN]
  BY StepsAre DEF TypeOK
<1>2. worker' = [worker EXCEPT !.step = 8, !.failed = TRUE]
  BY StepsAre DEF Bail
<1>3. PICK n \in 0..8, ready \in Reasons, f \in BOOLEAN :
        worker = [step |-> n, ready |-> ready, failed |-> f]
  BY <1>1
<1>4. worker' = [step |-> 8, ready |-> ready, failed |-> TRUE]
  BY <1>2, <1>3
<1> QED
  BY <1>3, <1>4

\* A write keeps the type of the workspace, if it writes one.
LEMMA PutType ==
  ASSUME NEW new \in Workspace, Put(new), behind \in BOOLEAN
  PROVE  ws' \in Workspace /\ behind' \in BOOLEAN
BY DEF Put

\* The deletion of a workspace is one that can be written.
LEMMA MarkType ==
  ASSUME ws \in Workspace, behind \in BOOLEAN, MarkDeleted
  PROVE  ws' \in Workspace /\ behind' \in BOOLEAN
<1>1. [ws EXCEPT !.object = IF ws.finalizer THEN "deleting" ELSE "gone"] \in Workspace
  BY DEF Workspace, Objects
<1> QED
  BY <1>1, PutType DEF MarkDeleted

\* The initial state is well-typed.
LEMMA TypeInit == Init => TypeOK
<1> SUFFICES ASSUME Init PROVE TypeOK
  OBVIOUS
<1>1. ws \in Workspace /\ wsCache \in Workspace
  <2>1. [ready |-> "none", phase |-> ""] \in Status
    BY DEF Status, Reasons, Phases
  <2>2. ws \in [object : {"present", "absent"}, finalizer : BOOLEAN,
                status : {[ready |-> "none", phase |-> ""]}]
    BY DEF Init
  <2>3. ws \in Workspace
    BY <2>1, <2>2 DEF Workspace, Objects
  <2>4. wsCache = [ws EXCEPT !.object = "absent"]
    BY DEF Init
  <2> QED
    BY <2>3, <2>4 DEF Workspace, Objects
<1>2. \A x \in Things : things[x] \in StatesOf(x)
  <2>1. \A x \in Things : things[x] = IF x \in Existing THEN "there" ELSE "none"
    BY DEF Init
  <2>2. \A x \in Existing : "there" \in StatesOf(x)
    BY StatesAre, ProvisionAssumption DEF Things, Shared, Owned
  <2>3. \A x \in Things : "none" \in StatesOf(x)
    BY DEF StatesOf
  <2> QED
    BY <2>1, <2>2, <2>3
<1>3. things \in [Things -> UNION {StatesOf(x) : x \in Things}]
  BY <1>2 DEF Init
<1>4. client \in Client
  BY DEF Init, Client, Exits
<1>5. worker \in [step : 0..Len(Steps), ready : Reasons, failed : BOOLEAN]
  <2>1. 0 \in 0..8 /\ "none" \in Reasons
    BY DEF Reasons
  <2>2. worker = [step |-> 0, ready |-> "none", failed |-> FALSE]
    BY DEF Init
  <2> QED
    BY <2>1, <2>2, StepsAre
<1>6. crashes \in 0..Crashes /\ faults \subseteq Faults /\ kept \subseteq Owned
  <2>1. crashes = 0 /\ faults = Faults /\ kept = {}
    BY DEF Init
  <2> QED
    BY <2>1, ProvisionAssumption
<1> QED
  BY <1>1, <1>2, <1>3, <1>4, <1>5, <1>6 DEF Init, TypeOK

\* A step of the reconciler that only reads and goes on keeps the types.
LEMMA ReadingType ==
  ASSUME TypeOK, UNCHANGED reading, faults' \subseteq faults,
         worker' \in [step : 0..8, ready : Reasons, failed : BOOLEAN]
  PROVE  TypeOK'
BY StepsAre DEF TypeOK, reading, cluster

\* The reconciler keeps the types.
LEMMA ReconcilerType ==
  ASSUME TypeOK, Reconciler
  PROVE  TypeOK'
<1>0. worker \in [step : 0..8, ready : Reasons, failed : BOOLEAN]
  BY StepsAre DEF TypeOK
<1>1. CASE Reconcile
  <2>1. ws' \in Workspace /\ behind' \in BOOLEAN
    <3>1. [ws EXCEPT !.finalizer = TRUE] \in Workspace
      BY DEF TypeOK, Workspace
    <3> QED
      BY <1>1, <3>1, PutType DEF Reconcile, TypeOK
  <2>2. NextStep(0) \in 0..8 /\ wsCache.status.ready \in Reasons
    BY NextStepIs DEF TypeOK, Workspace, Status
  <2>3. worker' \in [step : 0..8, ready : Reasons, failed : BOOLEAN]
    <3>1. \/ UNCHANGED worker
          \/ worker' = [step |-> Len(Steps), ready |-> "Deleting", failed |-> FALSE]
          \/ worker' = [step |-> NextStep(0), ready |-> wsCache.status.ready, failed |-> FALSE]
      BY <1>1 DEF Reconcile
    <3>2. "Deleting" \in Reasons /\ 8 \in 0..8
      BY DEF Reasons
    <3> HIDE DEF NextStep
    <3>3. CASE UNCHANGED worker
      BY <1>0, <3>3
    <3>4. CASE worker' = [step |-> Len(Steps), ready |-> "Deleting", failed |-> FALSE]
      BY <3>2, <3>4, StepsAre
    <3>5. CASE worker' = [step |-> NextStep(0), ready |-> wsCache.status.ready, failed |-> FALSE]
      BY <2>2, <3>5
    <3> QED
      BY <3>1, <3>3, <3>4, <3>5
  <2>4. todo' \in BOOLEAN
    BY <1>1 DEF Reconcile, TypeOK
  <2> QED
    BY <1>1, <2>1, <2>3, <2>4, StepsAre DEF Reconcile, TypeOK, cluster
<1>2. CASE ManageState
  <2>1. At("state") /\ worker.ready \in Reasons /\ UNCHANGED reading
    BY <1>0, <1>2 DEF ManageState
  <2>2. CASE Continue(worker.ready) /\ UNCHANGED faults
    BY <2>1, <2>2, ContinueType, ReadingType
  <2>3. CASE Bail /\ Spend("state")
    BY <2>1, <2>3, BailType, ReadingType DEF Spend
  <2> QED
    BY <1>2, <2>2, <2>3 DEF ManageState
<1>3. CASE ManagePVC
  <2>1. At("pvc") /\ "pvc" \in Things /\ worker.ready \in Reasons /\ "Pending" \in Reasons
        /\ UNCHANGED <<reading, faults>>
    BY <1>0, <1>3 DEF ManagePVC, Things, Owned, Reasons
  <2>2. Continue(worker.ready) \/ Continue("Pending") \/ Bail
    BY <1>3 DEF ManagePVC
  <2> QED
    BY <2>1, <2>2, ContinueType, BailType, ReadingType
<1>4. CASE ManagePod
  <2>1. ReadyOf(cache["pod"]) \in Reasons /\ "pod" \in Things
    BY DEF ReadyOf, Reasons, Things, Owned
  <2> QED
    BY <1>4, <2>1, ContinueType, ReadingType DEF ManagePod
<1>5. CASE UpdateStatus
  <2> DEFINE status == [ready |-> worker.ready, phase |-> SetPhase(worker.ready)]
  <2>1. status \in Status
    <3>1. worker.ready \in Reasons
      BY <1>0
    <3>2. SetPhase(worker.ready) \in Phases
      <4>1. /\ SetPhase("none") \in Phases /\ SetPhase("Ready") \in Phases
            /\ SetPhase("Pending") \in Phases /\ SetPhase("Failure") \in Phases
            /\ SetPhase("Deleting") \in Phases
        BY DEF SetPhase, Phases
      <4> QED
        BY <3>1, <4>1 DEF Reasons
    <3> QED
      BY <3>1, <3>2 DEF Status
  <2> HIDE DEF status
  <2>2. [ws EXCEPT !.status = status] \in Workspace
    BY <2>1 DEF TypeOK, Workspace
  <2>3. ws' \in Workspace /\ behind' \in BOOLEAN
    BY <1>5, <2>2, PutType DEF UpdateStatus, TypeOK, status
  <2>4. worker' \in [step : 0..8, ready : Reasons, failed : BOOLEAN]
    BY <1>5 DEF UpdateStatus, IdleWorker, Reasons
  <2>5. todo' \in BOOLEAN
    BY <1>0, <1>5 DEF UpdateStatus, TypeOK
  <2> QED
    BY <1>5, <2>3, <2>4, <2>5, StepsAre DEF UpdateStatus, TypeOK, cluster
<1>6. ASSUME NEW x \in Things, Make(x) PROVE TypeOK'
  <2>1. CASE things[x] # "none"
    <3>1. Bail /\ UNCHANGED reading /\ UNCHANGED faults
      BY <1>6, <2>1 DEF Make, reading, cluster
    <3> QED
      BY <3>1, BailType, ReadingType
  <2>2. CASE things[x] = "none"
    <3>1. (IF x \in Owned THEN "Pending" ELSE worker.ready) \in Reasons
      BY <1>0 DEF Reasons
    <3>2. worker' \in [step : 0..8, ready : Reasons, failed : BOOLEAN]
      BY <1>6, <2>2, <3>1, ContinueType DEF Make
    <3>3. /\ things' = [things EXCEPT ![x] = New[x]]
          /\ cache' = cache \/ cache' = [cache EXCEPT ![x] = New[x]]
          /\ kept' \subseteq Owned
      BY <1>6, <2>2 DEF Make, NameOwner, TypeOK
    <3>4. New[x] \in StatesOf(x)
      BY NewType
    <3>5. /\ things' \in [Things -> UNION {StatesOf(y) : y \in Things}]
          /\ \A y \in Things : things'[y] \in StatesOf(y)
      BY <3>3, <3>4, SetType DEF TypeOK
    <3>6. /\ cache' \in [Things -> UNION {StatesOf(y) : y \in Things}]
          /\ \A y \in Things : cache'[y] \in StatesOf(y)
      <4>1. CASE cache' = cache
        BY <4>1 DEF TypeOK
      <4>2. CASE cache' = [cache EXCEPT ![x] = New[x]]
        BY <3>4, <4>2, SetType DEF TypeOK
      <4> QED
        BY <3>3, <4>1, <4>2
    <3>7. UNCHANGED <<ws, wsCache, behind, todo, client, crashes, installed, faults>>
      BY <1>6 DEF Make
    <3>8. worker' \in [step : 0..Len(Steps), ready : Reasons, failed : BOOLEAN]
      BY <3>2, StepsAre
    <3>9. /\ ws' \in Workspace /\ wsCache' \in Workspace /\ behind' \in BOOLEAN
          /\ todo' \in BOOLEAN /\ client' \in Client /\ crashes' \in 0..Crashes
          /\ installed' \in BOOLEAN /\ faults' \subseteq Faults
      BY <3>7 DEF TypeOK
    <3> QED
      BY <3>3, <3>5, <3>6, <3>8, <3>9 DEF TypeOK
  <2> QED
    BY <2>1, <2>2
<1>7. ASSUME NEW x \in Things, FailToMake(x) PROVE TypeOK'
  BY <1>7, BailType, ReadingType DEF FailToMake, Spend, reading
<1>8. ASSUME NEW x \in Things, FindThing(x) PROVE TypeOK'
  BY <1>0, <1>8, ContinueType, ReadingType DEF FindThing
<1> QED
  BY <1>1, <1>2, <1>3, <1>4, <1>5, <1>6, <1>7, <1>8 DEF Reconciler

\* A pod that moves on is of the type of pods.
LEMMA MovePodType ==
  ASSUME TypeOK, NEW from, NEW to \in PodStates \cup {"none"}, MovePod(from, to),
         crashes' \in 0..Crashes, installed' \in BOOLEAN, faults' \subseteq faults
  PROVE  TypeOK'
<1>1. "pod" \in Things /\ to \in StatesOf("pod")
  BY StatesAre DEF Things, Owned
<1>2. things' = [things EXCEPT !["pod"] = to]
  BY DEF MovePod, SetThing
<1>3. /\ things' \in [Things -> UNION {StatesOf(y) : y \in Things}]
      /\ \A y \in Things : things'[y] \in StatesOf(y)
  BY <1>1, <1>2, SetType DEF TypeOK
<1> QED
  BY <1>3 DEF MovePod, TypeOK, outside

\* The cluster keeps the types.
LEMMA KubernetesType ==
  ASSUME TypeOK, Kubernetes
  PROVE  TypeOK'
<1>1. CASE SyncWorkspace
  BY <1>1 DEF SyncWorkspace, TypeOK, cluster
<1>2. ASSUME NEW x \in Things, Sync(x) PROVE TypeOK'
  <2>1. cache' = [cache EXCEPT ![x] = Seen(x)]
    BY <1>2 DEF Sync
  <2>2. /\ cache' \in [Things -> UNION {StatesOf(y) : y \in Things}]
        /\ \A y \in Things : cache'[y] \in StatesOf(y)
    BY <2>1, SeenType, SetType DEF TypeOK
  <2>3. todo' \in BOOLEAN
    BY <1>2 DEF Sync, TypeOK
  <2> QED
    BY <1>2, <2>2, <2>3 DEF Sync, TypeOK, cluster
<1>3. CASE BindVolume \/ LoseVolume
  <2>1. PICK s \in {"Bound", "Lost"} : things' = [things EXCEPT !["pvc"] = s]
    BY <1>3 DEF BindVolume, LoseVolume, SetThing
  <2>2. "pvc" \in Things /\ s \in StatesOf("pvc")
    BY StatesAre DEF Things, Owned
  <2>3. /\ things' \in [Things -> UNION {StatesOf(y) : y \in Things}]
        /\ \A y \in Things : things'[y] \in StatesOf(y)
    BY <2>1, <2>2, SetType DEF TypeOK
  <2>4. faults' \subseteq faults
    BY <1>3 DEF BindVolume, LoseVolume, Spend
  <2> QED
    BY <1>3, <2>3, <2>4 DEF BindVolume, LoseVolume, TypeOK, outside
<1>4. CASE StartInstaller \/ FinishInstaller \/ StartIdler
  BY <1>4, MovePodType
     DEF StartInstaller, FinishInstaller, StartIdler, PodStates, TypeOK
<1>5. CASE CrashInstaller
  <2>1. crashes' \in 0..Crashes
    BY <1>5, ProvisionAssumption DEF CrashInstaller, TypeOK
  <2> QED
    BY <1>5, <2>1, MovePodType DEF CrashInstaller, PodStates, TypeOK
<1>6. CASE LosePod
  BY <1>6, MovePodType DEF LosePod, Spend, PodStates, TypeOK
<1>7. CASE DeleteByOther
  BY <1>7, MarkType DEF DeleteByOther, Spend, TypeOK, outside, cluster
<1>8. CASE CollectOwned
  <2>1. \A x \in Things : things'[x] \in StatesOf(x)
    BY <1>8 DEF CollectOwned, TypeOK, StatesOf
  <2>2. things' \in [Things -> UNION {StatesOf(x) : x \in Things}]
    BY <1>8, <2>1 DEF CollectOwned
  <2> QED
    BY <1>8, <2>1, <2>2 DEF CollectOwned, TypeOK, outside
<1>9. CASE CollectWorkspace
  <2>1. [ws EXCEPT !.object = "gone"] \in Workspace
    BY DEF TypeOK, Workspace, Objects
  <2> QED
    BY <1>9, <2>1, PutType DEF CollectWorkspace, TypeOK, outside, cluster
<1> QED
  BY <1>1, <1>2, <1>3, <1>4, <1>5, <1>6, <1>7, <1>8, <1>9 DEF Kubernetes

\* A client that has got on keeps the types, if it is of the type of clients.
LEMMA SetClientType ==
  ASSUME TypeOK, NEW new \in Client, SetClient(new)
  PROVE  TypeOK'
BY DEF TypeOK, SetClient, operator, cluster

\* What fails leaves a client of the type of clients.
LEMMA FailType ==
  ASSUME TypeOK, Fail
  PROVE  TypeOK'
<1>1. [client EXCEPT !.pc = IF client.stream THEN "stopping" ELSE "cleanup",
                     !.open = {}, !.exit = "none"] \in Client
  BY DEF TypeOK, Client, Exits
<1> QED
  BY <1>1, SetClientType DEF Fail

\* A wait that is over leaves a client of the type of clients.
LEMMA SucceedType ==
  ASSUME TypeOK, NEW w, Succeed(w)
  PROVE  TypeOK'
<1>1. [client EXCEPT !.open = @ \ {w}] \in Client
  BY DEF TypeOK, Client
<1> QED
  BY <1>1, SetClientType DEF Succeed

\* The client keeps the types.
LEMMA CommandType ==
  ASSUME TypeOK, Command
  PROVE  TypeOK'
<1>1. CASE CreateWorkspace
  <2>1. [ws EXCEPT !.object = "present"] \in Workspace
    BY DEF TypeOK, Workspace, Objects
  <2>2. [client EXCEPT !.pc = "waiting"] \in Client /\ [client EXCEPT !.pc = "refused"] \in Client
    BY DEF TypeOK, Client
  <2>3. ws' \in Workspace /\ behind' \in BOOLEAN
    BY <1>1, <2>1, PutType DEF CreateWorkspace, TypeOK
  <2>4. client' \in Client
    BY <1>1, <2>2 DEF CreateWorkspace
  <2> QED
    BY <1>1, <2>3, <2>4 DEF CreateWorkspace, TypeOK, operator, cluster
<1>2. CASE WaitForReconcile \/ WaitForReady \/ GiveUp
  BY <1>2, SucceedType, FailType DEF WaitForReconcile, WaitForReady, GiveUp
<1>3. CASE WaitForContainer
  <2>1. [client EXCEPT !.stream = TRUE] \in Client
    BY DEF TypeOK, Client
  <2> QED
    BY <1>3, <2>1, SetClientType DEF WaitForContainer
<1>4. CASE EndStream
  <2>1. /\ [client EXCEPT !.stream = FALSE, !.open = @ \ {"container"}] \in Client
        /\ [client EXCEPT !.stream = FALSE, !.pc = "cleanup",
                          !.open = {}, !.exit = "none"] \in Client
    BY DEF TypeOK, Client, Exits
  <2> QED
    BY <1>4, <2>1, SetClientType DEF EndStream
<1>5. CASE MonitorExit
  <2>1. PICK exit \in ExitsOf(things["pod"]) : SetClient([client EXCEPT !.exit = exit])
    BY <1>5 DEF MonitorExit
  <2>2. exit \in Exits
    BY <2>1 DEF ExitsOf, Exits
  <2>3. [client EXCEPT !.exit = exit] \in Client
    BY <2>2 DEF TypeOK, Client
  <2> QED
    BY <2>1, <2>3, SetClientType
<1>6. CASE FinishWaits
  <2>1. /\ [client EXCEPT !.pc = "exit", !.env = TRUE] \in Client
        /\ [client EXCEPT !.pc = "cleanup", !.exit = "none"] \in Client
    BY DEF TypeOK, Client, Exits
  <2> QED
    BY <1>6, <2>1, SetClientType DEF FinishWaits
<1>7. CASE AwaitExit
  <2>1. [client EXCEPT !.pc = IF client.exit = "zero" THEN "ok" ELSE "cleanup",
                       !.exit = "none"] \in Client
    BY DEF TypeOK, Client, Exits
  <2> QED
    BY <1>7, <2>1, SetClientType DEF AwaitExit
<1>8. CASE Cleanup
  <2>1. [client EXCEPT !.pc = "error"] \in Client
    BY DEF TypeOK, Client
  <2>2. ws' \in Workspace /\ behind' \in BOOLEAN
    BY <1>8, MarkType DEF Cleanup, TypeOK
  <2> QED
    BY <1>8, <2>1, <2>2 DEF Cleanup, TypeOK, operator, cluster
<1> QED
  BY <1>1, <1>2, <1>3, <1>4, <1>5, <1>6, <1>7, <1>8 DEF Command

\* Every step keeps the types.
LEMMA TypeNext == TypeOK /\ [Next]_vars => TypeOK'
<1> SUFFICES ASSUME TypeOK, [Next]_vars PROVE TypeOK'
  OBVIOUS
<1>1. CASE UNCHANGED vars
  BY <1>1 DEF TypeOK, vars
<1> QED
  BY <1>1, ReconcilerType, KubernetesType, CommandType DEF Next

\* The state of workspace, reconciler, cluster and client is well-typed.
THEOREM TypeCorrect == Spec => []TypeOK
BY TypeInit, TypeNext, PTL DEF Spec

-----------------------------------------------------------------------------
(* Nothing is left behind.                                                 *)

Deleted == ws.object \in {"deleting", "gone"}

\* The log is followed while the wait for it is open, or has been cancelled.
StreamInv ==
  client.stream => \/ client.pc = "waiting" /\ "container" \in client.open
                   \/ client.pc = "stopping"

\* Who has created the workspace, finds it there or deleted ever after.
CreatedInv ==
  /\ StreamInv
  /\ client.pc \notin {"start", "refused"} => ws.object # "absent"
  /\ client.pc = "error" => Deleted

\* A workspace that was deleted does not return, and one that was created does
\* not become one that was not.
LEMMA ObjectSteps ==
  ASSUME TypeOK, [Next]_vars
  PROVE  /\ Deleted => Deleted'
         /\ ws.object # "absent" => ws'.object # "absent"
<1>0. ws \in Workspace
  BY DEF TypeOK
<1>1. CASE UNCHANGED ws
  BY <1>1 DEF Deleted
<1>2. CASE Reconcile \/ UpdateStatus
  <2>1. ws'.object = ws.object
    BY <1>0, <1>2 DEF Reconcile, UpdateStatus, Put, Workspace
  <2> QED
    BY <2>1 DEF Deleted
<1>3. CASE DeleteByOther \/ CollectWorkspace \/ (Cleanup /\ MarkDeleted)
  <2>1. ws'.object \in {"deleting", "gone"}
    BY <1>0, <1>3 DEF DeleteByOther, CollectWorkspace, MarkDeleted, Put, Workspace
  <2> QED
    BY <2>1 DEF Deleted
<1>4. CASE CreateWorkspace /\ ~UNCHANGED ws
  <2>1. ws.object = "absent" /\ ws'.object = "present"
    BY <1>0, <1>4 DEF CreateWorkspace, Put, Workspace
  <2> QED
    BY <2>1 DEF Deleted
<1>5. CASE Reconciler
  BY <1>1, <1>2, <1>5
     DEF Reconciler, ManageState, ManagePVC, ManagePod, Make, FailToMake, FindThing, reading
<1>6. CASE Kubernetes
  BY <1>1, <1>3, <1>6
     DEF Kubernetes, SyncWorkspace, BindVolume, StartInstaller, FinishInstaller,
         CrashInstaller, StartIdler, LosePod, LoseVolume, CollectOwned, Sync, MovePod
<1>7. CASE Command
  BY <1>1, <1>3, <1>4, <1>7
     DEF Command, WaitForReconcile, WaitForReady, WaitForContainer, GiveUp, EndStream,
         MonitorExit, FinishWaits, AwaitExit, Cleanup, Succeed, Fail, SetClient
<1> QED
  BY <1>1, <1>5, <1>6, <1>7 DEF Next, vars

\* Only the command moves the client.
LEMMA OthersLeaveClient ==
  ASSUME [Next]_vars, ~Command
  PROVE  UNCHANGED client
<1>1. CASE Reconciler
  BY <1>1
     DEF Reconciler, Reconcile, ManageState, ManagePVC, ManagePod, UpdateStatus, Make,
         FailToMake, FindThing, reading
<1>2. CASE Kubernetes
  BY <1>2
     DEF Kubernetes, SyncWorkspace, BindVolume, StartInstaller, FinishInstaller,
         CrashInstaller, StartIdler, LosePod, LoseVolume, DeleteByOther, CollectOwned,
         CollectWorkspace, Sync, MovePod, outside
<1> QED
  BY <1>1, <1>2 DEF Next, vars

\* A step that cancels the waits, or lets one succeed.
LEMMA WaitStep ==
  ASSUME TypeOK, StreamInv, client.pc = "waiting",
         Fail \/ Succeed("ready") \/ Succeed("reconciled")
  PROVE  StreamInv' /\ client'.pc \in {"waiting", "stopping", "cleanup"}
<1>0. client \in Client
  BY DEF TypeOK
<1>1. CASE Fail
  BY <1>0, <1>1 DEF Fail, SetClient, StreamInv, Client
<1>2. CASE Succeed("ready") \/ Succeed("reconciled")
  <2>1. PICK w \in {"ready", "reconciled"} : client' = [client EXCEPT !.open = @ \ {w}]
    BY <1>2 DEF Succeed, SetClient
  <2> QED
    BY <1>0, <2>1 DEF StreamInv, Client
<1> QED
  BY <1>1, <1>2

\* The command ends with an error by way of the cleanup only, and leaves its
\* start by way of the creation only.
LEMMA CommandSteps ==
  ASSUME TypeOK, StreamInv, Command
  PROVE  /\ StreamInv'
         /\ \/ CreateWorkspace /\ client.pc = "start"
            \/ Cleanup /\ client.pc = "cleanup"
            \/ /\ client.pc \notin {"start", "refused"}
               /\ client'.pc \notin {"start", "refused", "error"}
<1>0. client \in Client
  BY DEF TypeOK
<1>1. CASE CreateWorkspace
  BY <1>0, <1>1 DEF CreateWorkspace, StreamInv, Client
<1>2. CASE WaitForReconcile \/ WaitForReady \/ GiveUp
  BY <1>2, WaitStep DEF WaitForReconcile, WaitForReady, GiveUp, Waiting
<1>3. CASE WaitForContainer
  BY <1>0, <1>3 DEF WaitForContainer, Waiting, SetClient, StreamInv, Client
<1>4. CASE EndStream
  <2>1. client.pc \in {"waiting", "stopping"}
    BY <1>4 DEF EndStream, StreamInv
  <2>2. client'.stream = FALSE /\ client'.pc \in {client.pc, "cleanup"}
    BY <1>0, <1>4 DEF EndStream, SetClient, Client
  <2> QED
    BY <2>1, <2>2 DEF StreamInv
<1>5. CASE MonitorExit
  <2>1. PICK exit : client' = [client EXCEPT !.exit = exit]
    BY <1>5 DEF MonitorExit, SetClient
  <2>2. client'.pc = client.pc /\ client'.stream = client.stream /\ client'.open = client.open
    BY <1>0, <2>1 DEF Client
  <2> QED
    BY <1>5, <2>2 DEF MonitorExit, StreamInv
<1>6. CASE FinishWaits
  BY <1>0, <1>6 DEF FinishWaits, SetClient, StreamInv, Client
<1>7. CASE AwaitExit
  BY <1>0, <1>7 DEF AwaitExit, SetClient, StreamInv, Client
<1>8. CASE Cleanup
  BY <1>0, <1>8 DEF Cleanup, StreamInv, Client
<1> QED
  BY <1>1, <1>2, <1>3, <1>4, <1>5, <1>6, <1>7, <1>8 DEF Command

\* Every step keeps what follows from the creation.
LEMMA CreatedNext == TypeOK /\ CreatedInv /\ [Next]_vars => CreatedInv'
<1> SUFFICES ASSUME TypeOK, CreatedInv, [Next]_vars PROVE CreatedInv'
  OBVIOUS
<1>0. ws \in Workspace /\ client \in Client
  BY DEF TypeOK
<1>1. CASE UNCHANGED client
  BY <1>1, ObjectSteps DEF CreatedInv, StreamInv
<1>2. CASE Command
  <2>1. StreamInv'
    BY <1>2, CommandSteps DEF CreatedInv
  <2>2. CASE CreateWorkspace /\ client.pc = "start"
    <3>1. \/ client'.pc = "waiting" /\ ws'.object = "present"
          \/ client'.pc = "refused"
      BY <1>0, <2>2 DEF CreateWorkspace, Put, Workspace, Client
    <3> QED
      BY <2>1, <3>1 DEF CreatedInv
  <2>3. CASE Cleanup /\ client.pc = "cleanup"
    <3>1. ws.object # "absent"
      BY <2>3 DEF CreatedInv
    <3>2. Deleted'
      BY <1>0, <2>3, <3>1
         DEF Cleanup, MarkDeleted, Put, Workspace, Objects, Deleted
    <3> QED
      BY <2>1, <3>2 DEF CreatedInv, Deleted
  <2>4. CASE client.pc \notin {"start", "refused"}
             /\ client'.pc \notin {"start", "refused", "error"}
    BY <2>1, <2>4, ObjectSteps DEF CreatedInv
  <2> QED
    BY <1>2, <2>2, <2>3, <2>4, CommandSteps DEF CreatedInv
<1> QED
  BY <1>1, <1>2, OthersLeaveClient

\* workspace new leaves no workspace behind that it has created and failed on.
THEOREM NothingLeft == Spec => []NothingIsLeftBehind
<1>1. Init => CreatedInv
  <2> SUFFICES ASSUME Init PROVE CreatedInv
    OBVIOUS
  <2>1. client.pc = "start" /\ client.stream = FALSE
    BY DEF Init
  <2> QED
    BY <2>1 DEF CreatedInv, StreamInv
<1>2. CreatedInv => NothingIsLeftBehind
  BY DEF CreatedInv, Deleted, NothingIsLeftBehind
<1> QED
  BY <1>1, <1>2, TypeInit, TypeNext, CreatedNext, PTL DEF Spec

-----------------------------------------------------------------------------
(* Ready means complete.                                                   *)

There(x) == Deleted \/ things[x] # "none"

Complete == Deleted \/ (installed /\ \A x \in Things \ {"pod"} : things[x] # "none")

\* A cache shows what is there, and a pod runs once the installer has succeeded.
CacheInv ==
  /\ \A x \in Things \ {"pod"} : cache[x] # "none" => There(x)
  /\ things["pod"] \in {"installed", "Running"} => installed
  /\ cache["pod"] = "Running" => installed

\* What the chain has left behind is there, unless it has bailed out.
ChainInv ==
  worker.step \in 1..7 =>
    \A n \in 1..(worker.step - 1) : Steps[n] \in Things \ {"pod"} => There(Steps[n])

\* The condition is Ready, wherever it is kept, of complete workspaces only.
ReadyInv ==
  worker.ready = "Ready" \/ ws.status.ready = "Ready" \/ wsCache.status.ready = "Ready"
    => Complete

CompleteInv == CacheInv /\ ChainInv /\ ReadyInv

\* What the installer and the chain have achieved is lost with the workspace only.
LEMMA ThingsStay ==
  ASSUME TypeOK, [Next]_vars
  PROVE  /\ installed => installed'
         /\ \A x \in Things \ {"pod"} : There(x) => There(x)'
         /\ Complete => Complete'
<1>1. installed => installed'
  BY DEF Next, Reconciler, Reconcile, ManageState, ManagePVC, ManagePod, UpdateStatus, Make,
         FailToMake, FindThing, reading, cluster, Kubernetes, SyncWorkspace, BindVolume,
         StartInstaller, FinishInstaller, CrashInstaller, StartIdler, LosePod, LoseVolume,
         DeleteByOther, CollectOwned, CollectWorkspace, Sync, MovePod, Command,
         CreateWorkspace, WaitForReconcile, WaitForReady, WaitForContainer, GiveUp,
         EndStream, MonitorExit, FinishWaits, AwaitExit, Cleanup, Succeed, Fail, SetClient,
         operator, vars
<1>2. \A x \in Things \ {"pod"} : There(x) => There(x)'
  <2>0. /\ things \in [Things -> UNION {StatesOf(x) : x \in Things}]
        /\ Deleted => Deleted'
    BY ObjectSteps DEF TypeOK
  <2>1. CASE UNCHANGED things
    BY <2>0, <2>1 DEF There
  <2>2. CASE \E x \in Things, s \in {"Bound", "Lost"} \cup {New[y] : y \in Things} :
               s # "none" /\ things' = [things EXCEPT ![x] = s]
    BY <2>0, <2>2 DEF There
  <2>3. CASE \E s : things' = [things EXCEPT !["pod"] = s]
    BY <2>0, <2>3 DEF There
  <2>4. CASE CollectOwned
    BY <2>0, <2>4 DEF CollectOwned, There, Deleted
  <2>5. CASE Reconciler
    <3>1. ASSUME NEW x \in Things, Make(x), ~UNCHANGED things
          PROVE  things' = [things EXCEPT ![x] = New[x]] /\ New[x] # "none"
      BY <3>1, NewType DEF Make
    <3>2. (\E x \in Things : Make(x)) \/ UNCHANGED things
      BY <2>5
         DEF Reconciler, Reconcile, ManageState, ManagePVC, ManagePod, UpdateStatus,
             FailToMake, FindThing, reading, cluster
    <3>3. CASE UNCHANGED things
      BY <2>1, <3>3
    <3>4. CASE ~UNCHANGED things
      <4>1. PICK x \in Things : Make(x)
        BY <3>2, <3>4
      <4>2. things' = [things EXCEPT ![x] = New[x]] /\ New[x] # "none"
        BY <3>1, <3>4, <4>1
      <4> QED
        BY <2>2, <4>2
    <3> QED
      BY <3>3, <3>4
  <2>6. CASE BindVolume \/ LoseVolume
    <3>1. "pvc" \in Things
      BY DEF Things, Owned
    <3> QED
      BY <2>2, <2>6, <3>1 DEF BindVolume, LoseVolume, SetThing
  <2>7. CASE StartInstaller \/ FinishInstaller \/ CrashInstaller \/ StartIdler \/ LosePod
    BY <2>3, <2>7
       DEF StartInstaller, FinishInstaller, CrashInstaller, StartIdler, LosePod, MovePod, SetThing
  <2>8. CASE Kubernetes
    BY <2>1, <2>4, <2>6, <2>7, <2>8
       DEF Kubernetes, SyncWorkspace, DeleteByOther, CollectWorkspace, Sync, cluster
  <2>9. CASE Command
    BY <2>1, <2>9
       DEF Command, CreateWorkspace, WaitForReconcile, WaitForReady, WaitForContainer,
           GiveUp, EndStream, MonitorExit, FinishWaits, AwaitExit, Cleanup, Succeed, Fail,
           SetClient, operator, cluster
  <2> QED
    BY <2>1, <2>5, <2>8, <2>9 DEF Next, vars
<1> QED
  BY <1>1, <1>2, ObjectSteps DEF Complete, There

\* A chain that passes over what the caches have, goes on with nothing left out.
LEMMA ChainGoesOn ==
  ASSUME TypeOK, CacheInv, [Next]_vars, NEW s \in 0..7, worker'.step = NextStep(s),
         \A n \in 1..s : Steps[n] \in Things \ {"pod"} => There(Steps[n])'
  PROVE  ChainInv'
<1>1. /\ NextStep(s) \in (s + 1)..8
      /\ \A m \in (s + 1)..(NextStep(s) - 1) : ~HasWork(Steps[m])
  BY NextStepIs
<1>2. ASSUME NEW n \in 1..(NextStep(s) - 1), Steps[n] \in Things \ {"pod"}
      PROVE  There(Steps[n])'
  <2>1. CASE n \in 1..s
    BY <1>2, <2>1
  <2>2. CASE n \in (s + 1)..(NextStep(s) - 1)
    <3>1. ~HasWork(Steps[n])
      BY <1>1, <2>2
    <3>2. cache[Steps[n]] # "none"
      BY <1>2, <3>1 DEF HasWork, Things, Shared, Owned
    <3> QED
      BY <1>2, <3>2, ThingsStay DEF CacheInv
  <2>3. NextStep(s) \in Nat
    BY <1>1
  <2> HIDE DEF NextStep
  <2> QED
    BY <2>1, <2>2, <2>3
<1> HIDE DEF NextStep
<1> QED
  BY <1>2 DEF ChainInv

\* The chain goes on from a step that has seen to its object.
LEMMA ContinueChain ==
  ASSUME TypeOK, CompleteInv, [Next]_vars, NEW step \in Things \cup {"state"}, At(step),
         NEW ready \in Reasons, Continue(ready),
         step \in Things \ {"pod"} => There(step)'
  PROVE  ChainInv'
<1>1. worker.step \in 1..7 /\ worker'.step = NextStep(worker.step)
  BY ContinueType
<1>2. ASSUME NEW n \in 1..worker.step, Steps[n] \in Things \ {"pod"}
      PROVE  There(Steps[n])'
  <2>1. CASE n = worker.step
    BY <1>2, <2>1 DEF At
  <2>2. CASE n \in 1..(worker.step - 1)
    BY <1>1, <1>2, <2>2, ThingsStay DEF CompleteInv, ChainInv
  <2> QED
    BY <1>1, <2>1, <2>2
<1> QED
  BY <1>1, <1>2, ChainGoesOn DEF CompleteInv

\* Making an object changes things and cache as one, or neither.
LEMMA MakeThings ==
  ASSUME TypeOK, NEW x \in Things, Make(x)
  PROVE  /\ UNCHANGED things \/ (things' = [things EXCEPT ![x] = New[x]] /\ New[x] # "none")
         /\ UNCHANGED cache \/ (/\ cache' = [cache EXCEPT ![x] = New[x]]
                                /\ things' = [things EXCEPT ![x] = New[x]])
BY NewType DEF Make

\* Who touches the caches.
LEMMA CacheSteps ==
  ASSUME [Next]_vars
  PROVE  \/ UNCHANGED cache
         \/ \E x \in Things : Make(x) \/ Sync(x)
BY DEF Next, Reconciler, Reconcile, ManageState, ManagePVC, ManagePod, UpdateStatus,
       FailToMake, FindThing, reading, Kubernetes, SyncWorkspace, BindVolume,
       StartInstaller, FinishInstaller, CrashInstaller, StartIdler, LosePod, LoseVolume,
       DeleteByOther, CollectOwned, CollectWorkspace, MovePod, outside, Command,
       CreateWorkspace, WaitForReconcile, WaitForReady, WaitForContainer, GiveUp,
       EndStream, MonitorExit, FinishWaits, AwaitExit, Cleanup, Succeed, Fail, SetClient,
       operator, vars

\* Who touches the pod.
LEMMA PodSteps ==
  ASSUME TypeOK, [Next]_vars
  PROVE  \/ things'["pod"] \in {things["pod"], "none", "waiting", "installing", "crashed", "Failed"}
         \/ FinishInstaller
         \/ StartIdler
<1>0. things \in [Things -> UNION {StatesOf(x) : x \in Things}] /\ "pod" \in Things
  BY DEF TypeOK, Things, Owned
<1>1. CASE UNCHANGED things
  BY <1>1
<1>2. ASSUME NEW x \in Things, Make(x) PROVE things'["pod"] \in {things["pod"], "waiting"}
  BY <1>0, <1>2, MakeThings DEF New
<1>3. CASE BindVolume \/ LoseVolume
  BY <1>0, <1>3 DEF BindVolume, LoseVolume, SetThing
<1>4. CASE StartInstaller \/ CrashInstaller \/ LosePod
  BY <1>0, <1>4 DEF StartInstaller, CrashInstaller, LosePod, MovePod, SetThing
<1>5. CASE CollectOwned
  BY <1>0, <1>5 DEF CollectOwned
<1> QED
  BY <1>1, <1>2, <1>3, <1>4, <1>5
     DEF Next, Reconciler, Reconcile, ManageState, ManagePVC, ManagePod, UpdateStatus,
         FailToMake, FindThing, reading, cluster, Kubernetes, SyncWorkspace, DeleteByOther,
         CollectWorkspace, Sync, Command, CreateWorkspace, WaitForReconcile, WaitForReady,
         WaitForContainer, GiveUp, EndStream, MonitorExit, FinishWaits, AwaitExit, Cleanup,
         Succeed, Fail, SetClient, operator, vars

\* Every step keeps the caches true.
LEMMA CacheNext ==
  ASSUME TypeOK, CompleteInv, [Next]_vars
  PROVE  CacheInv'
<1>0. /\ cache \in [Things -> UNION {StatesOf(x) : x \in Things}]
      /\ things \in [Things -> UNION {StatesOf(x) : x \in Things}]
      /\ "pod" \in Things
  BY DEF TypeOK, Things, Owned
<1>1. ASSUME NEW x \in Things \ {"pod"}, cache'[x] # "none"
      PROVE  There(x)'
  <2>1. CASE UNCHANGED cache
    BY <1>1, <2>1, ThingsStay DEF CompleteInv, CacheInv
  <2>2. ASSUME NEW y \in Things, Make(y), ~UNCHANGED cache PROVE There(x)'
    <3>1. CASE y = x
      BY <1>0, <2>2, <3>1, MakeThings, NewType DEF There
    <3>2. CASE y # x
      <4>1. cache[x] # "none"
        BY <1>0, <1>1, <2>2, <3>2, MakeThings
      <4> QED
        BY <4>1, ThingsStay DEF CompleteInv, CacheInv
    <3> QED
      BY <3>1, <3>2
  <2>3. ASSUME NEW y \in Things, Sync(y) PROVE There(x)'
    <3>1. CASE y = x
      <4>1. things'[x] = cache'[x]
        BY <1>0, <2>3, <3>1 DEF Sync, Seen, cluster
      <4> QED
        BY <1>1, <4>1 DEF There
    <3>2. CASE y # x
      <4>1. cache[x] # "none"
        BY <1>0, <1>1, <2>3, <3>2 DEF Sync
      <4> QED
        BY <4>1, ThingsStay DEF CompleteInv, CacheInv
    <3> QED
      BY <3>1, <3>2
  <2> QED
    BY <2>1, <2>2, <2>3, CacheSteps
<1>2. things'["pod"] \in {"installed", "Running"} => installed'
  <2>1. CASE FinishInstaller
    BY <2>1 DEF FinishInstaller
  <2>2. CASE StartIdler
    BY <2>2, ThingsStay DEF StartIdler, MovePod, CompleteInv, CacheInv
  <2>3. CASE things'["pod"] \in {things["pod"], "none", "waiting", "installing", "crashed", "Failed"}
    BY <2>3, ThingsStay DEF CompleteInv, CacheInv
  <2> QED
    BY <2>1, <2>2, <2>3, PodSteps
<1>3. cache'["pod"] = "Running" => installed'
  <2>1. CASE UNCHANGED cache
    BY <2>1, ThingsStay DEF CompleteInv, CacheInv
  <2>2. ASSUME NEW y \in Things, Make(y), ~UNCHANGED cache, cache'["pod"] = "Running"
        PROVE  installed'
    <3>1. y # "pod"
      BY <1>0, <2>2, MakeThings DEF New
    <3>2. cache["pod"] = "Running"
      BY <1>0, <2>2, <3>1, MakeThings
    <3> QED
      BY <3>2, ThingsStay DEF CompleteInv, CacheInv
  <2>3. ASSUME NEW y \in Things, Sync(y), cache'["pod"] = "Running" PROVE installed'
    <3>1. CASE y = "pod"
      <4>1. PhaseOf(things["pod"]) = "Running"
        BY <1>0, <2>3, <3>1 DEF Sync, Seen
      <4>2. things["pod"] = "Running"
        BY <4>1 DEF PhaseOf
      <4> QED
        BY <4>2, ThingsStay DEF CompleteInv, CacheInv
    <3>2. CASE y # "pod"
      <4>1. cache["pod"] = "Running"
        BY <1>0, <2>3, <3>2 DEF Sync
      <4> QED
        BY <4>1, ThingsStay DEF CompleteInv, CacheInv
    <3> QED
      BY <3>1, <3>2
  <2> QED
    BY <2>1, <2>2, <2>3, CacheSteps
<1> QED
  BY <1>1, <1>2, <1>3 DEF CacheInv

\* The reconciler's steps, and what each makes of its condition: it is taken
\* from the workspace it has read, kept, or made of the pod at the last but one
\* of the steps.
LEMMA ReconcilerSteps ==
  ASSUME TypeOK, CompleteInv, [Next]_vars, Reconciler
  PROVE  /\ ChainInv'
         /\ worker'.ready = "Ready" =>
              \/ worker.ready = "Ready" \/ wsCache.status.ready = "Ready"
              \/ ManagePod /\ cache["pod"] = "Running"
<1>0. worker \in [step : 0..8, ready : Reasons, failed : BOOLEAN]
  BY StepsAre DEF TypeOK
<1>1. CASE Reconcile
  <2>1. \/ UNCHANGED worker
        \/ worker' = [step |-> Len(Steps), ready |-> "Deleting", failed |-> FALSE]
        \/ worker' = [step |-> NextStep(0), ready |-> wsCache.status.ready, failed |-> FALSE]
    BY <1>1 DEF Reconcile
  <2>2. CASE UNCHANGED worker
    <3>1. worker.step = 0
      BY <1>1 DEF Reconcile
    <3> QED
      BY <2>2, <3>1 DEF ChainInv
  <2>3. CASE worker' = [step |-> Len(Steps), ready |-> "Deleting", failed |-> FALSE]
    BY <2>3, StepsAre DEF ChainInv
  <2>4. CASE worker' = [step |-> NextStep(0), ready |-> wsCache.status.ready, failed |-> FALSE]
    <3>1. worker'.step = NextStep(0) /\ worker'.ready = wsCache.status.ready
      BY <2>4
    <3>2. ChainInv'
      BY <3>1, ChainGoesOn DEF CompleteInv
    <3> QED
      BY <3>1, <3>2
  <2> QED
    BY <2>1, <2>2, <2>3, <2>4
<1>2. CASE Bail
  <2>1. worker'.step = 8 /\ worker'.ready = worker.ready
    BY <1>2, BailType
  <2> QED
    BY <2>1 DEF ChainInv
<1>3. CASE UpdateStatus
  BY <1>3 DEF UpdateStatus, IdleWorker, ChainInv
<1>4. CASE At("state") /\ Continue(worker.ready)
  <2>1. worker.ready \in Reasons /\ "state" \notin Things
    BY <1>0 DEF Things, Shared, Owned
  <2> QED
    BY <1>4, <2>1, ContinueType, ContinueChain
<1>5. CASE ManagePVC /\ ~Bail
  <2>1. "pvc" \in Things \ {"pod"} /\ worker.ready \in Reasons /\ "Pending" \in Reasons
    BY <1>0 DEF Things, Owned, Reasons
  <2>2. PICK ready \in {worker.ready, "Pending"} : At("pvc") /\ Continue(ready)
    BY <1>5 DEF ManagePVC
  <2>3. cache["pvc"] # "none"
    BY <1>5 DEF ManagePVC
  <2>4. There("pvc")'
    BY <2>1, <2>3, ThingsStay DEF CompleteInv, CacheInv
  <2> QED
    BY <2>1, <2>2, <2>4, ContinueType, ContinueChain
<1>6. CASE ManagePod
  <2>1. ReadyOf(cache["pod"]) \in Reasons /\ "pod" \in Things
    BY DEF ReadyOf, Reasons, Things, Owned
  <2>2. At("pod") /\ Continue(ReadyOf(cache["pod"]))
    BY <1>6 DEF ManagePod
  <2>3. ChainInv' /\ worker'.ready = ReadyOf(cache["pod"])
    BY <2>1, <2>2, ContinueType, ContinueChain
  <2> QED
    BY <1>6, <2>3 DEF ReadyOf
<1>7. ASSUME NEW x \in Things, Make(x) \/ FindThing(x), ~Bail
      PROVE  ChainInv' /\ (worker'.ready = "Ready" => worker.ready = "Ready")
  <2>1. worker.ready \in Reasons /\ "Pending" \in Reasons
    BY <1>0 DEF Reasons
  <2>2. PICK ready \in {worker.ready, "Pending"} : At(x) /\ Continue(ready)
    BY <1>7 DEF Make, FindThing
  <2>3. ASSUME x # "pod" PROVE There(x)'
    <3>1. CASE Make(x)
      <4>1. things' = [things EXCEPT ![x] = New[x]]
        BY <1>7, <3>1 DEF Make
      <4>2. x \in DOMAIN things
        BY DEF TypeOK
      <4> QED
        BY <4>1, <4>2, NewType DEF There
    <3>2. CASE FindThing(x)
      BY <2>3, <3>2, ThingsStay DEF FindThing, CompleteInv, CacheInv
    <3> QED
      BY <1>7, <3>1, <3>2
  <2> QED
    BY <2>1, <2>2, <2>3, ContinueType, ContinueChain
<1> QED
  BY <1>1, <1>2, <1>3, <1>4, <1>5, <1>6, <1>7
     DEF Reconciler, ManageState, FailToMake

\* A pod that is seen to run, behind a chain with nothing left out, makes a
\* workspace complete.
LEMMA PodCompletes ==
  ASSUME TypeOK, CompleteInv, ManagePod, cache["pod"] = "Running"
  PROVE  Complete
<1>1. worker.step = 7
  <2>1. worker \in [step : 0..8, ready : Reasons, failed : BOOLEAN]
    BY StepsAre DEF TypeOK
  <2> QED
    BY <2>1, StepsAre DEF ManagePod, At
<1>2. \A n \in 1..6 : Steps[n] \in Things \ {"pod"} => There(Steps[n])
  BY <1>1 DEF CompleteInv, ChainInv
<1>3. /\ There("builtins") /\ There("account") /\ There("role") /\ There("binding")
      /\ There("pvc")
  <2>1. {"builtins", "account", "role", "binding", "pvc"} = Things \ {"pod"}
    BY DEF Things, Shared, Owned
  <2> QED
    BY <1>2, <2>1, StepsAre
<1>4. installed
  BY DEF CompleteInv, CacheInv
<1> QED
  BY <1>3, <1>4 DEF Complete, There, Things, Shared, Owned

\* The status of the workspace is what it was, or the condition of the reconciler.
LEMMA StatusSteps ==
  ASSUME TypeOK, [Next]_vars
  PROVE  ws'.status.ready \in {ws.status.ready, worker.ready}
<1>0. ws \in Workspace
  BY DEF TypeOK
<1>1. CASE UNCHANGED ws
  BY <1>1
<1>2. CASE Reconcile
  BY <1>0, <1>2 DEF Reconcile, Put, Workspace
<1>3. CASE UpdateStatus
  <2> DEFINE status == [ready |-> worker.ready, phase |-> SetPhase(worker.ready)]
  <2>1. status.ready = worker.ready
    OBVIOUS
  <2> HIDE DEF status
  <2>2. UNCHANGED ws \/ ws' = [ws EXCEPT !.status = status]
    BY <1>3 DEF UpdateStatus, Put, status
  <2> QED
    BY <1>0, <2>1, <2>2 DEF Workspace
<1>4. CASE DeleteByOther \/ CollectWorkspace \/ CreateWorkspace \/ Cleanup
  <2>1. UNCHANGED ws \/ \E o : ws' = [ws EXCEPT !.object = o]
    BY <1>4 DEF DeleteByOther, CollectWorkspace, CreateWorkspace, Cleanup, MarkDeleted, Put
  <2> QED
    BY <1>0, <2>1 DEF Workspace
<1> QED
  BY <1>1, <1>2, <1>3, <1>4
     DEF Next, Reconciler, ManageState, ManagePVC, ManagePod, Make, FailToMake, FindThing,
         reading, Kubernetes, SyncWorkspace, BindVolume, StartInstaller, FinishInstaller,
         CrashInstaller, StartIdler, LosePod, LoseVolume, CollectOwned, Sync, MovePod,
         Command, WaitForReconcile, WaitForReady, WaitForContainer, GiveUp, EndStream,
         MonitorExit, FinishWaits, AwaitExit, Succeed, Fail, SetClient, vars

\* Who touches the reconciler, and who its cache of the workspace.
LEMMA WorkerSteps ==
  ASSUME [Next]_vars
  PROVE  /\ Reconciler \/ UNCHANGED worker
         /\ SyncWorkspace \/ UNCHANGED wsCache
BY DEF Next, Reconciler, Reconcile, UpdateStatus, ManageState, ManagePVC, ManagePod, Make,
       FailToMake, FindThing, reading, Kubernetes, SyncWorkspace, BindVolume,
       StartInstaller, FinishInstaller, CrashInstaller, StartIdler, LosePod, LoseVolume,
       DeleteByOther, CollectOwned, CollectWorkspace, Sync, MovePod, outside, Command,
       CreateWorkspace, WaitForReconcile, WaitForReady, WaitForContainer, GiveUp,
       EndStream, MonitorExit, FinishWaits, AwaitExit, Cleanup, Succeed, Fail, SetClient,
       operator, vars

\* Every step keeps Ready true, wherever it is kept.
LEMMA CompleteNext == TypeOK /\ CompleteInv /\ [Next]_vars => CompleteInv'
<1> SUFFICES ASSUME TypeOK, CompleteInv, [Next]_vars PROVE CompleteInv'
  OBVIOUS
<1>1. ChainInv'
  <2>1. CASE Reconciler
    BY <2>1, ReconcilerSteps
  <2>2. CASE UNCHANGED worker
    BY <2>2, ThingsStay, StepsAre DEF CompleteInv, ChainInv
  <2> QED
    BY <2>1, <2>2, WorkerSteps
<1>2. worker'.ready = "Ready" => Complete
  <2>1. CASE Reconciler
    BY <2>1, ReconcilerSteps, PodCompletes DEF CompleteInv, ReadyInv
  <2>2. CASE UNCHANGED worker
    BY <2>2 DEF CompleteInv, ReadyInv
  <2> QED
    BY <2>1, <2>2, WorkerSteps
<1>3. ws'.status.ready = "Ready" => Complete
  BY StatusSteps DEF CompleteInv, ReadyInv
<1>4. wsCache'.status.ready = "Ready" => Complete
  BY WorkerSteps DEF SyncWorkspace, CompleteInv, ReadyInv
<1>5. ReadyInv'
  BY <1>2, <1>3, <1>4, ThingsStay DEF ReadyInv
<1> QED
  BY <1>1, <1>5, CacheNext DEF CompleteInv

\* At first nothing is ready, and the caches show what is there.
LEMMA CompleteInit == Init => CompleteInv
<1> SUFFICES ASSUME Init PROVE CompleteInv
  OBVIOUS
<1>1. ws.status.ready = "none" /\ wsCache.status.ready = "none"
  <2>1. ws \in [object : {"present", "absent"}, finalizer : {FALSE},
                status : {[ready |-> "none", phase |-> ""]}]
    BY DEF Init
  <2>2. wsCache = [ws EXCEPT !.object = "absent"]
    BY DEF Init
  <2> DEFINE status == [ready |-> "none", phase |-> ""]
  <2>4. status.ready = "none"
    OBVIOUS
  <2> HIDE DEF status
  <2>5. PICK o \in {"present", "absent"} :
          ws = [object |-> o, finalizer |-> FALSE, status |-> status]
    BY <2>1 DEF status
  <2>3. ws.status.ready = "none" /\ wsCache.status = ws.status
    BY <2>2, <2>4, <2>5
  <2> QED
    BY <2>3
<1>2. worker.step = 0 /\ worker.ready = "none"
  BY DEF Init
<1>3. cache = things /\ things["pod"] \in {"there", "none"}
  BY DEF Init, Things, Owned
<1> QED
  BY <1>1, <1>2, <1>3 DEF CompleteInv, CacheInv, ChainInv, ReadyInv, There

\* A workspace that reports to be ready has all that its runs need.
THEOREM ReadyIsComplete == Spec => []ReadyWorkspaceIsComplete
<1>1. TypeOK /\ CompleteInv => ReadyWorkspaceIsComplete
  BY DEF TypeOK, CompleteInv, ReadyInv, Complete, Deleted, ReadyWorkspaceIsComplete
<1> QED
  BY <1>1, TypeInit, TypeNext, CompleteInit, CompleteNext, PTL DEF Spec

-----------------------------------------------------------------------------
(* Success is told.  While nothing has gone wrong, what has been made stays *)
(* and what has been seen goes on being seen; then a workspace that is      *)
(* ready remains so.                                                        *)

Healthy == faults = Faults /\ ~Deleted

\* The pod is made when all else is there; it is the last thing of the chain.
PodIsLast ==
  /\ \A x \in Things : cache[x] # "none" => things[x] # "none"
  /\ things["pod"] # "none" => \A x \in Things : things[x] # "none"
  /\ cache["pod"] = "Running" => things["pod"] = "Running"

Unhurt == /\ things["pod"] # "Failed" /\ cache["pod"] # "Failed"
          /\ things["pvc"] # "Lost" /\ cache["pvc"] # "Lost"

\* Once there is a pod, the chain goes on only if the caches have what it needs.
PassedInCache ==
  worker.step \in 1..7 /\ things["pod"] # "none" =>
    \A n \in 1..(worker.step - 1) :
      Steps[n] \in Things => cache[Steps[n]] # "none"

Settled == /\ \A x \in Things : cache[x] # "none"
           /\ cache["pod"] = "Running"

\* Ready, wherever it is kept, is said of a pod that the cache has running
\* behind a chain with nothing left to make, and goes on being said.
RemainsReady ==
  /\ worker.ready = "Ready" \/ ws.status.ready = "Ready"
       \/ wsCache.status.ready = "Ready" => Settled
  /\ ws.status.ready = "Ready" /\ worker.step = 8 => worker.ready = "Ready"

HealthyInv ==
  Healthy => /\ wsCache.object \in {"absent", "present"}
             /\ PodIsLast /\ Unhurt /\ PassedInCache /\ RemainsReady

LEMMA CommandLeavesOperator ==
  ASSUME Command
  PROVE  UNCHANGED operator
<1>1. \A new : SetClient(new) => UNCHANGED operator
  BY DEF SetClient
<1>2. CASE CreateWorkspace \/ Cleanup
  BY <1>2 DEF CreateWorkspace, Cleanup
<1> QED
  BY <1>1, <1>2
     DEF Command, WaitForReconcile, WaitForReady, WaitForContainer, GiveUp, EndStream,
         MonitorExit, FinishWaits, AwaitExit, Succeed, Fail

\* What goes wrong is spent, and was something that could go wrong.
LEMMA NothingSpent ==
  ASSUME TypeOK, [Next]_vars, faults' = Faults
  PROVE  faults = Faults /\ \A fault : ~Spend(fault)
<1>1. faults \subseteq Faults
  BY DEF TypeOK
<1>2. \A fault : ~Spend(fault)
  BY <1>1 DEF Spend
<1>3. CASE Reconciler
  BY <1>2, <1>3
     DEF Reconciler, Reconcile, ManageState, ManagePVC, ManagePod, UpdateStatus, Make,
         FailToMake, FindThing
<1>4. CASE Kubernetes
  BY <1>2, <1>4
     DEF Kubernetes, SyncWorkspace, BindVolume, StartInstaller, FinishInstaller,
         CrashInstaller, StartIdler, LosePod, LoseVolume, DeleteByOther, CollectOwned,
         CollectWorkspace, Sync
<1>5. CASE Command
  BY <1>2, <1>5, CommandLeavesOperator DEF operator
<1> QED
  BY <1>2, <1>3, <1>4, <1>5 DEF Next, vars

LEMMA HealthyBefore ==
  ASSUME TypeOK, [Next]_vars, Healthy'
  PROVE  Healthy /\ \A fault : ~Spend(fault)
BY NothingSpent, ObjectSteps DEF Healthy

\* The objects only come and move on.
LEMMA HealthyThings ==
  ASSUME TypeOK, [Next]_vars, Healthy'
  PROVE  \/ UNCHANGED things
         \/ \E x \in Things : /\ Make(x) /\ things[x] = "none"
                              /\ things' = [things EXCEPT ![x] = New[x]]
         \/ things["pvc"] # "none" /\ things' = [things EXCEPT !["pvc"] = "Bound"]
         \/ \E to \in {"installing", "crashed", "installed", "Running"} :
              /\ things["pod"] \notin {"none", "Running"}
              /\ things' = [things EXCEPT !["pod"] = to]
<1>0. Healthy /\ \A fault : ~Spend(fault)
  BY HealthyBefore
<1>1. ASSUME NEW x \in Things, Make(x)
      PROVE  \/ UNCHANGED things
             \/ Make(x) /\ things[x] = "none" /\ things' = [things EXCEPT ![x] = New[x]]
  BY <1>1 DEF Make
<1>2. CASE BindVolume
  BY <1>2 DEF BindVolume, SetThing
<1>3. CASE StartInstaller \/ FinishInstaller \/ CrashInstaller \/ StartIdler
  BY <1>3 DEF StartInstaller, FinishInstaller, CrashInstaller, StartIdler, MovePod, SetThing
<1>4. CASE LosePod \/ LoseVolume \/ DeleteByOther
  BY <1>0, <1>4 DEF LosePod, LoseVolume, DeleteByOther
<1>5. CASE CollectOwned
  BY <1>0, <1>5 DEF CollectOwned, Healthy, Deleted
<1>6. CASE Reconciler /\ ~ \E x \in Things : Make(x)
  BY <1>6
     DEF Reconciler, Reconcile, ManageState, ManagePVC, ManagePod, UpdateStatus, FailToMake,
         FindThing, reading, cluster
<1>7. CASE SyncWorkspace \/ CollectWorkspace \/ \E x \in Things : Sync(x)
  BY <1>7 DEF SyncWorkspace, CollectWorkspace, Sync, cluster
<1>8. CASE Command
  BY <1>8, CommandLeavesOperator DEF operator, cluster
<1> QED
  BY <1>1, <1>2, <1>3, <1>4, <1>5, <1>6, <1>7, <1>8 DEF Next, Kubernetes, vars

LEMMA HealthyThingsStay ==
  ASSUME TypeOK, [Next]_vars, Healthy'
  PROVE  /\ \A x \in Things : things[x] # "none" => things'[x] # "none"
         /\ \A x \in Things : things[x] = "none" /\ things'[x] # "none" =>
              /\ Make(x)
              /\ \A y \in Things \ {x} : things'[y] = things[y]
         /\ things["pod"] = "Running" => things'["pod"] = "Running"
         /\ Unhurt => things'["pod"] # "Failed" /\ things'["pvc"] # "Lost"
<1>0. /\ things \in [Things -> UNION {StatesOf(x) : x \in Things}]
      /\ "pod" \in Things /\ "pvc" \in Things
  BY DEF TypeOK, Things, Owned
<1>1. CASE UNCHANGED things
  BY <1>1 DEF Unhurt
<1>2. ASSUME NEW z \in Things, Make(z), things[z] = "none",
             things' = [things EXCEPT ![z] = New[z]]
      PROVE  /\ \A x \in Things : things[x] # "none" => things'[x] # "none"
             /\ \A x \in Things : things[x] = "none" /\ things'[x] # "none" =>
                  Make(x) /\ \A y \in Things \ {x} : things'[y] = things[y]
             /\ things["pod"] = "Running" => things'["pod"] = "Running"
             /\ Unhurt => things'["pod"] # "Failed" /\ things'["pvc"] # "Lost"
  <2>1. New["pod"] = "waiting" /\ New["pvc"] = "Pending"
    BY DEF New, Things, Owned
  <2> QED
    BY <1>0, <1>2, <2>1, NewType DEF Unhurt
<1>3. CASE things["pvc"] # "none" /\ things' = [things EXCEPT !["pvc"] = "Bound"]
  BY <1>0, <1>3 DEF Unhurt
<1>4. CASE \E to \in {"installing", "crashed", "installed", "Running"} :
             /\ things["pod"] \notin {"none", "Running"}
             /\ things' = [things EXCEPT !["pod"] = to]
  BY <1>0, <1>4 DEF Unhurt
<1> QED
  BY <1>1, <1>2, <1>3, <1>4, HealthyThings

\* So do the caches.
LEMMA HealthyCaches ==
  ASSUME TypeOK, [Next]_vars, Healthy', PodIsLast, Unhurt
  PROVE  /\ \A x \in Things : cache[x] # "none" => cache'[x] # "none"
         /\ \A x \in Things : cache'[x] # "none" => things'[x] # "none"
         /\ cache["pod"] = "Running" => cache'["pod"] = "Running"
         /\ cache'["pod"] = "Running" => things'["pod"] = "Running"
         /\ cache'["pod"] # "Failed" /\ cache'["pvc"] # "Lost"
<1>0. /\ things \in [Things -> UNION {StatesOf(x) : x \in Things}]
      /\ cache \in [Things -> UNION {StatesOf(x) : x \in Things}]
      /\ "pod" \in Things /\ "pvc" \in Things
  BY DEF TypeOK, Things, Owned
<1>1. CASE UNCHANGED cache
  BY <1>1, HealthyThingsStay DEF PodIsLast, Unhurt
<1>2. ASSUME NEW z \in Things, Make(z), ~UNCHANGED cache
      PROVE  /\ \A x \in Things : cache[x] # "none" => cache'[x] # "none"
             /\ \A x \in Things : cache'[x] # "none" => things'[x] # "none"
             /\ cache["pod"] = "Running" => cache'["pod"] = "Running"
             /\ cache'["pod"] = "Running" => things'["pod"] = "Running"
             /\ cache'["pod"] # "Failed" /\ cache'["pvc"] # "Lost"
  <2>1. /\ cache[z] = "none" /\ cache' = [cache EXCEPT ![z] = New[z]]
        /\ things' = [things EXCEPT ![z] = New[z]]
    BY <1>2 DEF Make
  <2>2. New["pod"] = "waiting" /\ New["pvc"] = "Pending"
    BY DEF New, Things, Owned
  <2>3. \A x \in Things : cache'[x] = IF x = z THEN New[x] ELSE cache[x]
    BY <1>0, <2>1
  <2>4. \A x \in Things : things'[x] = IF x = z THEN New[x] ELSE things[x]
    BY <1>0, <2>1
  <2> QED
    BY <1>0, <2>1, <2>2, <2>3, <2>4, NewType DEF PodIsLast, Unhurt
<1>3. ASSUME NEW z \in Things, Sync(z)
      PROVE  /\ \A x \in Things : cache[x] # "none" => cache'[x] # "none"
             /\ \A x \in Things : cache'[x] # "none" => things'[x] # "none"
             /\ cache["pod"] = "Running" => cache'["pod"] = "Running"
             /\ cache'["pod"] = "Running" => things'["pod"] = "Running"
             /\ cache'["pod"] # "Failed" /\ cache'["pvc"] # "Lost"
  <2>1. /\ UNCHANGED things
        /\ \A x \in Things : cache'[x] = IF x = z THEN Seen(x) ELSE cache[x]
    BY <1>0, <1>3 DEF Sync, cluster
  <2>2. \A x \in Things : Seen(x) = "none" <=> things[x] = "none"
    BY DEF Seen, PhaseOf
  <2>3. /\ Seen("pod") = "Running" <=> things["pod"] = "Running"
        /\ Seen("pod") = "Failed" => things["pod"] = "Failed"
        /\ Seen("pvc") = things["pvc"]
    BY DEF Seen, PhaseOf
  <2> QED
    BY <1>0, <2>1, <2>2, <2>3 DEF PodIsLast, Unhurt
<1> QED
  BY <1>1, <1>2, <1>3, CacheSteps

\* The chain does not pass over the volume, nor over the pod.
LEMMA NotPassedOver ==
  ASSUME NEW s \in 0..6
  PROVE  /\ NextStep(s) \in (s + 1)..7
         /\ \A m \in (s + 1)..(NextStep(s) - 1) :
              Steps[m] \in Things => m # 7 /\ cache[Steps[m]] # "none"
<1>1. /\ NextStep(s) \in (s + 1)..8
      /\ \A m \in (s + 1)..(NextStep(s) - 1) : ~HasWork(Steps[m])
  BY NextStepIs
<1>2. HasWork(Steps[7])
  BY StepsAre DEF HasWork
<1>3. ~ 7 < NextStep(s)
  BY <1>1, <1>2
<1>4. \A m \in (s + 1)..(NextStep(s) - 1) :
        Steps[m] \in Things => cache[Steps[m]] # "none"
  BY <1>1 DEF HasWork, Things, Shared, Owned
<1> QED
  BY <1>1, <1>3, <1>4

\* What the reconciler may do while nothing has gone wrong.
LEMMA HealthyReconciler ==
  ASSUME TypeOK, [Next]_vars, Healthy', HealthyInv, Reconciler
  PROVE  \/ UNCHANGED worker
         \/ UpdateStatus /\ worker'.step = 0
         \/ Reconcile /\ worker'.step = NextStep(0)
         \/ \E x \in Things : cache[x] = "none" /\ worker'.step = 8
         \/ \E step \in {"builtins", "account", "role", "binding", "state", "pvc"} :
              /\ At(step)
              /\ worker'.step = NextStep(worker.step)
              /\ \/ step \in Things => cache[step] # "none"
                 \/ Make(step) /\ things[step] = "none"
         \/ /\ ManagePod /\ cache["pod"] # "none" /\ worker'.step = 8
            /\ worker'.ready = ReadyOf(cache["pod"])
<1>0. /\ Healthy /\ \A fault : ~Spend(fault)
      /\ worker \in [step : 0..8, ready : Reasons, failed : BOOLEAN]
      /\ Unhurt /\ wsCache.object \in {"absent", "present"}
  BY HealthyBefore, StepsAre DEF TypeOK, HealthyInv
<1>1. CASE Reconcile
  <2>1. \/ UNCHANGED worker
        \/ worker' = [step |-> NextStep(0), ready |-> wsCache.status.ready,
                      failed |-> FALSE]
    BY <1>0, <1>1 DEF Reconcile
  <2> QED
    BY <1>1, <2>1
<1>2. CASE UpdateStatus
  BY <1>2 DEF UpdateStatus, IdleWorker
<1>3. CASE ManageState
  <2>1. At("state") /\ Continue(worker.ready) /\ worker.ready \in Reasons
    BY <1>0, <1>3 DEF ManageState
  <2> QED
    BY <2>1, ContinueType DEF Things, Shared, Owned
<1>4. CASE ManagePVC
  <2>1. At("pvc") /\ cache["pvc"] # "none"
    BY <1>0, <1>4 DEF ManagePVC, Unhurt
  <2>2. PICK ready \in {worker.ready, "Pending"} : Continue(ready)
    BY <1>0, <1>4 DEF ManagePVC, Unhurt
  <2>3. ready \in Reasons /\ "pvc" \in Things
    BY <1>0, <2>2 DEF Reasons, Things, Owned
  <2>4. worker'.step = NextStep(worker.step)
    BY <2>1, <2>2, <2>3, ContinueType
  <2> QED
    BY <2>1, <2>4
<1>5. CASE ManagePod
  <2>1. /\ At("pod") /\ cache["pod"] # "none"
        /\ Continue(ReadyOf(cache["pod"]))
    BY <1>5 DEF ManagePod
  <2>2. ReadyOf(cache["pod"]) \in Reasons /\ "pod" \in Things
    BY DEF ReadyOf, Reasons, Things, Owned
  <2>3. worker.step = 7
    BY <1>0, <2>1, StepsAre DEF At
  <2>4. worker'.step = NextStep(7) /\ worker'.ready = ReadyOf(cache["pod"])
    BY <2>1, <2>2, <2>3, ContinueType
  <2>5. NextStep(7) = 8
    BY NextStepIs
  <2> QED
    BY <1>5, <2>1, <2>4, <2>5
<1>6. ASSUME NEW x \in Things, Make(x)
      PROVE  \/ cache[x] = "none" /\ worker'.step = 8
             \/ /\ x # "pod" /\ At(x) /\ worker'.step = NextStep(worker.step)
                /\ Make(x) /\ things[x] = "none"
  <2>1. cache[x] = "none" /\ At(x)
    BY <1>6 DEF Make
  <2>2. CASE things[x] # "none"
    BY <1>6, <2>1, <2>2, BailType DEF Make
  <2>3. CASE things[x] = "none"
    <3>1. worker.ready \in Reasons /\ "Pending" \in Reasons
      BY <1>0 DEF Reasons
    <3>2. worker'.step = NextStep(worker.step)
      BY <1>6, <2>3, <3>1, ContinueType DEF Make
    <3>3. CASE x = "pod"
      <4>1. worker.step = 7
        BY <1>0, <2>1, <3>3, StepsAre DEF At
      <4>2. NextStep(7) = 8
        BY NextStepIs
      <4> QED
        BY <2>1, <3>2, <4>1, <4>2
    <3> QED
      BY <1>6, <2>1, <2>3, <3>2, <3>3
  <2> QED
    BY <2>2, <2>3
<1>7. ASSUME NEW x \in Things, FindThing(x)
      PROVE  /\ x \in {"builtins", "account", "role", "binding"}
             /\ At(x) /\ cache[x] # "none"
             /\ worker'.step = NextStep(worker.step)
  <2>1. /\ x \in {"builtins", "account", "role", "binding"}
        /\ At(x) /\ cache[x] # "none" /\ Continue(worker.ready)
    BY <1>7 DEF FindThing, Things, Shared, Owned
  <2> QED
    BY <1>0, <2>1, ContinueType
<1>8. \A x \in Things : ~FailToMake(x)
  BY <1>0 DEF FailToMake
<1>9. CASE \E x \in Things : Make(x)
  <2>1. Things \ {"pod"} = {"builtins", "account", "role", "binding", "pvc"}
    BY DEF Things, Shared, Owned
  <2> QED
    BY <1>6, <1>9, <2>1
<1>10. CASE \E x \in Things : FindThing(x)
  BY <1>7, <1>10
<1> QED
  BY <1>1, <1>2, <1>3, <1>4, <1>5, <1>8, <1>9, <1>10 DEF Reconciler

\* A pod is made at the end of the chain only.
LEMMA PodIsMadeLast ==
  ASSUME TypeOK, [Next]_vars, Healthy', Healthy, HealthyInv, CompleteInv
  PROVE  /\ things["pod"] = "none" /\ things'["pod"] # "none" =>
              /\ worker'.step = 8
              /\ \A x \in Things : things'[x] # "none"
         /\ PodIsLast'
<1>0. /\ "pod" \in Things /\ PodIsLast /\ Unhurt
      /\ worker \in [step : 0..8, ready : Reasons, failed : BOOLEAN]
  BY StepsAre DEF Things, Owned, HealthyInv, TypeOK
<1>1. ASSUME things["pod"] = "none", things'["pod"] # "none"
      PROVE  /\ worker'.step = 8
             /\ \A x \in Things : things'[x] # "none"
  <2>1. Make("pod") /\ \A y \in Things \ {"pod"} : things'[y] = things[y]
    BY <1>0, <1>1, HealthyThingsStay
  <2>2. worker.step = 7
    BY <1>0, <2>1, StepsAre DEF Make, At
  <2>3. \A n \in 1..6 : Steps[n] \in Things \ {"pod"} => There(Steps[n])
    BY <2>2 DEF CompleteInv, ChainInv
  <2>4. {"builtins", "account", "role", "binding", "pvc"} = Things \ {"pod"}
    BY DEF Things, Shared, Owned
  <2>5. /\ There("builtins") /\ There("account") /\ There("role")
        /\ There("binding") /\ There("pvc")
    BY <2>3, <2>4, StepsAre
  <2>6. \A x \in Things \ {"pod"} : things[x] # "none"
    BY <2>4, <2>5 DEF There, Healthy
  <2>7. Continue("Pending")
    BY <1>1, <2>1 DEF Make, Owned
  <2>8. worker'.step = NextStep(7)
    BY <1>0, <2>1, <2>2, <2>7, ContinueType DEF Make, Reasons
  <2>9. NextStep(7) = 8
    BY NextStepIs
  <2> QED
    BY <1>1, <2>1, <2>6, <2>8, <2>9
<1>2. PodIsLast'
  <2>1. \A x \in Things : cache'[x] # "none" => things'[x] # "none"
    BY <1>0, HealthyCaches
  <2>2. things'["pod"] # "none" => \A x \in Things : things'[x] # "none"
    BY <1>0, <1>1, HealthyThingsStay DEF PodIsLast
  <2>3. cache'["pod"] = "Running" => things'["pod"] = "Running"
    BY <1>0, HealthyCaches
  <2> QED
    BY <2>1, <2>2, <2>3 DEF PodIsLast
<1> QED
  BY <1>1, <1>2

LEMMA PassedNext ==
  ASSUME TypeOK, [Next]_vars, Healthy', Healthy, HealthyInv, CompleteInv
  PROVE  PassedInCache'
<1> SUFFICES ASSUME worker'.step \in 1..7, things'["pod"] # "none",
                    NEW n \in 1..(worker'.step - 1), Steps[n] \in Things
             PROVE  cache'[Steps[n]] # "none"
  BY DEF PassedInCache
<1>0. /\ "pod" \in Things /\ PodIsLast /\ Unhurt /\ PassedInCache
      /\ worker \in [step : 0..8, ready : Reasons, failed : BOOLEAN]
  BY StepsAre DEF Things, Owned, HealthyInv, TypeOK
<1>1. things["pod"] # "none"
  BY PodIsMadeLast
<1>2. cache[Steps[n]] # "none" => cache'[Steps[n]] # "none"
  BY <1>0, HealthyCaches
<1>3. CASE UNCHANGED worker
  BY <1>0, <1>1, <1>2, <1>3 DEF PassedInCache
<1>4. CASE worker'.step = NextStep(0)
  BY <1>2, <1>4, NotPassedOver
<1>5. ASSUME NEW step \in {"builtins", "account", "role", "binding", "state", "pvc"},
             At(step), worker'.step = NextStep(worker.step),
             \/ step \in Things => cache[step] # "none"
             \/ Make(step) /\ things[step] = "none"
      PROVE  cache'[Steps[n]] # "none"
  <2>1. worker.step \in 1..6
    BY <1>0, <1>5, StepsAre DEF At
  <2>2. CASE n \in 1..(worker.step - 1)
    BY <1>0, <1>1, <1>2, <2>1, <2>2 DEF PassedInCache
  <2>3. CASE n = worker.step
    <3>1. Steps[n] = step
      BY <1>5, <2>3 DEF At
    <3>2. things[step] # "none"
      BY <1>0, <1>1, <3>1 DEF PodIsLast
    <3> QED
      BY <1>2, <1>5, <3>1, <3>2
  <2>4. CASE n \in (worker.step + 1)..(NextStep(worker.step) - 1)
    BY <1>2, <2>1, <2>4, NotPassedOver
  <2>5. NextStep(worker.step) \in (worker.step + 1)..7
    BY <2>1, NotPassedOver
  <2> QED
    BY <1>5, <2>1, <2>2, <2>3, <2>4, <2>5
<1>6. CASE Reconciler
  BY <1>3, <1>4, <1>5, <1>6, HealthyReconciler
<1> QED
  BY <1>3, <1>6, WorkerSteps

\* Only the reconciler writes the status.
LEMMA ReadyIsWritten ==
  ASSUME TypeOK, [Next]_vars, ~UpdateStatus
  PROVE  ws'.status = ws.status
<1>0. ws \in Workspace
  BY DEF TypeOK
<1>1. CASE UNCHANGED ws
  BY <1>1
<1>2. CASE Reconcile
  BY <1>0, <1>2 DEF Reconcile, Put, Workspace
<1>3. CASE DeleteByOther \/ CollectWorkspace \/ CreateWorkspace \/ Cleanup
  <2>1. UNCHANGED ws \/ \E o : ws' = [ws EXCEPT !.object = o]
    BY <1>3 DEF DeleteByOther, CollectWorkspace, CreateWorkspace, Cleanup, MarkDeleted, Put
  <2> QED
    BY <1>0, <2>1 DEF Workspace
<1> QED
  BY <1>1, <1>2, <1>3
     DEF Next, Reconciler, ManageState, ManagePVC, ManagePod, Make, FailToMake, FindThing,
         reading, Kubernetes, SyncWorkspace, BindVolume, StartInstaller, FinishInstaller,
         CrashInstaller, StartIdler, LosePod, LoseVolume, CollectOwned, Sync, MovePod,
         Command, WaitForReconcile, WaitForReady, WaitForContainer, GiveUp, EndStream,
         MonitorExit, FinishWaits, AwaitExit, Succeed, Fail, SetClient, vars

LEMMA RemainsNext ==
  ASSUME TypeOK, [Next]_vars, Healthy', Healthy, HealthyInv, CompleteInv
  PROVE  RemainsReady'
<1>0. /\ "pod" \in Things /\ PodIsLast /\ Unhurt /\ PassedInCache /\ RemainsReady
      /\ worker \in [step : 0..8, ready : Reasons, failed : BOOLEAN]
  BY StepsAre DEF Things, Owned, HealthyInv, TypeOK
<1>1. Settled => Settled'
  BY <1>0, HealthyCaches DEF Settled
<1>2. ManagePod /\ cache["pod"] = "Running" => Settled
  <2> SUFFICES ASSUME ManagePod, cache["pod"] = "Running" PROVE Settled
    OBVIOUS
  <2>1. worker.step = 7
    BY <1>0, StepsAre DEF ManagePod, At
  <2>2. things["pod"] # "none"
    BY <1>0 DEF PodIsLast
  <2>3. \A n \in 1..6 : Steps[n] \in Things => cache[Steps[n]] # "none"
    BY <1>0, <2>1, <2>2 DEF PassedInCache
  <2>4. Things = {"builtins", "account", "role", "binding", "pvc", "pod"}
    BY DEF Things, Shared, Owned
  <2>5. /\ cache["builtins"] # "none" /\ cache["account"] # "none"
        /\ cache["role"] # "none" /\ cache["binding"] # "none"
        /\ cache["pvc"] # "none"
    BY <2>3, <2>4, StepsAre
  <2> QED
    BY <2>4, <2>5 DEF Settled
<1>3. worker'.ready = "Ready" => Settled
  BY <1>0, <1>2, ReconcilerSteps, WorkerSteps DEF RemainsReady
<1>4. ws'.status.ready = "Ready" => Settled
  BY <1>0, StatusSteps DEF RemainsReady
<1>5. wsCache'.status.ready = "Ready" => Settled
  BY <1>0, WorkerSteps DEF SyncWorkspace, RemainsReady
<1>6. ASSUME ws'.status.ready = "Ready", worker'.step = 8
      PROVE  worker'.ready = "Ready"
  <2>1. ~UpdateStatus
    BY <1>6 DEF UpdateStatus, IdleWorker
  <2>2. ws.status.ready = "Ready" /\ Settled
    BY <1>0, <1>6, <2>1, ReadyIsWritten DEF RemainsReady
  <2>3. CASE UNCHANGED worker
    BY <1>0, <1>6, <2>2, <2>3 DEF RemainsReady
  <2>4. NextStep(0) # 8
    BY NotPassedOver
  <2>5. \A step \in {"builtins", "account", "role", "binding", "state", "pvc"} :
          At(step) => NextStep(worker.step) # 8
    <3>1. \A step \in {"builtins", "account", "role", "binding", "state", "pvc"} :
            At(step) => worker.step \in 1..6
      BY <1>0, StepsAre DEF At
    <3> QED
      BY <3>1, NotPassedOver
  <2>6. CASE ManagePod /\ worker'.ready = ReadyOf(cache["pod"])
    BY <2>2, <2>6 DEF Settled, ReadyOf
  <2> QED
    BY <1>6, <2>1, <2>2, <2>3, <2>4, <2>5, <2>6, HealthyReconciler, WorkerSteps
       DEF Settled
<1> QED
  BY <1>1, <1>3, <1>4, <1>5, <1>6 DEF RemainsReady

LEMMA HealthyNext ==
  ASSUME TypeOK, CompleteInv, HealthyInv, [Next]_vars
  PROVE  HealthyInv'
<1> SUFFICES ASSUME Healthy'
             PROVE  /\ wsCache'.object \in {"absent", "present"}
                    /\ PodIsLast' /\ Unhurt' /\ PassedInCache' /\ RemainsReady'
  BY DEF HealthyInv
<1>1. Healthy /\ PodIsLast /\ Unhurt /\ wsCache.object \in {"absent", "present"}
  BY HealthyBefore DEF HealthyInv
<1>2. wsCache'.object \in {"absent", "present"}
  <2>1. ws.object \in {"absent", "present"}
    BY <1>1 DEF Healthy, Deleted, TypeOK, Workspace, Objects
  <2> QED
    BY <1>1, <2>1, WorkerSteps DEF SyncWorkspace
<1>3. Unhurt'
  BY <1>1, HealthyThingsStay, HealthyCaches DEF Unhurt
<1> QED
  BY <1>1, <1>2, <1>3, PodIsMadeLast, PassedNext, RemainsNext

LEMMA HealthyInit == Init => HealthyInv
<1> SUFFICES ASSUME Init PROVE HealthyInv
  OBVIOUS
<1>1. /\ ws.status.ready = "none" /\ wsCache.status.ready = "none"
      /\ wsCache.object = "absent"
  <2> DEFINE status == [ready |-> "none", phase |-> ""]
  <2>1. status.ready = "none"
    OBVIOUS
  <2>2. ws \in [object : {"present", "absent"}, finalizer : {FALSE}, status : {status}]
    BY DEF Init
  <2> HIDE DEF status
  <2>3. PICK o \in {"present", "absent"} :
          ws = [object |-> o, finalizer |-> FALSE, status |-> status]
    BY <2>2
  <2>4. wsCache = [ws EXCEPT !.object = "absent"]
    BY DEF Init
  <2> QED
    BY <2>1, <2>3, <2>4
<1>2. worker.step = 0 /\ worker.ready = "none"
  BY DEF Init
<1>3. /\ cache = things /\ things["pod"] = "none" /\ things["pvc"] = "none"
  BY ProvisionAssumption DEF Init, Things, Shared, Owned
<1> QED
  BY <1>1, <1>2, <1>3
     DEF HealthyInv, PodIsLast, Unhurt, PassedInCache, RemainsReady

\* The command has seen the workspace ready.
SawReady ==
  \/ client.pc = "waiting" /\ "ready" \notin client.open
  \/ client.pc \in {"exit", "ok"}

\* What the command has come to, and what it has come to it from.
ToldInv ==
  /\ client.exit = "zero" \/ client.pc = "ok" => installed
  /\ client.pc \in {"exit", "ok"} => client.env
  /\ client.pc = "start" => "ready" \in client.open
  /\ faults = Faults /\ client.pc \in {"waiting", "exit", "ok"} => ws.object = "present"
  /\ faults = Faults /\ SawReady => ws.status.ready = "Ready"

\* A workspace that is there and ready stays so, while nothing goes wrong and the
\* command does not delete it.
LEMMA ReadyStays ==
  ASSUME TypeOK, CompleteInv, HealthyInv, [Next]_vars, faults' = Faults,
         ws.object = "present"
  PROVE  /\ Cleanup \/ ws'.object = "present"
         /\ ws'.object = "present" /\ ws.status.ready = "Ready" =>
              ws'.status.ready = "Ready"
<1>0. ws \in Workspace /\ faults = Faults /\ \A fault : ~Spend(fault)
  BY NothingSpent DEF TypeOK
<1>1. Cleanup \/ ws'.object = "present"
  <2>1. CASE UNCHANGED ws
    BY <2>1
  <2>2. CASE Reconcile \/ UpdateStatus
    BY <1>0, <2>2 DEF Reconcile, UpdateStatus, Put, Workspace
  <2>3. ~DeleteByOther /\ ~CollectWorkspace
    BY <1>0 DEF DeleteByOther, CollectWorkspace
  <2>4. CreateWorkspace => UNCHANGED ws
    BY DEF CreateWorkspace
  <2> QED
    BY <2>1, <2>2, <2>3, <2>4
       DEF Next, Reconciler, ManageState, ManagePVC, ManagePod, Make, FailToMake,
           FindThing, reading, Kubernetes, SyncWorkspace, BindVolume, StartInstaller,
           FinishInstaller, CrashInstaller, StartIdler, LosePod, LoseVolume, CollectOwned,
           Sync, MovePod, Command, WaitForReconcile, WaitForReady, WaitForContainer,
           GiveUp, EndStream, MonitorExit, FinishWaits, AwaitExit, Succeed, Fail,
           SetClient, vars
<1>2. ASSUME ws'.object = "present", ws.status.ready = "Ready"
      PROVE  ws'.status.ready = "Ready"
  <2>1. CASE UpdateStatus
    <3>1. worker.step = 8
      <4>1. worker \in [step : 0..8, ready : Reasons, failed : BOOLEAN]
        BY StepsAre DEF TypeOK
      <4> QED
        BY <2>1, <4>1, StepsAre DEF UpdateStatus, At
    <3>2. Healthy
      BY <1>0 DEF Healthy, Deleted
    <3>3. worker.ready = "Ready"
      BY <1>2, <3>1, <3>2 DEF HealthyInv, RemainsReady
    <3> QED
      BY <1>2, <3>3, StatusSteps
  <2>2. CASE ~UpdateStatus
    BY <1>2, <2>2, ReadyIsWritten
  <2> QED
    BY <2>1, <2>2
<1> QED
  BY <1>1, <1>2

\* How the command gets to where it is: it waits for a workspace that it has made,
\* and is over the wait for it to be ready only when it is.
LEMMA ToldSteps ==
  ASSUME TypeOK, CacheInv, Command
  PROVE  /\ client'.exit = "zero" => client.exit = "zero" \/ installed
         /\ client'.pc = "ok" =>
              \/ client.pc = "ok"
              \/ client.pc = "exit" /\ client.exit = "zero"
         /\ client'.pc \in {"exit", "ok"} =>
              \/ client.pc \in {"exit", "ok"} /\ (client.env => client'.env)
              \/ client.pc = "waiting" /\ client.open = {} /\ client'.env
         /\ client'.pc = "start" => client.pc = "start" /\ client'.open = client.open
         /\ client'.pc = "waiting" =>
              \/ client.pc = "waiting" /\ UNCHANGED ws
              \/ client.pc = "start" /\ ws'.object = "present"
                    /\ client'.open = client.open
         /\ client'.pc = "waiting" /\ "ready" \notin client'.open =>
              "ready" \notin client.open \/ ws.status.ready = "Ready"
         /\ Cleanup => client'.pc = "error"
<1>0. /\ client \in Client /\ ws \in Workspace
      /\ \A new : SetClient(new) => client' = new /\ UNCHANGED ws
  BY DEF TypeOK, SetClient
<1>1. Cleanup => client'.pc = "error"
  BY <1>0 DEF Cleanup, Client
<1>2. CASE client'.pc \in {"stopping", "cleanup", "error"} /\ client'.exit = "none"
  BY <1>1, <1>2
<1>3. CASE CreateWorkspace
  BY <1>0, <1>1, <1>3 DEF CreateWorkspace, Put, Client, Workspace
<1>4. Fail => client'.pc \in {"stopping", "cleanup"} /\ client'.exit = "none"
  BY <1>0 DEF Fail, SetClient, Client
<1>5. CASE WaitForReconcile \/ WaitForReady \/ GiveUp
  <2>1. \/ Fail
        \/ \E w \in {"ready", "reconciled"} :
             Succeed(w) /\ (w = "ready" => ws.status.ready = "Ready")
    BY <1>5 DEF WaitForReconcile, WaitForReady, GiveUp
  <2>2. client.pc = "waiting"
    BY <1>5 DEF WaitForReconcile, WaitForReady, GiveUp, Waiting
  <2>3. CASE \E w \in {"ready", "reconciled"} :
               Succeed(w) /\ (w = "ready" => ws.status.ready = "Ready")
    BY <1>0, <1>1, <2>2, <2>3 DEF Succeed, Client
  <2> QED
    BY <1>2, <1>4, <2>1, <2>3
<1>6. CASE WaitForContainer
  BY <1>0, <1>1, <1>6 DEF WaitForContainer, Waiting, Client
<1>7. CASE EndStream
  <2>1. \/ /\ client.pc = "waiting" /\ client'.pc = "waiting"
           /\ client'.open = client.open \ {"container"}
           /\ client'.exit = client.exit
        \/ client'.pc = "cleanup" /\ client'.exit = "none"
    BY <1>0, <1>7 DEF EndStream, SetClient, Client
  <2>2. UNCHANGED ws
    BY <1>0, <1>7 DEF EndStream
  <2> QED
    BY <1>1, <1>2, <2>1, <2>2
<1>8. CASE MonitorExit
  <2>1. PICK exit \in ExitsOf(things["pod"]) : SetClient([client EXCEPT !.exit = exit])
    BY <1>8 DEF MonitorExit
  <2>2. exit = "zero" => installed
    BY <2>1 DEF CacheInv, ExitsOf
  <2>3. client.pc \in {"waiting", "exit"}
    BY <1>8 DEF MonitorExit
  <2> QED
    BY <1>0, <1>1, <2>1, <2>2, <2>3 DEF Client
<1>9. CASE FinishWaits
  <2>1. client.pc = "waiting" /\ client.open = {}
    BY <1>9 DEF FinishWaits
  <2>2. CASE SetClient([client EXCEPT !.pc = "exit", !.env = TRUE])
    <3>1. /\ client'.pc = "exit" /\ client'.env /\ client'.exit = client.exit
      BY <1>0, <2>2 DEF SetClient, Client
    <3> QED
      BY <1>1, <2>1, <3>1
  <2>3. CASE SetClient([client EXCEPT !.pc = "cleanup", !.exit = "none"])
    <3>1. client'.pc = "cleanup" /\ client'.exit = "none"
      BY <1>0, <2>3 DEF SetClient, Client
    <3> QED
      BY <1>2, <3>1
  <2> QED
    BY <1>9, <2>2, <2>3 DEF FinishWaits
<1>10. CASE AwaitExit
  <2>1. CASE client.exit = "zero"
    <3>1. /\ client.pc = "exit" /\ client'.pc = "ok" /\ client'.exit = "none"
          /\ client.env => client'.env
      BY <1>0, <1>10, <2>1 DEF AwaitExit, SetClient, Client
    <3> QED
      BY <1>1, <2>1, <3>1
  <2>2. CASE client.exit # "zero"
    <3>1. client'.pc = "cleanup" /\ client'.exit = "none"
      BY <1>0, <1>10, <2>2 DEF AwaitExit, SetClient, Client
    <3> QED
      BY <1>2, <3>1
  <2> QED
    BY <2>1, <2>2
<1>11. CASE Cleanup
  <2>1. client'.pc = "error" /\ client'.exit = client.exit
    BY <1>0, <1>11 DEF Cleanup, Client
  <2> QED
    BY <2>1
<1> QED
  BY <1>3, <1>5, <1>6, <1>7, <1>8, <1>9, <1>10, <1>11 DEF Command

LEMMA ToldNext ==
  ASSUME TypeOK, CompleteInv, HealthyInv, ToldInv, [Next]_vars
  PROVE  ToldInv'
<1>1. installed => installed'
  BY ThingsStay
<1>2. faults' = Faults /\ ws.object = "present" =>
        /\ Cleanup \/ ws'.object = "present"
        /\ ws'.object = "present" /\ ws.status.ready = "Ready" =>
             ws'.status.ready = "Ready"
  BY ReadyStays
<1>3. faults' = Faults => faults = Faults
  BY NothingSpent
<1>4. CASE ~Command
  <2>1. UNCHANGED client /\ ~Cleanup
    BY <1>4, OthersLeaveClient DEF Command
  <2> QED
    BY <1>1, <1>2, <1>3, <2>1 DEF ToldInv, SawReady
<1>5. CASE Command
  <2>1. UNCHANGED <<installed, faults>>
    BY <1>5, CommandLeavesOperator DEF operator, cluster
  <2>2. (client.exit = "zero" \/ client.pc = "ok" => installed)'
    BY <1>5, <2>1, ToldSteps DEF ToldInv, CompleteInv
  <2>3. (client.pc \in {"exit", "ok"} => client.env)'
    BY <1>5, ToldSteps DEF ToldInv, CompleteInv
  <2>4. (client.pc = "start" => "ready" \in client.open)'
    BY <1>5, ToldSteps DEF ToldInv, CompleteInv
  <2>5. (faults = Faults /\ client.pc \in {"waiting", "exit", "ok"} =>
           ws.object = "present")'
    BY <1>2, <1>3, <1>5, ToldSteps DEF ToldInv, CompleteInv
  <2>6. (faults = Faults /\ SawReady => ws.status.ready = "Ready")'
    <3> SUFFICES ASSUME faults' = Faults, SawReady' PROVE ws'.status.ready = "Ready"
      OBVIOUS
    <3>1. ws.status.ready = "Ready" /\ client.pc \in {"waiting", "exit", "ok"}
      BY <1>3, <1>5, ToldSteps DEF ToldInv, CompleteInv, SawReady
    <3> QED
      BY <1>2, <1>3, <2>5, <3>1 DEF ToldInv, SawReady
  <2> QED
    BY <2>2, <2>3, <2>4, <2>5, <2>6 DEF ToldInv
<1> QED
  BY <1>4, <1>5

LEMMA ToldInit == Init => ToldInv
<1> SUFFICES ASSUME Init PROVE ToldInv
  OBVIOUS
<1>1. client.pc = "start" /\ "ready" \in client.open /\ client.exit = "none"
  BY DEF Init, Waits
<1> QED
  BY <1>1 DEF ToldInv, SawReady

\* "workspace new" succeeds only if terraform was installed, and then, unless
\* something has gone wrong or another user has interfered since, the workspace is
\* there and ready and was made the current one, for any caches that trail and any
\* number of failures of the installer.
THEOREM SuccessTold == Spec => []SuccessIsTold
<1> DEFINE Inv == TypeOK /\ CompleteInv /\ HealthyInv /\ ToldInv
<1>1. Init => Inv
  BY TypeInit, CompleteInit, HealthyInit, ToldInit
<1>2. Inv /\ [Next]_vars => Inv'
  BY TypeNext, CompleteNext, HealthyNext, ToldNext
<1>3. Inv => SuccessIsTold
  BY DEF ToldInv, SawReady, SuccessIsTold
<1> QED
  BY <1>1, <1>2, <1>3, PTL DEF Spec

=============================================================================
