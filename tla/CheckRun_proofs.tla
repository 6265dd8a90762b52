--------------------------- MODULE CheckRun_proofs ---------------------------
(***************************************************************************)
(* Proofs about one check run, for any number of requests and whatever     *)
(* fails; only NoNewsLost needs updates that GitHub does not refuse.       *)
(***************************************************************************)
EXTENDS CheckRun, FiniteSetTheorems, TLAPS

-----------------------------------------------------------------------------
(* At most one check run is created on GitHub.                             *)

(* A create request is under way from the moment it has been recorded in   *)
(* the check run: in the hands of the reconciler, then in those of the     *)
(* client, until GitHub has it.  (Their number is not bounded by the model *)
(* but by the record: who writes it has read that there was none.)         *)

CheckShape ==
  check \in [events: {check.events}, requested: BOOLEAN,
             iterations: {check.iterations}, status: {check.status}]

Sending    == worker.pc = "send" /\ ~worker.update.known
Requesting == \E u \in requests : ~u.known

\* What the reconciler means to send is a create request only if the check run
\* it has read is not known to GitHub and shows no record of another.
ReadBeforeSend ==
  worker.pc = "status" =>
    /\ worker.update.known = IsCreated(worker.read)
    /\ worker.send /\ ~worker.update.known => ~worker.read.requested

OneAtMost ==
  /\ github.created \in {0, 1}
  /\ Sending => ~Requesting /\ github.created = 0
  /\ Requesting => github.created = 0
  /\ \A u, v \in requests : ~u.known /\ ~v.known => u = v

NoneBefore ==
  ~check.requested => ~Sending /\ ~Requesting /\ github.created = 0

CreationInv == CheckShape /\ ReadBeforeSend /\ OneAtMost /\ NoneBefore

\* There is nothing to begin with.
LEMMA CreationInit == Init => CreationInv
BY DEF Init, CreationInv, CheckShape, ReadBeforeSend, OneAtMost, NoneBefore,
       Sending, Requesting, Idle

\* An event that is added leaves the record of the request as it is.
LEMMA AddEventStep ==
  ASSUME CreationInv, NEW event \in handlers, AddEvent(event)
  PROVE  CreationInv'
<1>1. check' = [check EXCEPT !.events = Append(@, event)]
  BY DEF AddEvent, PutCheck
<1>2. CheckShape' /\ check'.requested = check.requested
  BY <1>1 DEF CreationInv, CheckShape
<1>3. UNCHANGED <<worker, requests, github>>
  BY DEF AddEvent
<1> QED
  BY <1>2, <1>3 DEF CreationInv, ReadBeforeSend, OneAtMost, NoneBefore, Sending,
                    Requesting

\* A request to create is meant only if the cache shows no record of one.
LEMMA ReconcileStep ==
  ASSUME CreationInv, Reconcile
  PROVE  CreationInv'
<1>1. UNCHANGED <<check, requests, github>>
  BY DEF Reconcile
<1>2. PICK error \in BOOLEAN :
        worker' = [pc |-> "status", read |-> checkCache, error |-> error,
                   update |-> UpdateOf(checkCache, StatusOf(
                     runCache[CurrentIteration(checkCache)])),
                   send |-> IsCreated(checkCache) \/ ~checkCache.requested]
  BY DEF Reconcile
<1>3. worker'.update.known = IsCreated(checkCache)
  BY <1>2 DEF UpdateOf
<1>4. ReadBeforeSend'
  BY <1>2, <1>3 DEF ReadBeforeSend
<1>5. worker.pc = "idle" /\ worker'.pc = "status"
  BY <1>2 DEF Reconcile, Idle
<1> QED
  BY <1>1, <1>4, <1>5 DEF CreationInv, CheckShape, OneAtMost, NoneBefore,
                          Sending, Requesting

\* The record is written onto the version that was read, and so there is no
\* other request if there was no record.
LEMMA UpdateStatusStep ==
  ASSUME CreationInv, UpdateStatus
  PROVE  CreationInv'
<1>1. UNCHANGED <<requests, github>> /\ worker.pc = "status"
  BY DEF UpdateStatus
<1>2. CASE check # worker.read
  <2>1. worker' = Idle /\ check' = check
    BY <1>2 DEF UpdateStatus, IsLatest
  <2> QED
    BY <1>1, <2>1 DEF CreationInv, CheckShape, ReadBeforeSend, OneAtMost,
                      NoneBefore, Sending, Requesting, Idle
<1>3. CASE check = worker.read
  <2> DEFINE new == [events |-> check.events,
                     requested |-> check.requested \/ ~IsCreated(check),
                     iterations |-> SetIterationStatus(check.iterations,
                       CurrentIteration(check),
                       worker.update.status = "completed"),
                     status |-> worker.update.status]
  <2>1. check' = new
    BY <1>3 DEF UpdateStatus, IsLatest, PutCheck
  <2>2. CheckShape' /\ (check.requested => check'.requested)
    BY <2>1 DEF CreationInv, CheckShape
  <2>3. worker'.pc # "status"
    BY <1>3 DEF UpdateStatus, IsLatest, Idle
  <2>4. CASE Sending'
    <3>1. worker.send /\ worker'.update = worker.update
      BY <1>3, <2>4 DEF UpdateStatus, IsLatest, Sending, Idle
    <3>2. ~check.requested
      BY <1>1, <1>3, <2>4, <3>1 DEF CreationInv, ReadBeforeSend, Sending
    <3>3. ~Requesting /\ github.created = 0
      BY <3>2 DEF CreationInv, NoneBefore
    <3>4. check'.requested
      BY <1>1, <1>3, <2>1, <2>4, <3>1 DEF CreationInv, ReadBeforeSend, Sending
    <3> QED
      BY <1>1, <2>2, <2>3, <3>3, <3>4
         DEF CreationInv, ReadBeforeSend, OneAtMost, NoneBefore, Requesting
  <2>5. CASE ~Sending'
    BY <1>1, <2>2, <2>3, <2>5
       DEF CreationInv, ReadBeforeSend, OneAtMost, NoneBefore, Sending, Requesting
  <2> QED
    BY <2>4, <2>5
<1> QED
  BY <1>2, <1>3

\* The client takes the request out of the hands of the reconciler.
LEMMA SendUpdateStep ==
  ASSUME CreationInv, SendUpdate
  PROVE  CreationInv'
<1>1. UNCHANGED <<check, github>> /\ worker.pc = "send" /\ requests = {}
  BY DEF SendUpdate, Accepts
<1>2. requests' = {worker.update} /\ worker' = Idle
  BY <1>1 DEF SendUpdate
<1>3. Requesting' => Sending
  BY <1>1, <1>2 DEF Requesting, Sending
<1> QED
  BY <1>1, <1>2, <1>3 DEF CreationInv, CheckShape, ReadBeforeSend, OneAtMost,
                          NoneBefore, Sending, Idle

\* A create request was the only one, and GitHub had no check run.
LEMMA InvokeStep ==
  ASSUME CreationInv, NEW update \in requests, Invoke(update)
  PROVE  CreationInv'
<1>1. UNCHANGED <<check, worker>> /\ requests' = requests \ {update}
  BY DEF Invoke
<1>2. CASE github' = github
  BY <1>1, <1>2 DEF CreationInv, CheckShape, ReadBeforeSend, OneAtMost,
                    NoneBefore, Sending, Requesting
<1>3. CASE github'.created = github.created + (IF update.known THEN 0 ELSE 1)
  <2>1. CASE update.known
    BY <1>1, <1>3, <2>1 DEF CreationInv, CheckShape, ReadBeforeSend, OneAtMost,
                            NoneBefore, Sending, Requesting
  <2>2. CASE ~update.known
    <3>1. Requesting /\ github.created = 0 /\ ~Sending /\ check.requested
      BY <2>2 DEF CreationInv, OneAtMost, NoneBefore, Requesting
    <3>2. ~Requesting'
      BY <1>1, <2>2 DEF CreationInv, OneAtMost, Requesting
    <3>3. github'.created = 1
      BY <1>3, <2>2, <3>1
    <3> QED
      BY <1>1, <3>1, <3>2, <3>3 DEF CreationInv, CheckShape, ReadBeforeSend,
                                    OneAtMost, NoneBefore, Sending, Requesting
  <2> QED
    BY <2>1, <2>2
<1> QED
  BY <1>2, <1>3 DEF Invoke

\* A crash takes what is under way, and leaves the record.
LEMMA CrashStep ==
  ASSUME CreationInv, Crash
  PROVE  CreationInv'
<1>1. UNCHANGED <<check, github>> /\ worker' = Idle /\ requests' = {}
  BY DEF Crash
<1> QED
  BY <1>1 DEF CreationInv, CheckShape, ReadBeforeSend, OneAtMost, NoneBefore,
              Sending, Requesting, Idle

\* The invariant depends on four variables, and most steps leave them alone.
LEMMA OtherStep ==
  ASSUME CreationInv,
         \/ Watch \/ GitHub \/ Operator \/ UNCHANGED vars
  PROVE  CreationInv'
<1>1. UNCHANGED <<check, worker, requests>> /\ github'.created = github.created
  BY DEF Watch, SyncCheck, SyncRuns, SyncSuite, GitHub, Deliver, Ask, Operator,
         MoveRun, vars
<1> QED
  BY <1>1 DEF CreationInv, CheckShape, ReadBeforeSend, OneAtMost, NoneBefore,
              Sending, Requesting

\* At most one check run is created on GitHub, whatever the reconciler reads
\* from its cache, however long it waits for the client, whatever fails, and
\* although the app may crash between the record of a request and the request.
THEOREM CreatesOnce == Spec => []OneCheckRunOnGitHub
<1>1. CreationInv /\ [Next]_vars => CreationInv'
  <2> SUFFICES ASSUME CreationInv, [Next]_vars PROVE CreationInv'
    OBVIOUS
  <2>1. CASE \E event \in handlers : AddEvent(event)
    BY <2>1, AddEventStep
  <2>2. CASE Reconcile
    BY <2>2, ReconcileStep
  <2>3. CASE UpdateStatus
    BY <2>3, UpdateStatusStep
  <2>4. CASE SendUpdate
    BY <2>4, SendUpdateStep
  <2>5. CASE \E update \in requests : Invoke(update)
    BY <2>5, InvokeStep
  <2>6. CASE Crash
    BY <2>6, CrashStep
  <2>7. CASE Watch \/ GitHub \/ Operator \/ UNCHANGED vars
    BY <2>7, OtherStep
  <2> QED
    BY <2>1, <2>2, <2>3, <2>4, <2>5, <2>6, <2>7 DEF Next, App
<1>2. CreationInv => OneCheckRunOnGitHub
  BY DEF CreationInv, OneAtMost, OneCheckRunOnGitHub
<1> QED
  BY CreationInit, <1>1, <1>2, PTL DEF Spec

-----------------------------------------------------------------------------
(* Counting.  The iteration of a check run is the number of its events that *)
(* ask for a run; that of an event is their number up to it.               *)

AsksUpTo(events, n) == {m \in 1..n : events[m] \in Asks}
Count(events, n)    == Cardinality(AsksUpTo(events, n))

\* A check run's events once were those of an earlier version of it.
Precedes(earlier, events) ==
  /\ Len(earlier) <= Len(events)
  /\ \A n \in 1..Len(earlier) : earlier[n] = events[n]

LEMMA CountType ==
  ASSUME NEW events, NEW n \in Nat
  PROVE  IsFiniteSet(AsksUpTo(events, n)) /\ Count(events, n) \in 0..n
<1>1. IsFiniteSet(1..n) /\ Cardinality(1..n) = n
  BY FS_Interval
<1>2. AsksUpTo(events, n) \in SUBSET (1..n)
  BY DEF AsksUpTo
<1>3. IsFiniteSet(AsksUpTo(events, n)) /\ Count(events, n) <= n
  BY <1>1, <1>2, FS_Subset DEF Count
<1> QED
  BY <1>3, FS_CardinalityType DEF Count

\* The iteration of a check run is that of its last event.
LEMMA IterationIsCount ==
  ASSUME NEW cr, cr.events \in Seq(Events)
  PROVE  /\ CurrentIteration(cr) = Count(cr.events, Len(cr.events))
         /\ CurrentIteration(cr) \in Nat
<1>1. DOMAIN cr.events = 1..Len(cr.events) /\ Len(cr.events) \in Nat
  OBVIOUS
<1>2. CurrentIteration(cr) = Count(cr.events, Len(cr.events))
  BY <1>1 DEF CurrentIteration, Count, AsksUpTo
<1>3. Count(cr.events, Len(cr.events)) \in 0..Len(cr.events)
  BY <1>1, CountType
<1> QED
  BY <1>1, <1>2, <1>3

LEMMA CountNext ==
  ASSUME NEW events, NEW n \in Nat
  PROVE  Count(events, n + 1) =
           IF events[n + 1] \in Asks THEN Count(events, n) + 1
                                     ELSE Count(events, n)
<1>1. CASE events[n + 1] \in Asks
  <2>1. AsksUpTo(events, n + 1) = AsksUpTo(events, n) \cup {n + 1}
    BY <1>1 DEF AsksUpTo
  <2>2. n + 1 \notin AsksUpTo(events, n)
    BY DEF AsksUpTo
  <2> QED
    BY <1>1, <2>1, <2>2, CountType, FS_AddElement DEF Count
<1>2. CASE events[n + 1] \notin Asks
  <2>1. AsksUpTo(events, n + 1) = AsksUpTo(events, n)
    BY <1>2 DEF AsksUpTo
  <2> QED
    BY <1>2, <2>1 DEF Count
<1> QED
  BY <1>1, <1>2

\* What comes later changes no count.
LEMMA CountSame ==
  ASSUME NEW earlier, NEW events, NEW n,
         \A m \in 1..n : earlier[m] = events[m]
  PROVE  Count(earlier, n) = Count(events, n)
BY DEF Count, AsksUpTo

LEMMA CountMonotone ==
  ASSUME NEW events, NEW n \in Nat, NEW k \in Nat, n <= k
  PROVE  Count(events, n) <= Count(events, k)
<1>1. AsksUpTo(events, n) \in SUBSET AsksUpTo(events, k)
  BY DEF AsksUpTo
<1> QED
  BY <1>1, CountType, FS_Subset DEF Count

\* An event that asks begins an iteration of its own.
LEMMA CountAsk ==
  ASSUME NEW events, NEW n \in Nat, NEW k \in Nat, n < k, events[k] \in Asks
  PROVE  Count(events, n) < Count(events, k)
<1>1. k - 1 \in Nat /\ n <= k - 1 /\ (k - 1) + 1 = k
  OBVIOUS
<1>2. Count(events, n) <= Count(events, k - 1)
  BY <1>1, CountMonotone
<1>3. Count(events, k) = Count(events, k - 1) + 1
  BY <1>1, CountNext
<1> QED
  BY <1>1, <1>2, <1>3, CountType

\* An earlier version is in no later iteration.
LEMMA EarlierIteration ==
  ASSUME NEW cr, cr.events \in Seq(Events),
         NEW old, old.events \in Seq(Events), Precedes(old.events, cr.events)
  PROVE  /\ CurrentIteration(old) = Count(cr.events, Len(old.events))
         /\ CurrentIteration(old) <= CurrentIteration(cr)
<1>1. Len(old.events) \in Nat /\ Len(cr.events) \in Nat
  OBVIOUS
<1>2. Count(old.events, Len(old.events)) = Count(cr.events, Len(old.events))
  BY CountSame DEF Precedes
<1>3. Count(cr.events, Len(old.events)) <= Count(cr.events, Len(cr.events))
  BY <1>1, CountMonotone DEF Precedes
<1> QED
  BY <1>2, <1>3, IterationIsCount

-----------------------------------------------------------------------------
(* Types.  That there are no more iterations than requests holds because   *)
(* each request is one webhook, then one handler, then one event.          *)

AskingHooks == {hook \in webhooks : hook.event \in Asks}
Pending     == Cardinality(AskingHooks) + Cardinality(handlers \cap Asks)

TypeInv == /\ TypeOK
           /\ IsFiniteSet(webhooks)
           /\ Precedes(checkCache.events, check.events)
           /\ CurrentIteration(check) + Pending <= asked

LEMMA PendingType ==
  ASSUME TypeInv
  PROVE  /\ IsFiniteSet(AskingHooks) /\ Cardinality(AskingHooks) \in Nat
         /\ IsFiniteSet(handlers \cap Asks)
         /\ Cardinality(handlers \cap Asks) \in Nat
<1>1. IsFiniteSet(AskingHooks)
  BY FS_Subset DEF TypeInv, AskingHooks
<1>2. IsFiniteSet(Asks)
  <2>1. Asks = {"plan"} \cup {"apply"}
    BY DEF Asks
  <2>2. IsFiniteSet({"plan"})
    BY FS_Singleton
  <2> QED
    BY <2>1, <2>2, FS_AddElement
<1>3. IsFiniteSet(handlers \cap Asks)
  BY <1>2, FS_Intersection
<1> QED
  BY <1>1, <1>3, FS_CardinalityType

\* Each iteration, the cache's too, has its place among the runs.
LEMMA IterationType ==
  ASSUME TypeInv
  PROVE  /\ CurrentIteration(check) \in Iterations
         /\ CurrentIteration(checkCache) \in Iterations
         /\ CurrentIteration(checkCache) <= CurrentIteration(check)
<1>1. /\ CurrentIteration(check) \in Nat
      /\ CurrentIteration(checkCache) \in Nat
  BY IterationIsCount DEF TypeInv, TypeOK, Check
<1>2. CurrentIteration(checkCache) <= CurrentIteration(check)
  BY EarlierIteration DEF TypeInv, TypeOK, Check
<1>3. CurrentIteration(check) <= asked /\ asked \in 0..MaxRequests
  BY <1>1, PendingType DEF TypeInv, TypeOK, Iterations, Pending
<1> QED
  BY <1>1, <1>2, <1>3, CheckRunAssumption DEF Iterations

LEMMA WorkerType ==
  ASSUME TypeOK
  PROVE  /\ worker.pc \in {"idle", "status", "send"}
         /\ worker.pc = "idle" <=> worker = Idle
         /\ worker.pc = "status" =>
              /\ worker \in [pc: {"status"}, read: Check, update: Update,
                             send: BOOLEAN, error: BOOLEAN]
              /\ worker.read \in Check
              /\ worker.send \in BOOLEAN
         /\ worker.pc # "idle" =>
              worker.update \in Update /\ worker.error \in BOOLEAN
BY DEF TypeOK, Worker, Idle

LEMMA SetIterationStatusType ==
  ASSUME NEW iterations \in Seq(BOOLEAN), NEW i \in Nat,
         NEW completed \in BOOLEAN
  PROVE  /\ SetIterationStatus(iterations, i, completed) \in Seq(BOOLEAN)
         /\ Len(SetIterationStatus(iterations, i, completed)) = i + 1
<1>1. SetIterationStatus(iterations, i, completed) \in [1..(i + 1) -> BOOLEAN]
  <2> SUFFICES ASSUME NEW n \in 1..(i + 1)
               PROVE (IF n = i + 1 THEN completed
                      ELSE n <= Len(iterations) /\ iterations[n]) \in BOOLEAN
    BY DEF SetIterationStatus
  <2> QED
    OBVIOUS
<1>2. SetIterationStatus(iterations, i, completed) \in Seq(BOOLEAN)
  BY <1>1
<1> QED
  BY <1>1, <1>2

LEMMA TypeInit == Init => TypeInv
<1> SUFFICES ASSUME Init PROVE TypeInv
  OBVIOUS
<1>1. TypeOK
  <2>1. check \in Check /\ checkCache \in Check
    BY DEF Init, Check, Statuses
  <2>2. runs \in [Iterations -> Run] /\ runCache \in [Iterations -> States]
    BY DEF Init, Run, NoRun, RunsNow, States, Commands
  <2> QED
    BY <2>1, <2>2, CheckRunAssumption DEF Init, TypeOK, Worker, Iterations
<1>2. check.events = <<>> /\ checkCache.events = <<>>
  BY DEF Init
<1>3. Precedes(checkCache.events, check.events)
  BY <1>2 DEF Precedes
<1>4. CurrentIteration(check) = 0
  <2>1. AsksUpTo(<<>>, 0) = {} /\ Len(<<>>) = 0
    BY DEF AsksUpTo
  <2> QED
    BY <1>1, <1>2, <2>1, IterationIsCount, FS_EmptySet
       DEF Count, TypeOK, Check
<1>5. AskingHooks = {} /\ handlers \cap Asks = {}
  BY DEF Init, AskingHooks
<1>6. Pending = 0
  BY <1>5, FS_EmptySet DEF Pending
<1> QED
  BY <1>1, <1>3, <1>4, <1>6, FS_EmptySet DEF Init, TypeInv

\* A step that adds no request and no event keeps the bound.
LEMMA FewerPending ==
  ASSUME TypeInv, UNCHANGED <<webhooks, asked>>, check'.events = check.events,
         check'.events \in Seq(Events), handlers' \subseteq handlers
  PROVE  /\ IsFiniteSet(webhooks')
         /\ CurrentIteration(check') + Pending' <= asked'
<1>1. AskingHooks' = AskingHooks
  BY DEF AskingHooks
<1>2. (handlers \cap Asks)' \in SUBSET (handlers \cap Asks)
  OBVIOUS
<1>3. /\ Cardinality((handlers \cap Asks)') \in Nat
      /\ Cardinality((handlers \cap Asks)') <= Cardinality(handlers \cap Asks)
  BY <1>2, PendingType, FS_Subset, FS_CardinalityType
<1>4. CurrentIteration(check') = CurrentIteration(check)
  BY DEF CurrentIteration
<1>5. CurrentIteration(check) \in Nat /\ asked \in Nat
  BY IterationType, CheckRunAssumption DEF Iterations, TypeInv, TypeOK
<1> QED
  BY <1>1, <1>3, <1>4, <1>5, PendingType DEF TypeInv, Pending

LEMMA PrecedesItself ==
  ASSUME NEW events \in Seq(Events)
  PROVE  Precedes(events, events)
BY DEF Precedes

LEMMA TypeWatch ==
  ASSUME TypeInv, Watch
  PROVE  TypeInv'
<1>1. UNCHANGED <<check, runs, worker, requests, github, webhooks, handlers,
                  asked, crashed>>
  BY DEF Watch, SyncCheck, SyncRuns, SyncSuite
<1>2. checkCache' \in {check, checkCache} /\ todo' = TRUE
  BY DEF Watch, SyncCheck, SyncRuns, SyncSuite
<1>3. runCache' \in {runCache, RunsNow}
  BY DEF Watch, SyncCheck, SyncRuns, SyncSuite
<1>4. RunsNow \in [Iterations -> States]
  BY DEF TypeInv, TypeOK, RunsNow, Run
<1>5. TypeOK'
  BY <1>1, <1>2, <1>3, <1>4 DEF TypeInv, TypeOK
<1>6. Precedes(checkCache.events, check.events)'
  BY <1>1, <1>2, PrecedesItself DEF TypeInv, TypeOK, Check
<1> QED
  BY <1>1, <1>5, <1>6, FewerPending DEF TypeInv, TypeOK, Check

\* What the reconciler means to send.
LEMMA UpdateType ==
  ASSUME NEW cr \in Check, CurrentIteration(cr) \in Iterations,
         NEW status \in Statuses
  PROVE  UpdateOf(cr, status) \in Update
<1>1. IsCreated(cr) \in BOOLEAN
  BY DEF IsCreated
<1>2. (status = "completed" /\ Command(cr) = "plan") \in BOOLEAN
  OBVIOUS
<1> QED
  BY <1>1, <1>2 DEF UpdateOf, Update

LEMMA TypeReconcile ==
  ASSUME TypeInv, Reconcile
  PROVE  TypeInv'
<1> DEFINE i == CurrentIteration(checkCache)
<1>1. UNCHANGED <<check, checkCache, runCache, requests, github, webhooks,
                  handlers, asked, crashed>> /\ todo' = FALSE
  BY DEF Reconcile
<1>2. PICK error \in BOOLEAN :
        /\ IF runCache[i] = "absent"
           THEN CreateRunResources(i, Command(checkCache), error)
           ELSE UNCHANGED runs
        /\ worker' = [pc |-> "status", read |-> checkCache, error |-> error,
                      update |-> UpdateOf(checkCache, StatusOf(runCache[i])),
                      send |-> IsCreated(checkCache) \/ ~checkCache.requested]
  BY DEF Reconcile
<1>3. i \in Iterations
  BY IterationType
<1>4. runs' \in [Iterations -> Run]
  <2>1. [state |-> "queued", command |-> Command(checkCache)] \in Run
    BY DEF Run, States, Statuses, Commands, Command
  <2>2. runs' \in {runs, [runs EXCEPT ![i] = [state |-> "queued",
                                              command |-> Command(checkCache)]]}
    BY <1>2 DEF CreateRunResources
  <2> QED
    BY <1>3, <2>1, <2>2 DEF TypeInv, TypeOK
<1>5. StatusOf(runCache[i]) \in Statuses
  BY <1>3 DEF TypeInv, TypeOK, StatusOf, States, Statuses
<1>6. worker' \in Worker
  <2>1. UpdateOf(checkCache, StatusOf(runCache[i])) \in Update
    BY <1>3, <1>5, UpdateType DEF TypeInv, TypeOK
  <2>2. (IsCreated(checkCache) \/ ~checkCache.requested) \in BOOLEAN
    OBVIOUS
  <2> QED
    BY <1>2, <2>1, <2>2 DEF Worker, TypeInv, TypeOK
<1>7. TypeOK'
  BY <1>1, <1>4, <1>6 DEF TypeInv, TypeOK
<1> QED
  BY <1>1, <1>7, FewerPending DEF TypeInv, TypeOK, Check

LEMMA TypeUpdateStatus ==
  ASSUME TypeInv, UpdateStatus
  PROVE  TypeInv'
<1>1. UNCHANGED <<runs, checkCache, runCache, requests, github, webhooks,
                  asked, crashed>> /\ worker.pc = "status"
  BY DEF UpdateStatus
<1>2. worker.update \in Update /\ worker.error \in BOOLEAN /\ worker.read \in Check
  BY <1>1, WorkerType DEF TypeInv
<1>3. check' \in Check /\ check'.events = check.events
  <2> DEFINE read == worker.read
             new == [events |-> read.events,
                     requested |-> read.requested \/ ~IsCreated(read),
                     iterations |-> SetIterationStatus(read.iterations,
                       CurrentIteration(read),
                       worker.update.status = "completed"),
                     status |-> worker.update.status]
  <2>1. check' = check \/ (check' = new /\ read = check)
    BY DEF UpdateStatus, PutCheck, IsLatest
  <2>2. ASSUME read = check PROVE new \in Check
    <3>1. CurrentIteration(read) \in Nat
      BY <1>2, IterationIsCount DEF Check
    <3>2. new.iterations \in Seq(BOOLEAN)
      BY <1>2, <3>1, SetIterationStatusType DEF Check
    <3>3. new.requested \in BOOLEAN
      OBVIOUS
    <3> QED
      BY <1>2, <3>2, <3>3 DEF Check, Update
  <2> QED
    BY <2>1, <2>2 DEF TypeInv, TypeOK
<1>4. handlers' \subseteq handlers /\ todo' \in BOOLEAN
  BY DEF UpdateStatus, PutCheck, TypeInv, TypeOK
<1>5. worker' \in Worker
  BY <1>2 DEF UpdateStatus, Worker
<1>6. TypeOK'
  BY <1>1, <1>3, <1>4, <1>5 DEF TypeInv, TypeOK
<1>7. Precedes(checkCache.events, check.events)'
  BY <1>1, <1>3 DEF TypeInv
<1> QED
  BY <1>1, <1>3, <1>4, <1>6, <1>7, FewerPending DEF TypeInv, Check

LEMMA TypeSendUpdate ==
  ASSUME TypeInv, SendUpdate
  PROVE  TypeInv'
<1>1. UNCHANGED <<check, runs, checkCache, runCache, github, webhooks, handlers,
                  asked, crashed>> /\ worker.pc = "send"
  BY DEF SendUpdate
<1>2. worker.update \in Update /\ worker.error \in BOOLEAN
  BY <1>1, WorkerType DEF TypeInv
<1>3. requests' \subseteq Update /\ worker' \in Worker /\ todo' \in BOOLEAN
  BY <1>2 DEF SendUpdate, TypeInv, TypeOK, Worker
<1>4. TypeOK'
  BY <1>1, <1>3 DEF TypeInv, TypeOK
<1> QED
  BY <1>1, <1>4, FewerPending DEF TypeInv, TypeOK, Check

\* GitHub sends two hooks at most, and neither is a request.
LEMMA TypeInvoke ==
  ASSUME TypeInv, NEW update \in requests, Invoke(update)
  PROVE  TypeInv'
<1>1. UNCHANGED <<check, runs, checkCache, runCache, todo, worker, handlers,
                  asked, crashed>> /\ requests' = requests \ {update}
  BY DEF Invoke
<1>2. update \in Update
  BY DEF TypeInv, TypeOK
<1> DEFINE created   == github.created + (IF update.known THEN 0 ELSE 1)
           creation  == [event |-> "created", number |-> created]
           conclusion == [event |-> "completed", number |-> update.iteration]
<1>3. \/ UNCHANGED <<github, webhooks>>
      \/ /\ github' = [created |-> created, shown |-> update]
         /\ webhooks \subseteq webhooks'
         /\ webhooks' \subseteq (webhooks \cup {creation}) \cup {conclusion}
  BY DEF Invoke
<1>4. created \in Nat /\ update.iteration \in Nat
  BY <1>2, CheckRunAssumption DEF TypeInv, TypeOK, Update, Iterations
<1>5. creation \in Webhooks /\ conclusion \in Webhooks
  BY <1>4 DEF Webhooks, Events
<1>6. TypeOK'
  BY <1>1, <1>2, <1>3, <1>4, <1>5 DEF TypeInv, TypeOK
<1>7. IsFiniteSet(webhooks')
  <2>1. IsFiniteSet((webhooks \cup {creation}) \cup {conclusion})
    BY FS_AddElement DEF TypeInv
  <2> QED
    BY <1>3, <2>1, FS_Subset DEF TypeInv
<1>8. AskingHooks' = AskingHooks
  BY <1>3 DEF AskingHooks, Asks
<1> QED
  BY <1>1, <1>6, <1>7, <1>8 DEF TypeInv, Pending, CurrentIteration

\* A hook becomes a handler, whose event may be one that awaits its turn.
LEMMA TypeDeliver ==
  ASSUME TypeInv, NEW hook \in webhooks, Deliver(hook)
  PROVE  TypeInv'
<1>1. /\ UNCHANGED <<check, runs, checkCache, runCache, todo, worker, requests,
                     github, asked, crashed>>
      /\ webhooks' = webhooks \ {hook}
      /\ handlers' = handlers \cup {hook.event}
  BY DEF Deliver
<1>2. TypeOK'
  BY <1>1 DEF TypeInv, TypeOK, Webhooks
<1>3. IsFiniteSet(webhooks')
  BY <1>1, FS_RemoveElement DEF TypeInv
<1>4. Pending' <= Pending /\ Pending' \in Nat /\ Pending \in Nat
  <2>1. CASE hook.event \in Asks
    <3>1. /\ AskingHooks' = AskingHooks \ {hook}
          /\ hook \in AskingHooks
          /\ (handlers \cap Asks)' = (handlers \cap Asks) \cup {hook.event}
      BY <1>1, <2>1 DEF AskingHooks
    <3>2. Cardinality(AskingHooks') = Cardinality(AskingHooks) - 1
      BY <3>1, PendingType, FS_RemoveElement
    <3>3. /\ Cardinality((handlers \cap Asks)')
               \in {Cardinality(handlers \cap Asks),
                    Cardinality(handlers \cap Asks) + 1}
      BY <3>1, PendingType, FS_AddElement
    <3>4. Cardinality(AskingHooks') \in Nat
      BY <3>1, PendingType, FS_RemoveElement, FS_CardinalityType
    <3> QED
      BY <3>2, <3>3, <3>4, PendingType DEF Pending
  <2>2. CASE hook.event \notin Asks
    <3>1. /\ AskingHooks' = AskingHooks
          /\ (handlers \cap Asks)' = handlers \cap Asks
      BY <1>1, <2>2 DEF AskingHooks
    <3> QED
      BY <3>1, PendingType DEF Pending
  <2> QED
    BY <2>1, <2>2
<1>5. CurrentIteration(check') = CurrentIteration(check) /\ asked' = asked
  BY <1>1 DEF CurrentIteration
<1> QED
  BY <1>1, <1>2, <1>3, <1>4, <1>5, IterationType, CheckRunAssumption
     DEF TypeInv, TypeOK, Iterations

\* An event that is appended begins an iteration if it asks for one.
LEMMA AppendIteration ==
  ASSUME NEW cr, cr.events \in Seq(Events), NEW event \in Events,
         NEW new, new.events = Append(cr.events, event)
  PROVE  /\ new.events \in Seq(Events)
         /\ Precedes(cr.events, new.events)
         /\ CurrentIteration(new) = IF event \in Asks
                                    THEN CurrentIteration(cr) + 1
                                    ELSE CurrentIteration(cr)
<1>1. /\ new.events \in Seq(Events) /\ Len(cr.events) \in Nat
      /\ Len(new.events) = Len(cr.events) + 1
      /\ new.events[Len(cr.events) + 1] = event
      /\ \A n \in 1..Len(cr.events) : cr.events[n] = new.events[n]
  OBVIOUS
<1>2. Precedes(cr.events, new.events)
  BY <1>1 DEF Precedes
<1>3. Count(new.events, Len(cr.events)) = CurrentIteration(cr)
  BY <1>1, <1>2, EarlierIteration
<1>4. CurrentIteration(new) = Count(new.events, Len(cr.events) + 1)
  BY <1>1, IterationIsCount
<1> QED
  BY <1>1, <1>2, <1>3, <1>4, CountNext

\* The other handlers have read what is now out of date: they are gone.
LEMMA AddedEvent ==
  ASSUME TypeInv, NEW event \in handlers, AddEvent(event)
  PROVE  /\ check' = [check EXCEPT !.events = Append(@, event)]
         /\ check' \in Check
         /\ check'.events = Append(check.events, event)
         /\ handlers' = {}
         /\ Precedes(check.events, check'.events)
<1>1. event \in Events /\ check \in Check
  BY DEF TypeInv, TypeOK
<1>2. check' = [check EXCEPT !.events = Append(@, event)]
  BY DEF AddEvent, PutCheck
<1>3. check'.events = Append(check.events, event) /\ check' \in Check
  <2>1. Append(check.events, event) \in Seq(Events)
    BY <1>1 DEF Check
  <2> QED
    BY <1>1, <1>2, <2>1 DEF Check
<1>4. Len(check'.events) = Len(check.events) + 1 /\ Len(check.events) \in Nat
  BY <1>1, <1>3 DEF Check
<1>5. check' # check
  BY <1>4
<1>6. handlers' = {}
  BY <1>2, <1>5 DEF AddEvent, PutCheck
<1>7. Precedes(check.events, check'.events)
  BY <1>1, <1>3, AppendIteration DEF Check
<1> QED
  BY <1>2, <1>3, <1>6, <1>7

LEMMA PrecedesTransitive ==
  ASSUME NEW r \in Seq(Events), NEW s \in Seq(Events), NEW t \in Seq(Events),
         Precedes(r, s), Precedes(s, t)
  PROVE  Precedes(r, t)
BY DEF Precedes

LEMMA TypeAddEvent ==
  ASSUME TypeInv, NEW event \in handlers, AddEvent(event)
  PROVE  TypeInv'
<1>1. UNCHANGED <<runs, checkCache, runCache, todo, worker, requests, github,
                  webhooks, asked, crashed>>
  BY DEF AddEvent
<1>2. /\ check' \in Check /\ check'.events = Append(check.events, event)
      /\ handlers' = {} /\ Precedes(check.events, check'.events)
  BY AddedEvent
<1>3. event \in Events /\ check.events \in Seq(Events)
      /\ checkCache.events \in Seq(Events)
  BY DEF TypeInv, TypeOK, Check
<1>4. TypeOK'
  BY <1>1, <1>2 DEF TypeInv, TypeOK
<1>5. Precedes(checkCache.events, check.events)'
  BY <1>1, <1>2, <1>3, PrecedesTransitive DEF TypeInv, Check
<1>6. CurrentIteration(check') + Pending' <= asked
  <2>1. (handlers \cap Asks)' = {} /\ AskingHooks' = AskingHooks
    BY <1>1, <1>2 DEF AskingHooks
  <2>2. Pending' = Cardinality(AskingHooks)
    BY <2>1, PendingType, FS_EmptySet DEF Pending
  <2>3. CurrentIteration(check') = IF event \in Asks
                                   THEN CurrentIteration(check) + 1
                                   ELSE CurrentIteration(check)
    BY <1>2, <1>3, AppendIteration
  <2>4. event \in Asks => Cardinality(handlers \cap Asks) > 0
    BY PendingType, FS_EmptySet
  <2>5. CurrentIteration(check) \in Nat /\ asked \in Nat
    BY IterationType, CheckRunAssumption DEF Iterations, TypeInv, TypeOK
  <2> QED
    BY <2>2, <2>3, <2>4, <2>5, PendingType DEF TypeInv, Pending
<1> QED
  BY <1>1, <1>4, <1>5, <1>6 DEF TypeInv

LEMMA TypeAsk ==
  ASSUME TypeInv, NEW event \in Asks, Ask(event)
  PROVE  TypeInv'
<1> DEFINE hook == [event |-> event, number |-> asked + 1]
<1>1. /\ UNCHANGED <<check, runs, checkCache, runCache, todo, worker, requests,
                     github, handlers, crashed>>
      /\ asked < MaxRequests /\ asked' = asked + 1
      /\ webhooks' = webhooks \cup {hook}
  BY DEF Ask
<1>2. asked \in Nat /\ asked' \in Iterations
  BY <1>1, CheckRunAssumption DEF TypeInv, TypeOK, Iterations
<1>3. hook \in Webhooks
  BY <1>2 DEF Webhooks, Events
<1>4. TypeOK'
  BY <1>1, <1>2, <1>3 DEF TypeInv, TypeOK
<1>5. IsFiniteSet(webhooks')
  BY <1>1, FS_AddElement DEF TypeInv
<1>6. /\ Cardinality(AskingHooks') \in
           {Cardinality(AskingHooks), Cardinality(AskingHooks) + 1}
      /\ (handlers \cap Asks)' = handlers \cap Asks
  <2>1. AskingHooks' = AskingHooks \cup {hook}
    BY <1>1 DEF AskingHooks
  <2> QED
    BY <1>1, <2>1, PendingType, FS_AddElement
<1>7. CurrentIteration(check') = CurrentIteration(check)
      /\ CurrentIteration(check) \in Nat
  BY <1>1, IterationType, CheckRunAssumption DEF CurrentIteration, Iterations
<1>8. CurrentIteration(check') + Pending' <= asked'
  BY <1>1, <1>2, <1>6, <1>7, PendingType DEF TypeInv, Pending
<1> QED
  BY <1>1, <1>4, <1>5, <1>8 DEF TypeInv

LEMMA TypeMoveRun ==
  ASSUME TypeInv, NEW i \in Iterations, MoveRun(i)
  PROVE  TypeInv'
<1>1. UNCHANGED <<check, checkCache, runCache, todo, worker, requests, github,
                  webhooks, handlers, asked, crashed>>
  BY DEF MoveRun
<1>2. PICK state \in Statuses : runs' = [runs EXCEPT ![i].state = state]
  BY DEF MoveRun
<1>3. runs' \in [Iterations -> Run]
  BY <1>2 DEF TypeInv, TypeOK, Run, States, Statuses
<1>4. TypeOK'
  BY <1>1, <1>3 DEF TypeInv, TypeOK
<1> QED
  BY <1>1, <1>4, FewerPending DEF TypeInv, TypeOK, Check

LEMMA TypeCrash ==
  ASSUME TypeInv, Crash
  PROVE  TypeInv'
<1>1. /\ UNCHANGED <<check, runs, github, webhooks, asked>>
      /\ checkCache' = check /\ runCache' = RunsNow /\ todo' = TRUE
      /\ worker' = Idle /\ requests' = {} /\ handlers' = {} /\ crashed' = TRUE
  BY DEF Crash
<1>2. RunsNow \in [Iterations -> States]
  BY DEF TypeInv, TypeOK, RunsNow, Run
<1>3. TypeOK'
  BY <1>1, <1>2 DEF TypeInv, TypeOK, Worker
<1>4. Precedes(checkCache.events, check.events)'
  BY <1>1, PrecedesItself DEF TypeInv, TypeOK, Check
<1> QED
  BY <1>1, <1>3, <1>4, FewerPending DEF TypeInv, TypeOK, Check

LEMMA TypeNext == TypeInv /\ [Next]_vars => TypeInv'
<1> SUFFICES ASSUME TypeInv, [Next]_vars PROVE TypeInv'
  OBVIOUS
<1>1. CASE Watch
  BY <1>1, TypeWatch
<1>2. CASE Reconcile
  BY <1>2, TypeReconcile
<1>3. CASE UpdateStatus
  BY <1>3, TypeUpdateStatus
<1>4. CASE SendUpdate
  BY <1>4, TypeSendUpdate
<1>5. CASE \E update \in requests : Invoke(update)
  BY <1>5, TypeInvoke
<1>6. CASE \E event \in handlers : AddEvent(event)
  BY <1>6, TypeAddEvent
<1>7. CASE \E hook \in webhooks : Deliver(hook)
  BY <1>7, TypeDeliver
<1>8. CASE \E event \in Asks : Ask(event)
  BY <1>8, TypeAsk
<1>9. CASE Operator
  BY <1>9, TypeMoveRun DEF Operator
<1>10. CASE Crash
  BY <1>10, TypeCrash
<1>11. CASE UNCHANGED vars
  BY <1>11 DEF vars, TypeInv, TypeOK, Pending, AskingHooks, RunsNow
<1> QED
  BY <1>1, <1>2, <1>3, <1>4, <1>5, <1>6, <1>7, <1>8, <1>9, <1>10, <1>11
     DEF Next, App, GitHub

\* The types, for any number of requests; in them, that the iteration of a check
\* run never exceeds the number of requests, although their events are delivered
\* in any order, handled concurrently, and lost when another comes first.
THEOREM TypeCorrect == Spec => []TypeOK
<1>1. TypeInv => TypeOK
  BY DEF TypeInv
<1> QED
  BY TypeInit, TypeNext, <1>1, PTL DEF Spec

-----------------------------------------------------------------------------
(* What every step does to the events, the runs and the caches.            *)

LEMMA EventsGrow ==
  ASSUME TypeInv, [Next]_vars
  PROVE  Precedes(check.events, check'.events)
<1>1. check.events \in Seq(Events)
  BY DEF TypeInv, TypeOK, Check
<1>2. CASE \E event \in handlers : AddEvent(event)
  BY <1>2, AddedEvent
<1>3. CASE check'.events = check.events
  BY <1>1, <1>3, PrecedesItself
<1>4. UpdateStatus => check'.events = check.events
  BY DEF UpdateStatus, PutCheck, IsLatest
<1> QED
  BY <1>2, <1>3, <1>4
     DEF Next, Watch, SyncCheck, SyncRuns, SyncSuite, App, Reconcile,
         SendUpdate, Invoke, GitHub, Deliver, Ask, Operator, MoveRun, Crash, vars

\* A run appears with the command of the cache, or moves on.
LEMMA RunSteps ==
  ASSUME TypeInv, [Next]_vars
  PROVE  \/ UNCHANGED runs
         \/ /\ Reconcile
            /\ runs[CurrentIteration(checkCache)].state = "absent"
            /\ runs' = [runs EXCEPT ![CurrentIteration(checkCache)] =
                          [state |-> "queued", command |-> Command(checkCache)]]
         \/ \E i \in Iterations : MoveRun(i)
<1>1. CASE Reconcile
  <2>1. PICK error \in BOOLEAN :
          IF runCache[CurrentIteration(checkCache)] = "absent"
          THEN CreateRunResources(CurrentIteration(checkCache),
                                  Command(checkCache), error)
          ELSE UNCHANGED runs
    BY <1>1 DEF Reconcile
  <2> QED
    BY <1>1, <2>1 DEF CreateRunResources
<1> QED
  BY <1>1 DEF Next, Watch, SyncCheck, SyncRuns, SyncSuite, App, UpdateStatus,
              SendUpdate, Invoke, AddEvent, GitHub, Deliver, Ask, Operator,
              Crash, vars

\* A run that exists goes on existing with its command, and one that is done
\* remains so; as long as it is not done it may be moved back.
LEMMA RunsAdvance ==
  ASSUME TypeInv, [Next]_vars, NEW i \in Iterations
  PROVE  /\ runs[i].state # "absent" =>
              runs'[i].state # "absent" /\ runs'[i].command = runs[i].command
         /\ runs[i].state = "completed" => runs'[i].state = "completed"
<1>1. runs \in [Iterations -> Run]
  BY DEF TypeInv, TypeOK
<1>2. CASE runs' = [runs EXCEPT ![CurrentIteration(checkCache)] =
                      [state |-> "queued", command |-> Command(checkCache)]]
           /\ runs[CurrentIteration(checkCache)].state = "absent"
  BY <1>1, <1>2
<1>3. ASSUME NEW j \in Iterations, MoveRun(j)
      PROVE  /\ runs[i].state # "absent" =>
                  runs'[i].state # "absent" /\ runs'[i].command = runs[i].command
             /\ runs[i].state = "completed" => runs'[i].state = "completed"
  <2>1. PICK state \in Statuses : runs' = [runs EXCEPT ![j].state = state]
    BY <1>3 DEF MoveRun
  <2>2. runs[j].state \in {"queued", "in_progress"}
    BY <1>3 DEF MoveRun
  <2>3. CASE i = j
    BY <1>1, <2>1, <2>2, <2>3 DEF Run, Statuses
  <2>4. CASE i # j
    BY <1>1, <2>1, <2>4
  <2> QED
    BY <2>3, <2>4
<1> QED
  BY <1>2, <1>3, RunSteps

LEMMA CachesCatchUp ==
  ASSUME [Next]_vars
  PROVE  checkCache' \in {checkCache, check} /\ runCache' \in {runCache, RunsNow}
BY DEF Next, Watch, SyncCheck, SyncRuns, SyncSuite, App, Reconcile, UpdateStatus,
       SendUpdate, Invoke, AddEvent, GitHub, Deliver, Ask, Operator, MoveRun,
       Crash, vars

\* The cache of the runs is never ahead of them: what it has exists, and what it
\* has as completed is.
CacheTrails ==
  \A i \in Iterations :
    /\ runCache[i] # "absent" => runs[i].state # "absent"
    /\ runCache[i] = "completed" => runs[i].state = "completed"

LEMMA TrailsInit == Init => CacheTrails
BY DEF Init, CacheTrails, RunsNow, NoRun

LEMMA TrailsNext ==
  ASSUME TypeInv, CacheTrails, [Next]_vars
  PROVE  CacheTrails'
<1> SUFFICES ASSUME NEW i \in Iterations
             PROVE  /\ runCache'[i] # "absent" => runs'[i].state # "absent"
                    /\ runCache'[i] = "completed" => runs'[i].state = "completed"
  BY DEF CacheTrails
<1>1. runCache'[i] \in {runCache[i], runs[i].state}
  BY CachesCatchUp DEF RunsNow
<1> QED
  BY <1>1, RunsAdvance DEF CacheTrails

\* What the reconciler does first: what it read, and means to tell.
LEMMA Reconciled ==
  ASSUME TypeInv, Reconcile
  PROVE  LET i == CurrentIteration(checkCache)
         IN /\ i \in Iterations
            /\ worker.pc = "idle" /\ worker'.pc = "status"
            /\ worker'.read = checkCache
            /\ worker'.update = UpdateOf(checkCache, StatusOf(runCache[i]))
            /\ worker'.update.known = IsCreated(checkCache)
            /\ worker'.update.iteration = i
            /\ worker'.update.status = StatusOf(runCache[i])
            /\ worker'.update.apply =>
                 runCache[i] = "completed" /\ Command(checkCache) = "plan"
            /\ worker'.send = (IsCreated(checkCache) \/ ~checkCache.requested)
            /\ UNCHANGED <<check, checkCache, runCache, requests, github>>
<1> DEFINE i == CurrentIteration(checkCache)
<1>1. PICK error \in BOOLEAN :
        worker' = [pc |-> "status", read |-> checkCache, error |-> error,
                   update |-> UpdateOf(checkCache, StatusOf(runCache[i])),
                   send |-> IsCreated(checkCache) \/ ~checkCache.requested]
  BY DEF Reconcile
<1>2. i \in Iterations
  BY IterationType
<1>3. StatusOf(runCache[i]) = "completed" => runCache[i] = "completed"
  BY DEF StatusOf
<1>4. UNCHANGED <<check, checkCache, runCache, requests, github>>
      /\ worker.pc = "idle"
  BY DEF Reconcile, Idle
<1>5. worker'.update = UpdateOf(checkCache, StatusOf(runCache[i]))
  BY <1>1
<1>6. worker'.update.apply =>
        runCache[i] = "completed" /\ Command(checkCache) = "plan"
  <2>1. worker'.update.apply = (StatusOf(runCache[i]) = "completed"
                                /\ Command(checkCache) = "plan")
    BY <1>5 DEF UpdateOf
  <2> QED
    BY <1>3, <2>1, Zenon
<1>7. /\ worker'.update.known = IsCreated(checkCache)
      /\ worker'.update.iteration = i
      /\ worker'.update.status = StatusOf(runCache[i])
  BY <1>5 DEF UpdateOf
<1>8. /\ worker'.pc = "status" /\ worker'.read = checkCache
      /\ worker'.send = (IsCreated(checkCache) \/ ~checkCache.requested)
  BY <1>1
<1> QED
  BY <1>2, <1>4, <1>5, <1>6, <1>7, <1>8

LEMMA WorkerSteps ==
  ASSUME [Next]_vars
  PROVE  \/ UNCHANGED worker
         \/ Reconcile
         \/ UpdateStatus
         \/ SendUpdate
         \/ Crash
BY DEF Next, Watch, SyncCheck, SyncRuns, SyncSuite, App, Invoke, AddEvent,
       GitHub, Deliver, Ask, Operator, MoveRun, vars

\* Only the reconciler writes the status of the check run.
LEMMA StatusWritten ==
  ASSUME TypeInv, [Next]_vars
  PROVE  \/ /\ check'.iterations = check.iterations
            /\ check'.status = check.status
         \/ /\ UpdateStatus
            /\ check = worker.read
            /\ check'.iterations = SetIterationStatus(check.iterations,
                 CurrentIteration(check), worker.update.status = "completed")
            /\ check'.status = worker.update.status
<1>1. ASSUME NEW event \in handlers, AddEvent(event)
      PROVE  check'.iterations = check.iterations /\ check'.status = check.status
  BY <1>1, AddedEvent DEF TypeInv, TypeOK, Check
<1>2. CASE UpdateStatus
  BY <1>2 DEF UpdateStatus, PutCheck, IsLatest
<1> QED
  BY <1>1, <1>2
     DEF Next, Watch, SyncCheck, SyncRuns, SyncSuite, App, Reconcile,
         SendUpdate, Invoke, GitHub, Deliver, Ask, Operator, MoveRun, Crash, vars

-----------------------------------------------------------------------------
(* The record of the iterations.                                           *)

\* What is about to be recorded as completed is, and the iterations on record
\* are among the runs.
RecordInv ==
  /\ IterationsAreTruthful
  /\ \A n \in DOMAIN check.iterations : n - 1 \in Iterations
  /\ worker.pc = "status" =>
       /\ worker.update.iteration = CurrentIteration(worker.read)
       /\ worker.update.status = "completed" =>
            runs[worker.update.iteration].state = "completed"

LEMMA RecordInit == Init => RecordInv
BY DEF Init, RecordInv, IterationsAreTruthful, Idle

LEMMA RecordNext ==
  ASSUME TypeInv, CacheTrails, RecordInv, [Next]_vars
  PROVE  RecordInv'
<1>1. worker'.pc = "status" =>
        /\ worker'.update.iteration = CurrentIteration(worker'.read)
        /\ worker'.update.status = "completed" =>
             runs'[worker'.update.iteration].state = "completed"
  <2>1. CASE Reconcile
    <3> DEFINE i == CurrentIteration(checkCache)
    <3>1. worker'.update.status = "completed" => runCache[i] = "completed"
      BY <2>1, Reconciled DEF StatusOf
    <3> QED
      BY <2>1, <3>1, Reconciled, RunsAdvance DEF CacheTrails
  <2>2. CASE UNCHANGED worker
    <3>1. worker.pc = "status" => worker.update.iteration \in Iterations
      BY WorkerType DEF TypeInv, Update
    <3> QED
      BY <2>2, <3>1, RunsAdvance DEF RecordInv
  <2>3. (UpdateStatus \/ SendUpdate \/ Crash) => worker'.pc # "status"
    BY DEF UpdateStatus, SendUpdate, Crash, Idle
  <2> QED
    BY <2>1, <2>2, <2>3, WorkerSteps
<1>2. ASSUME NEW n \in DOMAIN check'.iterations
      PROVE  /\ n - 1 \in Iterations
             /\ check'.iterations[n] => runs'[n - 1].state = "completed"
  <2>1. CASE check'.iterations = check.iterations
    BY <1>2, <2>1, RunsAdvance DEF RecordInv, IterationsAreTruthful
  <2>2. CASE /\ UpdateStatus
             /\ check = worker.read
             /\ check'.iterations = SetIterationStatus(check.iterations,
                  CurrentIteration(check), worker.update.status = "completed")
    <3> DEFINE i == CurrentIteration(check)
    <3>1. i \in Iterations /\ i \in Nat /\ n \in 1..(i + 1)
      BY <1>2, <2>2, IterationType, CheckRunAssumption
         DEF SetIterationStatus, Iterations
    <3>2. n - 1 \in Iterations
      BY <3>1, CheckRunAssumption DEF Iterations
    <3>3. CASE n = i + 1
      <4>1. check'.iterations[n] = (worker.update.status = "completed")
        BY <2>2, <3>1, <3>3 DEF SetIterationStatus
      <4>2. worker.pc = "status"
        BY <2>2 DEF UpdateStatus
      <4>3. check'.iterations[n] => runs[i].state = "completed"
        BY <2>2, <4>1, <4>2 DEF RecordInv
      <4> QED
        BY <3>1, <3>2, <3>3, <4>3, RunsAdvance
    <3>4. CASE n # i + 1
      <4>1. check'.iterations[n] = (n <= Len(check.iterations)
                                    /\ check.iterations[n])
        BY <2>2, <3>1, <3>4 DEF SetIterationStatus
      <4>2. check'.iterations[n] =>
              n <= Len(check.iterations) /\ check.iterations[n]
        BY <4>1, Zenon
      <4>3. n <= Len(check.iterations) => n \in DOMAIN check.iterations
        BY <3>1 DEF TypeInv, TypeOK, Check
      <4> QED
        BY <3>2, <4>2, <4>3, RunsAdvance DEF RecordInv, IterationsAreTruthful
    <3> QED
      BY <3>3, <3>4
  <2> QED
    BY <2>1, <2>2, StatusWritten
<1> QED
  BY <1>1, <1>2 DEF RecordInv, IterationsAreTruthful

\* An iteration is recorded as completed only if its run is, however late the
\* caches are and whatever becomes of the write: the cache of the runs is never
\* ahead of them, the status is written onto the version that was read, and the
\* iterations in between that never ran are left as they are.
THEOREM RecordsAreTruthful == Spec => []IterationsAreTruthful
<1> DEFINE Inv == TypeInv /\ CacheTrails /\ RecordInv
<1>1. Init => Inv
  BY TypeInit, TrailsInit, RecordInit
<1>2. Inv /\ [Next]_vars => Inv'
  BY TypeNext, TrailsNext, RecordNext
<1>3. Inv => IterationsAreTruthful
  BY DEF RecordInv
<1> QED
  BY <1>1, <1>2, <1>3, PTL DEF Spec

-----------------------------------------------------------------------------
(* Each iteration's command.                                               *)

\* An event of the check run stays what it is, and in its iteration.
LEMMA EventsStay ==
  ASSUME TypeInv, [Next]_vars, NEW n \in DOMAIN check.events
  PROVE  /\ n \in DOMAIN check'.events
         /\ check'.events[n] = check.events[n]
         /\ Count(check'.events, n) = Count(check.events, n)
<1>1. /\ check.events \in Seq(Events) /\ check'.events \in Seq(Events)
      /\ Precedes(check.events, check'.events)
  BY EventsGrow, TypeNext DEF TypeInv, TypeOK, Check
<1>2. /\ n \in DOMAIN check'.events
      /\ check'.events[n] = check.events[n]
      /\ \A m \in 1..n : check.events[m] = check'.events[m]
  BY <1>1 DEF Precedes
<1>3. Count(check.events, n) = Count(check'.events, n)
  BY <1>2, CountSame
<1> QED
  BY <1>2, <1>3

\* The cache's events are the check run's.
LEMMA CachedEvents ==
  ASSUME TypeInv
  PROVE  LET n == Len(checkCache.events)
         IN /\ n \in 0..Len(check.events)
            /\ \A m \in 1..n : checkCache.events[m] = check.events[m]
            /\ Count(check.events, n) = CurrentIteration(checkCache)
<1>1. checkCache.events \in Seq(Events) /\ check.events \in Seq(Events)
  BY DEF TypeInv, TypeOK, Check
<1> QED
  BY <1>1, EarlierIteration DEF TypeInv, Precedes

LEMMA AppliesInit == Init => AppliesWereRequested
BY DEF Init, AppliesWereRequested, NoRun

LEMMA AppliesNext ==
  ASSUME TypeInv, AppliesWereRequested, [Next]_vars
  PROVE  AppliesWereRequested'
<1> SUFFICES ASSUME NEW i \in Iterations,
                    runs'[i].state # "absent", runs'[i].command = "apply"
             PROVE  \E n \in DOMAIN check'.events :
                      check'.events[n] = "apply" /\ Count(check'.events, n) = i
  BY DEF AppliesWereRequested, Count, AsksUpTo
<1>1. \E n \in DOMAIN check.events :
        check.events[n] = "apply" /\ Count(check.events, n) = i
  <2>1. CASE runs[i].state # "absent" /\ runs[i].command = "apply"
    BY <2>1 DEF AppliesWereRequested, Count, AsksUpTo
  <2>2. CASE /\ runs[i].state = "absent"
             /\ i = CurrentIteration(checkCache)
             /\ Command(checkCache) = "apply"
    <3> DEFINE n == Len(checkCache.events)
    <3>1. checkCache.events \in Seq(Events) /\ check.events \in Seq(Events)
      BY DEF TypeInv, TypeOK, Check
    <3>2. n \in 1..Len(checkCache.events) /\ checkCache.events[n] = "apply"
      BY <2>2, <3>1 DEF Command
    <3>3. n \in DOMAIN check.events /\ check.events[n] = "apply"
      BY <3>1, <3>2, CachedEvents
    <3> QED
      BY <2>2, <3>3, CachedEvents
  <2>3. \/ runs[i].state # "absent" /\ runs[i].command = "apply"
        \/ /\ runs[i].state = "absent"
           /\ i = CurrentIteration(checkCache)
           /\ Command(checkCache) = "apply"
    <3>1. CASE UNCHANGED runs
      BY <3>1
    <3>2. CASE /\ runs[CurrentIteration(checkCache)].state = "absent"
               /\ runs' = [runs EXCEPT ![CurrentIteration(checkCache)] =
                             [state   |-> "queued",
                              command |-> Command(checkCache)]]
      BY <3>2 DEF TypeInv, TypeOK
    <3>3. ASSUME NEW j \in Iterations, MoveRun(j)
          PROVE  runs[i].state # "absent" /\ runs[i].command = "apply"
      <4>1. PICK state \in Statuses : runs' = [runs EXCEPT ![j].state = state]
        BY <3>3 DEF MoveRun
      <4>2. runs[j].state # "absent"
        BY <3>3 DEF MoveRun
      <4> QED
        BY <4>1, <4>2 DEF TypeInv, TypeOK, Run
    <3> QED
      BY <3>1, <3>2, <3>3, RunSteps
  <2> QED
    BY <2>1, <2>2, <2>3
<1> QED
  BY <1>1, EventsStay

\* A run applies only if the event that began its iteration was a request to
\* apply, although the reconciler sees the last event of a check run that it has
\* from a cache and whose events go on coming in.
THEOREM AppliesAreRequested == Spec => []AppliesWereRequested
<1> DEFINE Inv == TypeInv /\ AppliesWereRequested
<1>1. Init => Inv
  BY TypeInit, AppliesInit
<1>2. Inv /\ [Next]_vars => Inv'
  BY TypeNext, AppliesNext
<1> QED
  BY <1>1, <1>2, PTL DEF Spec

-----------------------------------------------------------------------------
(* The Apply button.                                                       *)

\* The iterations whose run is a plan, or was followed by an event that asks for
\* nothing: the button may be offered behind these.
Offerable ==
  {i \in Iterations :
     \/ runs[i].state # "absent" /\ runs[i].command = "plan"
     \/ \E n \in DOMAIN check.events :
          check.events[n] \notin Asks /\ Count(check.events, n) = i}

\* All that is under way to GitHub offers the button rightly.
OffersInv ==
  /\ worker.pc # "idle" /\ worker.update.apply =>
       worker.update.iteration \in Offerable
  /\ \A u \in requests : u.apply => u.iteration \in Offerable
  /\ github.created > 0 /\ github.shown.apply =>
       github.shown.iteration \in Offerable

LEMMA OffersInit == Init => OffersInv
BY DEF Init, OffersInv, Idle

LEMMA OfferStays ==
  ASSUME TypeInv, [Next]_vars, NEW i \in Offerable
  PROVE  i \in Offerable'
BY RunsAdvance, EventsStay DEF Offerable

\* The reconciler offers the button when the last event it sees does not ask to
\* apply.  If the run of its iteration applies all the same, the request came
\* before that last event, which is no request itself: it would have begun an
\* iteration of its own.
LEMMA PlanIsOffered ==
  ASSUME TypeInv, CacheTrails, AppliesWereRequested,
         runCache[CurrentIteration(checkCache)] = "completed",
         Command(checkCache) = "plan"
  PROVE  CurrentIteration(checkCache) \in Offerable
<1> DEFINE i == CurrentIteration(checkCache)
           last == Len(checkCache.events)
<1>1. i \in Iterations /\ runs[i].state = "completed"
      /\ runs[i].command \in Commands
  BY IterationType DEF CacheTrails, TypeInv, TypeOK, Run
<1>2. CASE runs[i].command = "plan"
  BY <1>1, <1>2 DEF Offerable
<1>3. CASE runs[i].command = "apply"
  <2>1. checkCache.events \in Seq(Events) /\ check.events \in Seq(Events)
    BY DEF TypeInv, TypeOK, Check
  <2>2. PICK n \in DOMAIN check.events :
          check.events[n] = "apply" /\ Count(check.events, n) = i
    BY <1>1, <1>3 DEF AppliesWereRequested, Count, AsksUpTo
  <2>3. n \in Nat /\ n >= 1 /\ last \in Nat /\ last <= Len(check.events)
    BY <2>1, <2>2, CachedEvents
  <2>4. ~ last < n
    BY <2>2, <2>3, CountAsk, CountType, CachedEvents DEF Asks
  <2>5. n # last
    <3>1. n = last => checkCache.events[last] = "apply"
                      /\ checkCache.events # <<>>
      BY <2>1, <2>2, <2>3, CachedEvents
    <3> QED
      BY <3>1 DEF Command
  <2>6. check.events[last] \notin Asks
    BY <2>2, <2>3, <2>4, <2>5, CountAsk, CountType, CachedEvents
  <2>7. last \in DOMAIN check.events
    BY <2>1, <2>3, <2>4, <2>5
  <2> QED
    BY <1>1, <2>6, <2>7, CachedEvents DEF Offerable
<1> QED
  BY <1>1, <1>2, <1>3 DEF Commands

\* What becomes of an update: it is in the hands of the reconciler, then in
\* those of the client, then on GitHub.
LEMMA UpdateSteps ==
  ASSUME TypeInv, [Next]_vars
  PROVE  /\ worker'.pc # "idle" =>
              \/ Reconcile
              \/ worker.pc # "idle" /\ worker'.update = worker.update
         /\ \A u \in requests' :
              \/ u \in requests
              \/ SendUpdate /\ requests = {} /\ u = worker.update
         /\ \/ UNCHANGED github
            \/ \E u \in requests :
                 Invoke(u) /\ requests' = requests \ {u} /\ github'.shown = u
<1>1. worker'.pc # "idle" =>
        \/ Reconcile
        \/ worker.pc # "idle" /\ worker'.update = worker.update
  <2>1. UpdateStatus /\ worker'.pc # "idle" =>
          worker.pc # "idle" /\ worker'.update = worker.update
    BY DEF UpdateStatus, Idle
  <2>2. SendUpdate \/ Crash => worker'.pc = "idle"
    BY DEF SendUpdate, Crash, Idle
  <2> QED
    BY <2>1, <2>2, WorkerSteps
<1>2. \A u \in requests' :
        \/ u \in requests
        \/ SendUpdate /\ requests = {} /\ u = worker.update
  <2>1. CASE SendUpdate
    BY <2>1 DEF SendUpdate, Accepts
  <2>2. CASE requests' \subseteq requests
    BY <2>2
  <2> QED
    BY <2>1, <2>2
       DEF Next, Watch, SyncCheck, SyncRuns, SyncSuite, App, Reconcile,
           UpdateStatus, Invoke, AddEvent, GitHub, Deliver, Ask, Operator,
           MoveRun, Crash, vars
<1>3. \/ UNCHANGED github
      \/ \E u \in requests :
           Invoke(u) /\ requests' = requests \ {u} /\ github'.shown = u
  <2>1. ASSUME NEW u \in requests, Invoke(u)
        PROVE  \/ UNCHANGED github
               \/ requests' = requests \ {u} /\ github'.shown = u
    BY <2>1 DEF Invoke
  <2> QED
    BY <2>1
       DEF Next, Watch, SyncCheck, SyncRuns, SyncSuite, App, Reconcile,
           UpdateStatus, SendUpdate, AddEvent, GitHub, Deliver, Ask, Operator,
           MoveRun, Crash, vars
<1> QED
  BY <1>1, <1>2, <1>3

LEMMA OffersNext ==
  ASSUME TypeInv, CacheTrails, AppliesWereRequested, OffersInv, [Next]_vars
  PROVE  OffersInv'
<1>1. worker'.pc # "idle" /\ worker'.update.apply =>
        worker'.update.iteration \in Offerable'
  <2>1. CASE Reconcile
    BY <2>1, Reconciled, PlanIsOffered, OfferStays
  <2>2. CASE worker.pc # "idle" /\ worker'.update = worker.update
    BY <2>2, OfferStays DEF OffersInv
  <2> QED
    BY <2>1, <2>2, UpdateSteps
<1>2. ASSUME NEW u \in requests', u.apply
      PROVE  u.iteration \in Offerable'
  <2>1. CASE u \in requests
    BY <1>2, <2>1, OfferStays DEF OffersInv
  <2>2. CASE SendUpdate /\ u = worker.update
    <3>1. worker.pc # "idle"
      BY <2>2 DEF SendUpdate
    <3> QED
      BY <1>2, <2>2, <3>1, OfferStays DEF OffersInv
  <2> QED
    BY <1>2, <2>1, <2>2, UpdateSteps
<1>3. github'.created > 0 /\ github'.shown.apply =>
        github'.shown.iteration \in Offerable'
  <2>1. CASE UNCHANGED github
    BY <2>1, OfferStays DEF OffersInv
  <2>2. CASE \E u \in requests : github'.shown = u
    BY <2>2, OfferStays DEF OffersInv
  <2> QED
    BY <2>1, <2>2, UpdateSteps
<1> QED
  BY <1>1, <1>2, <1>3 DEF OffersInv

\* The Apply button is offered behind a plan, or behind an apply that was
\* followed by an event that asks for nothing, however late the reconciler and
\* its requests are.
THEOREM OffersFollowPlans == Spec => []ApplyIsOfferedAfterPlan
<1> DEFINE Inv == TypeInv /\ CacheTrails /\ AppliesWereRequested /\ OffersInv
<1>1. Init => Inv
  BY TypeInit, TrailsInit, AppliesInit, OffersInit
<1>2. Inv /\ [Next]_vars => Inv'
  BY TypeNext, TrailsNext, AppliesNext, OffersNext
<1>3. Inv => ApplyIsOfferedAfterPlan
  BY DEF OffersInv, Offerable, ApplyIsOfferedAfterPlan, Count, AsksUpTo
<1> QED
  BY <1>1, <1>2, <1>3, PTL DEF Spec

-----------------------------------------------------------------------------
(* What GitHub shows.                                                      *)

Follows(later, earlier) ==
  \/ later.iteration > earlier.iteration
  \/ /\ later.iteration = earlier.iteration
     /\ earlier.status = "completed" => later.status = "completed"

\* All that Follows asks of a record.
IsReport(u) == u.iteration \in Nat

\* What an update would tell that is made from the caches now.
Newest == [iteration |-> CurrentIteration(checkCache),
           status |-> StatusOf(runCache[CurrentIteration(checkCache)])]

\* Updates are under way in the order in which they were made.
OrderInv ==
  /\ \A u, v \in requests : u = v
  /\ worker.pc # "idle" =>
       /\ Follows(Newest, worker.update)
       /\ \A u \in requests : Follows(worker.update, u)
       /\ github.created > 0 => Follows(worker.update, github.shown)
  /\ \A u \in requests :
       /\ Follows(Newest, u)
       /\ github.created > 0 => Follows(u, github.shown)
  /\ github.created > 0 => Follows(Newest, github.shown)

LEMMA FollowsTransitive ==
  ASSUME NEW u, NEW v, NEW w, IsReport(u), IsReport(v), IsReport(w),
         Follows(u, v), Follows(v, w)
  PROVE  Follows(u, w)
BY DEF Follows, IsReport

LEMMA FollowsItself ==
  ASSUME NEW u
  PROVE  Follows(u, u)
BY DEF Follows

LEMMA ReportType ==
  ASSUME TypeInv
  PROVE  /\ IsReport(Newest)
         /\ worker.pc # "idle" => IsReport(worker.update)
         /\ \A u \in requests : IsReport(u)
         /\ github.created > 0 => IsReport(github.shown)
<1>1. \A u \in Update : IsReport(u)
  BY CheckRunAssumption DEF Update, IsReport, Iterations
<1>2. IsReport(Newest)
  BY IterationType, CheckRunAssumption DEF Newest, IsReport, Iterations
<1> QED
  BY <1>1, <1>2, WorkerType DEF TypeInv, TypeOK

\* The caches only get newer.
LEMMA NewestAdvances ==
  ASSUME TypeInv, CacheTrails, [Next]_vars
  PROVE  IsReport(Newest') /\ Follows(Newest', Newest)
<1> DEFINE i == CurrentIteration(checkCache)
           j == CurrentIteration(checkCache')
<1>1. i \in Iterations /\ j \in Iterations /\ i \in Nat /\ j \in Nat
  BY IterationType, CachesCatchUp, CheckRunAssumption DEF Iterations
<1>2. i <= j
  BY <1>1, IterationType, CachesCatchUp
<1>3. runCache'[i] \in {runCache[i], runs[i].state}
  BY <1>1, CachesCatchUp DEF RunsNow
<1>4. runCache[i] = "completed" => runCache'[i] = "completed"
  BY <1>1, <1>3 DEF CacheTrails
<1>5. StatusOf(runCache[i]) = "completed" => runCache[i] = "completed"
  BY DEF StatusOf
<1>6. runCache'[i] = "completed" => StatusOf(runCache'[i]) = "completed"
  BY DEF StatusOf
<1>7. Follows(Newest', Newest)
  BY <1>1, <1>2, <1>4, <1>5, <1>6 DEF Newest, Follows
<1> QED
  BY <1>1, <1>7 DEF Newest, IsReport

LEMMA OrderInit == Init => OrderInv
BY DEF Init, OrderInv, Idle

LEMMA OrderNext ==
  ASSUME TypeInv, CacheTrails, OrderInv, [Next]_vars
  PROVE  OrderInv'
<1>1. ASSUME NEW u, IsReport(u), Follows(Newest, u)
      PROVE  Follows(Newest', u)
  BY <1>1, ReportType, NewestAdvances, FollowsTransitive
<1>2. CASE Reconcile
  <2>1. worker'.update.iteration = Newest.iteration
        /\ worker'.update.status = Newest.status
        /\ UNCHANGED <<requests, github, checkCache, runCache>>
    BY <1>2, Reconciled DEF Newest
  <2>2. ASSUME NEW u, Follows(Newest, u)
        PROVE  Follows(worker'.update, u)
    BY <2>1, <2>2 DEF Follows
  <2>3. Newest' = Newest
    BY <2>1 DEF Newest
  <2>4. Follows(Newest, worker'.update)
    BY <2>1, ReportType, FollowsItself DEF Follows
  <2> QED
    BY <2>1, <2>2, <2>3, <2>4 DEF OrderInv
<1>3. CASE SendUpdate
  <2>1. /\ worker.pc # "idle" /\ worker'.pc = "idle" /\ UNCHANGED github
        /\ requests = {} /\ requests' = {worker.update}
    BY <1>3 DEF SendUpdate, Accepts, Idle
  <2> QED
    BY <1>1, <2>1, ReportType DEF OrderInv
<1>4. ASSUME NEW update \in requests, Invoke(update)
      PROVE  OrderInv'
  <2>1. /\ UNCHANGED <<worker, checkCache, runCache>>
        /\ requests' = requests \ {update}
        /\ github' = github \/ github'.shown = update
    BY <1>4 DEF Invoke
  <2>2. requests' = {} /\ Newest' = Newest
    BY <2>1 DEF OrderInv, Newest
  <2> QED
    BY <2>1, <2>2 DEF OrderInv
<1>5. CASE UNCHANGED github /\ requests' \subseteq requests
           /\ (worker'.pc # "idle" =>
                 worker.pc # "idle" /\ worker'.update = worker.update)
  <2>1. worker'.pc # "idle" => Follows(Newest', worker'.update)
    BY <1>1, <1>5, ReportType DEF OrderInv
  <2>2. \A u \in requests' : Follows(Newest', u)
    BY <1>1, <1>5, ReportType DEF OrderInv
  <2>3. github'.created > 0 => Follows(Newest', github'.shown)
    BY <1>1, <1>5, ReportType DEF OrderInv
  <2> QED
    BY <1>5, <2>1, <2>2, <2>3 DEF OrderInv
<1>6. CASE UpdateStatus
  <2>1. UNCHANGED <<requests, github>> /\ worker.pc = "status"
    BY <1>6 DEF UpdateStatus
  <2>2. worker'.pc # "idle" => worker'.update = worker.update
    BY <1>6 DEF UpdateStatus, Idle
  <2> QED
    BY <1>5, <2>1, <2>2
<1>7. CASE Crash
  BY <1>5, <1>7 DEF Crash, Idle
<1>8. CASE UNCHANGED <<worker, requests, github>>
  BY <1>5, <1>8
<1> QED
  BY <1>2, <1>3, <1>4, <1>6, <1>7, <1>8
     DEF Next, Watch, SyncCheck, SyncRuns, SyncSuite, App, AddEvent, GitHub,
         Deliver, Ask, Operator, MoveRun, vars

\* What GitHub shows after a step follows what it showed before.
ShowsOnwards ==
  github.created > 0 =>
    \/ github'.shown.iteration > github.shown.iteration
    \/ /\ github'.shown.iteration = github.shown.iteration
       /\ github.shown.status = "completed" => github'.shown.status = "completed"

\* GitHub never goes back to an earlier iteration, nor behind the end of one: runs
\* that are done stay so, updates are made from caches that only get newer, the
\* client takes one when it has done the one before, and so they arrive in the
\* order in which they were made.
THEOREM GitHubMovesOn == Spec => GitHubNeverRegresses
<1> DEFINE Inv == TypeInv /\ CacheTrails /\ OrderInv
<1>1. Init => Inv
  BY TypeInit, TrailsInit, OrderInit
<1>2. Inv /\ [Next]_vars => Inv'
  BY TypeNext, TrailsNext, OrderNext
<1>3. Inv /\ [Next]_vars => [ShowsOnwards]_vars
  <2> SUFFICES ASSUME Inv, [Next]_vars, github.created > 0
               PROVE  Follows(github'.shown, github.shown)
    BY DEF ShowsOnwards, Follows
  <2>1. CASE UNCHANGED github
    BY <2>1, ReportType, FollowsItself
  <2>2. CASE \E u \in requests : github'.shown = u
    BY <2>2 DEF OrderInv
  <2> QED
    BY <2>1, <2>2, UpdateSteps
<1> QED
  BY <1>1, <1>2, <1>3, PTL DEF Spec, GitHubNeverRegresses, ShowsOnwards

-----------------------------------------------------------------------------
(* No news is lost, unless GitHub refuses an update.                       *)

IsNews(u) == u.iteration = Newest.iteration /\ u.status = Newest.status

\* When the queue of the reconciler is empty, what it holds is made from the
\* caches as they are; when it holds nothing, the run exists, the check run has
\* its status, and GitHub does too or the client is about to tell it.
NewsInv ==
  ~todo =>
    /\ worker.pc = "status" =>
         /\ worker.read = checkCache
         /\ IsCreated(checkCache) => worker.send
    /\ worker.pc # "idle" =>
         /\ IsNews(worker.update)
         /\ worker.update.known = IsCreated(checkCache)
         /\ worker.error \/ runs[Newest.iteration].state # "absent"
    /\ worker.pc # "status" => check.status = Newest.status
    /\ worker.pc = "idle" =>
         /\ runs[Newest.iteration].state # "absent"
         /\ IsCreated(checkCache) =>
              /\ \A u \in requests : u.known /\ IsNews(u)
              /\ requests = {} => IsNews(github.shown)

LEMMA NewsInit == Init => NewsInv
BY DEF Init, NewsInv

\* Whatever changes in a cache is enqueued.
LEMMA CacheEnqueues ==
  ASSUME [Next]_vars
  PROVE  todo' \/ UNCHANGED <<checkCache, runCache>>
BY DEF Next, Watch, SyncCheck, SyncRuns, SyncSuite, App, Reconcile, UpdateStatus,
       SendUpdate, Invoke, AddEvent, GitHub, Deliver, Ask, Operator, MoveRun,
       Crash, vars

LEMMA NewsReconcile ==
  ASSUME TypeInv, CacheTrails, NewsInv, Reconcile
  PROVE  NewsInv'
<1> DEFINE i == CurrentIteration(checkCache)
<1>1. UNCHANGED <<check, checkCache, runCache, requests, github>>
      /\ worker'.pc = "status" /\ worker'.read = checkCache
      /\ worker'.send = (IsCreated(checkCache) \/ ~checkCache.requested)
      /\ worker'.update.known = IsCreated(checkCache)
      /\ worker'.update.iteration = i
      /\ worker'.update.status = StatusOf(runCache[i])
      /\ i \in Iterations
  BY Reconciled
<1>2. Newest' = Newest /\ Newest.iteration = i
      /\ Newest.status = StatusOf(runCache[i])
  BY <1>1 DEF Newest
<1>3. worker'.error \/ runs'[i].state # "absent"
  <2>1. PICK error \in BOOLEAN :
          /\ IF runCache[i] = "absent"
             THEN CreateRunResources(i, Command(checkCache), error)
             ELSE UNCHANGED runs
          /\ worker' = [pc |-> "status", read |-> checkCache, error |-> error,
                        update |-> UpdateOf(checkCache, StatusOf(runCache[i])),
                        send |-> IsCreated(checkCache) \/ ~checkCache.requested]
    BY DEF Reconcile
  <2>2. worker'.error = error
    BY <2>1
  <2>3. CASE runCache[i] = "absent"
    <3>1. error \/ runs' = [runs EXCEPT ![i] =
                              [state |-> "queued",
                               command |-> Command(checkCache)]]
      BY <2>1, <2>3 DEF CreateRunResources
    <3> QED
      BY <1>1, <2>2, <3>1 DEF TypeInv, TypeOK
  <2>4. CASE runCache[i] # "absent"
    BY <1>1, <2>1, <2>4 DEF CacheTrails
  <2> QED
    BY <2>3, <2>4
<1>4. IsNews(worker.update)'
  BY <1>1, <1>2 DEF IsNews
<1>5. IsCreated(checkCache) => worker'.send
  BY <1>1
<1> QED
  BY <1>1, <1>2, <1>3, <1>4, <1>5 DEF NewsInv

\* A run that exists goes on existing, and the caches change nothing unnoticed.
LEMMA NewsStays ==
  ASSUME TypeInv, [Next]_vars, ~todo'
  PROVE  /\ Newest' = Newest /\ checkCache' = checkCache
         /\ runs[Newest.iteration].state # "absent" =>
              runs'[Newest.iteration].state # "absent"
<1>1. UNCHANGED <<checkCache, runCache>>
  BY CacheEnqueues
<1>2. Newest.iteration \in Iterations
  BY IterationType DEF Newest
<1> QED
  BY <1>1, <1>2, RunsAdvance DEF Newest

LEMMA NewsUpdateStatus ==
  ASSUME TypeInv, NewsInv, UpdateStatus
  PROVE  NewsInv'
<1> SUFFICES ASSUME ~todo' PROVE NewsInv'
  BY DEF NewsInv
<1>1. /\ UNCHANGED <<runs, requests, github>>
      /\ Newest' = Newest /\ checkCache' = checkCache
      /\ worker.pc = "status" /\ check = worker.read /\ ~todo
      /\ worker.error => worker.send
  BY DEF UpdateStatus, IsLatest, Newest
<1>2. /\ check'.status = worker.update.status
      /\ IF worker.send
         THEN worker' = [pc |-> "send", update |-> worker.update,
                         error |-> worker.error]
         ELSE worker' = Idle
  BY <1>1 DEF UpdateStatus, IsLatest, PutCheck
<1>3. /\ IsNews(worker.update)
      /\ worker.update.known = IsCreated(checkCache)
      /\ IsCreated(checkCache) => worker.send
      /\ worker.error \/ runs[Newest.iteration].state # "absent"
  BY <1>1 DEF NewsInv
<1>4. check'.status = Newest'.status
  BY <1>1, <1>2, <1>3 DEF IsNews
<1>5. CASE worker.send
  <2>1. worker'.pc = "send" /\ worker'.update = worker.update
        /\ worker'.error = worker.error
    BY <1>2, <1>5
  <2>2. IsNews(worker.update)'
    BY <1>1, <1>3, <2>1 DEF IsNews
  <2> QED
    BY <1>1, <1>3, <1>4, <2>1, <2>2 DEF NewsInv
<1>6. CASE ~worker.send
  <2>1. worker'.pc = "idle" /\ ~IsCreated(checkCache) /\ ~worker.error
    BY <1>1, <1>2, <1>3, <1>6 DEF Idle
  <2> QED
    BY <1>1, <1>3, <1>4, <2>1 DEF NewsInv
<1> QED
  BY <1>5, <1>6

LEMMA NewsSendUpdate ==
  ASSUME TypeInv, NewsInv, SendUpdate
  PROVE  NewsInv'
<1> SUFFICES ASSUME ~todo' PROVE NewsInv'
  BY DEF NewsInv
<1>1. /\ UNCHANGED <<check, runs, github>> /\ checkCache' = checkCache
      /\ Newest' = Newest /\ worker.pc = "send" /\ worker'.pc = "idle"
      /\ requests' = {worker.update} /\ ~todo /\ ~worker.error
  BY DEF SendUpdate, Accepts, Idle, Newest
<1>2. /\ IsNews(worker.update)
      /\ worker.update.known = IsCreated(checkCache)
      /\ runs[Newest.iteration].state # "absent"
      /\ check.status = Newest.status
  BY <1>1 DEF NewsInv
<1>3. \A u \in requests' : u = worker.update
  BY <1>1
<1> QED
  BY <1>1, <1>2, <1>3 DEF NewsInv, IsNews

\* What the client takes is shown: GitHub does not refuse it.
LEMMA NewsInvoke ==
  ASSUME TypeInv, NewsInv, OrderInv, "update" \notin Faults,
         NEW update \in requests, Invoke(update)
  PROVE  NewsInv'
<1> SUFFICES ASSUME ~todo' PROVE NewsInv'
  BY DEF NewsInv
<1>1. /\ UNCHANGED <<check, runs, worker>> /\ checkCache' = checkCache
      /\ Newest' = Newest /\ ~todo
      /\ requests' = requests \ {update}
      /\ update.known => github'.shown = update
  BY DEF Invoke, Newest
<1>2. requests' = {}
  BY <1>1 DEF OrderInv
<1>3. worker.pc = "idle" /\ IsCreated(checkCache) =>
        /\ update.known
        /\ IsNews(update)
  BY <1>1 DEF NewsInv
<1> QED
  BY <1>1, <1>2, <1>3 DEF NewsInv, IsNews

LEMMA NewsElsewhere ==
  ASSUME TypeInv, NewsInv, [Next]_vars, UNCHANGED <<worker, requests, github>>,
         todo => todo', check'.status = check.status
  PROVE  NewsInv'
<1> SUFFICES ASSUME ~todo' PROVE NewsInv'
  BY DEF NewsInv
<1>1. ~todo
  OBVIOUS
<1> QED
  BY <1>1, NewsStays DEF NewsInv, IsNews

LEMMA NewsNext ==
  ASSUME TypeInv, CacheTrails, NewsInv, OrderInv, "update" \notin Faults,
         [Next]_vars
  PROVE  NewsInv'
<1>1. CASE Reconcile
  BY <1>1, NewsReconcile
<1>2. CASE UpdateStatus
  BY <1>2, NewsUpdateStatus
<1>3. CASE SendUpdate
  BY <1>3, NewsSendUpdate
<1>4. CASE \E update \in requests : Invoke(update)
  BY <1>4, NewsInvoke
<1>5. CASE \E event \in handlers : AddEvent(event)
  <2>1. UNCHANGED <<worker, requests, github, todo>>
    BY <1>5 DEF AddEvent
  <2>2. check'.status = check.status
    BY <1>5, AddedEvent DEF TypeInv, TypeOK, Check
  <2> QED
    BY <2>1, <2>2, NewsElsewhere
<1>6. CASE Watch
  <2>1. UNCHANGED <<check, worker, requests, github>> /\ todo'
    BY <1>6 DEF Watch, SyncCheck, SyncRuns, SyncSuite
  <2> QED
    BY <2>1, NewsElsewhere
<1>7. CASE GitHub \/ Operator \/ UNCHANGED vars
  <2>1. UNCHANGED <<check, worker, requests, github, todo>>
    BY <1>7 DEF GitHub, Deliver, Ask, Operator, MoveRun, vars
  <2> QED
    BY <2>1, NewsElsewhere
<1>8. CASE Crash
  BY <1>8 DEF Crash, NewsInv
<1> QED
  BY <1>1, <1>2, <1>3, <1>4, <1>5, <1>6, <1>7, <1>8 DEF Next, App

\* If GitHub does not refuse updates, then no news is lost on the way from the
\* run to GitHub, whatever else fails: whoever changes what the reconciler has
\* seen puts the check run back on its queue.
THEOREM NoNewsLost ==
  ASSUME "update" \notin Faults
  PROVE  Spec => []NoNewsIsLost
<1> DEFINE Inv == TypeInv /\ CacheTrails /\ OrderInv /\ NewsInv
<1>1. Init => Inv
  BY TypeInit, TrailsInit, OrderInit, NewsInit
<1>2. Inv /\ [Next]_vars => Inv'
  BY TypeNext, TrailsNext, OrderNext, NewsNext
<1>3. Inv => NoNewsIsLost
  <2> SUFFICES ASSUME Inv, AtRest, IsCreated(check)
               PROVE  LET i == CurrentIteration(check)
                      IN /\ github.shown.iteration = i
                         /\ github.shown.status = runs[i].state
                         /\ check.status = runs[i].state
    BY DEF NoNewsIsLost
  <2> DEFINE i == CurrentIteration(check)
  <2>1. /\ worker.pc = "idle" /\ requests = {} /\ ~todo /\ checkCache = check
        /\ i \in Iterations /\ runCache[i] = runs[i].state
    BY IterationType DEF AtRest, Idle, RunsNow
  <2>2. Newest.iteration = i /\ Newest.status = StatusOf(runs[i].state)
    BY <2>1 DEF Newest
  <2>3. runs[i].state # "absent" /\ IsNews(github.shown)
        /\ check.status = Newest.status
    BY <2>1, <2>2 DEF NewsInv
  <2> QED
    BY <2>2, <2>3 DEF IsNews, StatusOf
<1> QED
  BY <1>1, <1>2, <1>3, PTL DEF Spec
=============================================================================
