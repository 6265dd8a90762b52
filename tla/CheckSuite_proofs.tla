-------------------------- MODULE CheckSuite_proofs --------------------------
(***************************************************************************)
(* Re-requests are told apart and verdicts on the pull request are kept,   *)
(* for any number of webhook events and workspaces.                        *)
(*                                                                         *)
(* Both rest on optimistic concurrency: whatever copy of the suite is held *)
(* by a handler, the reconciler or the cache, it is no newer than the      *)
(* suite, and equal to it if it has its version.  An update that is        *)
(* accepted was therefore computed from the suite as it is.                *)
(***************************************************************************)
EXTENDS CheckSuite, TLAPS

-----------------------------------------------------------------------------
(* Types.                                                                  *)

\* No suite, and a suite as it is created.
LEMMA FirstSuites ==
  /\ NoSuite \in Suite /\ NoSuite.version = 0 /\ NoSuite.rerequests = 0
  /\ NoSuite.mergeable = FALSE
  /\ NewSuite \in Suite /\ NewSuite.version = 1 /\ NewSuite.rerequests = 0
  /\ NewSuite.mergeable = FALSE
BY DEF Suite, NoSuite, NewSuite

\* The initial state is well-typed.
LEMMA TypeInit == Init => TypeOK
<1> SUFFICES ASSUME Init PROVE TypeOK
  OBVIOUS
<1>0. suite = NoSuite \/ suite = NewSuite
  BY DEF Init
<1>1. suite \in Suite /\ suiteCache \in Suite
  <2>1. suiteCache = NoSuite
    BY DEF Init
  <2> QED
    BY <1>0, <2>1, FirstSuites
<1>2. worker \in Worker
  BY DEF Init, Worker
<1>3. [pc |-> "unsent"] \in Hooks
  BY DEF Hooks
<1>4. hooks \in [Deliveries -> Hooks]
  BY <1>3 DEF Init
<1>5. connected \subseteq Workspaces /\ clone \in Trees
  BY CheckSuiteAssumption DEF Init, Trees
<1>6. checks \subseteq Checks /\ checksCache \subseteq checks
        /\ runs \subseteq [check : Checks, tree : Trees \ {"absent"}]
  BY DEF Init
<1> QED
  BY <1>1, <1>2, <1>4, <1>5, <1>6 DEF Init, TypeOK

\* What is written is a suite, and its version is the old one or the next.
LEMMA PutType ==
  ASSUME suite \in Suite, NEW new \in Suite, Put(new)
  PROVE  suite' \in Suite
BY DEF Put, Suite

\* A handler that has got on to a next step is of the type of handlers.
LEMMA SetHookType ==
  ASSUME TypeOK, NEW d \in Deliveries, NEW hook \in Hooks, SetHook(d, hook),
         suite' \in Suite, verdict' \in BOOLEAN
  PROVE  TypeOK'
BY DEF TypeOK, SetHook, app, checkRuns, disk

\* Every handler leaves the state well-typed.
LEMMA WebhookType ==
  ASSUME TypeOK, NEW d \in Deliveries, Webhook(d)
  PROVE  TypeOK'
<1> USE DEF TypeOK
<1>0. hooks[d] \in Hooks /\ Done \in Hooks
  BY DEF Done, Hooks
<1>c. ASSUME Create PROVE suite' \in Suite
  BY <1>c, PutType, FirstSuites DEF Create
<1>1. CASE Requested(d)
  BY <1>1, <1>0, <1>c, SetHookType DEF Requested
<1>2. CASE Rerequested(d)
  <2>1. [pc |-> "update", read |-> suite] \in Hooks
    BY DEF Hooks
  <2> QED
    BY <1>2, <1>0, <2>1, SetHookType DEF Rerequested
<1>3. CASE CountRerequest(d)
  <2>1. hooks[d].read \in Suite
    BY <1>3, <1>0 DEF CountRerequest, Hooks
  <2>2. hooks[d].read.rerequests + 1 \in Nat
    BY <2>1 DEF Suite
  <2>3. [hooks[d].read EXCEPT !.rerequests = hooks[d].read.rerequests + 1] \in Suite
    BY <2>1, <2>2 DEF Suite
  <2>4. [pc |-> "accepted", number |-> hooks[d].read.rerequests + 1] \in Hooks
    BY <2>2 DEF Hooks
  <2> QED
    BY <1>3, <1>0, <2>3, <2>4, PutType, SetHookType DEF CountRerequest
<1>4. CASE PullChanged(d)
  <2>1. [pc |-> "poll", mergeable |-> suite.mergeable] \in Hooks
    BY DEF Hooks, Suite
  <2>2. [pc |-> "create"] \in Hooks
    BY DEF Hooks
  <2> QED
    BY <1>4, <2>1, <2>2, SetHookType DEF PullChanged
<1>5. CASE EnsureSuite(d)
  <2>1. \A m \in BOOLEAN : [pc |-> "poll", mergeable |-> m] \in Hooks
    BY DEF Hooks
  <2> QED
    BY <1>5, <1>0, <1>c, <2>1, SetHookType DEF EnsureSuite
<1>6. CASE UpdateMergeable(d)
  <2>1. \A m \in BOOLEAN : [suite EXCEPT !.mergeable = m] \in Suite
    BY DEF Suite
  <2>2. suite' \in Suite /\ verdict' \in BOOLEAN
    BY <1>6, <2>1, PutType DEF UpdateMergeable
  <2> QED
    BY <1>6, <1>0, <2>2, SetHookType DEF UpdateMergeable
<1> QED
  BY <1>1, <1>2, <1>3, <1>4, <1>5, <1>6 DEF Webhook

\* The record of the reconciler, once it has read a suite and its workspaces.
LEMMA BusyWorker ==
  ASSUME worker \in Worker, worker # Idle
  PROVE  /\ worker.read \in Suite /\ worker.ws \subseteq Workspaces
         /\ worker = [pc |-> worker.pc, read |-> worker.read, ws |-> worker.ws]
         /\ \A pc \in {"clone", "git", "path", "create"}, r \in Suite,
               ws \in SUBSET Workspaces :
              [pc |-> pc, read |-> r, ws |-> ws] \in Worker
BY DEF Worker, Idle

\* Every step of the reconciler leaves the state well-typed.
LEMMA SuiteControllerType ==
  ASSUME TypeOK, SuiteController
  PROVE  TypeOK'
<1> USE DEF TypeOK, cluster, checkRuns, disk
<1>0. Idle \in Worker /\ "whole" \in Trees /\ "partial" \in Trees
  BY DEF Worker, Trees
<1>1. CASE Reconcile
  <2>1. [pc |-> "clone", read |-> suiteCache, ws |-> connected] \in Worker
    BY DEF Worker
  <2> QED
    BY <1>1, <1>0, <2>1 DEF Reconcile
<1>2. CASE FindClone \/ StartClone \/ FinishClone
  <2>1. worker # Idle /\ \E pc \in {"git", "path"} : worker' = [worker EXCEPT !.pc = pc]
    BY <1>2 DEF FindClone, StartClone, FinishClone, At, Idle
  <2>2. worker' \in Worker
    BY <2>1, BusyWorker
  <2> QED
    BY <1>2, <1>0, <2>2 DEF FindClone, StartClone, FinishClone
<1>3. CASE FailClone
  BY <1>3, <1>0 DEF FailClone, Fail
<1>4. CASE WritePath
  <2>1. worker # Idle
    BY <1>4 DEF WritePath, Idle
  <2>2. [worker.read EXCEPT !.path = TRUE] \in Suite
    BY <2>1, BusyWorker DEF Suite
  <2>3. suite' \in Suite
    BY <1>4, <2>2, PutType DEF WritePath
  <2>4. worker' \in Worker /\ todo' \in BOOLEAN
    BY <1>4, <1>0, <2>1, <2>3, BusyWorker DEF WritePath, Fail
  <2> QED
    BY <1>4, <2>3, <2>4 DEF WritePath
<1>5. CASE FinishReconcile
  BY <1>5, <1>0 DEF FinishReconcile, Fail
<1>6. ASSUME NEW w \in Workspaces, EnsureCheckRun(w)
      PROVE  TypeOK'
  <2>1. worker # Idle
    BY <1>6 DEF EnsureCheckRun, Idle
  <2>2. CheckOf(w) \in Checks
    BY <2>1, BusyWorker DEF CheckOf, Checks, Suite
  <2>3. worker' \in Worker /\ todo' \in BOOLEAN
    BY <1>6, <1>0, <2>1, BusyWorker DEF EnsureCheckRun, Fail
  <2>4. checks' \subseteq Checks /\ checks \subseteq checks'
    BY <1>6, <2>2 DEF EnsureCheckRun
  <2> QED
    BY <1>6, <2>3, <2>4 DEF EnsureCheckRun
<1> QED
  BY <1>1, <1>2, <1>3, <1>4, <1>5, <1>6 DEF SuiteController

\* Every step leaves the state well-typed.
LEMMA TypeNext == TypeOK /\ [Next]_vars => TypeOK'
<1> SUFFICES ASSUME TypeOK, [Next]_vars PROVE TypeOK'
  OBVIOUS
<1>1. CASE UNCHANGED vars
  BY <1>1 DEF TypeOK, vars
<1>2. CASE SyncSuite
  BY <1>2 DEF TypeOK, SyncSuite, cluster, checkRuns, disk
<1>3. CASE SyncChecks
  BY <1>3 DEF TypeOK, SyncChecks, cluster, app, disk
<1>4. CASE CheckRunController
  <2>1. PICK c \in checksCache : Archive(c)
    BY <1>4 DEF CheckRunController
  <2>2. c \in Checks
    BY DEF TypeOK
  <2>3. \A tree \in Trees \ {"absent"} :
          [check |-> c, tree |-> tree] \in [check : Checks, tree : Trees \ {"absent"}]
    BY <2>2
  <2>4. runs' \subseteq [check : Checks, tree : Trees \ {"absent"}]
    BY <2>1, <2>3 DEF Archive, TypeOK, MayArchive, Trees
  <2> QED
    BY <2>1, <2>4 DEF Archive, TypeOK, cluster, app, disk
<1>5. ASSUME NEW w \in Workspaces, Connect(w) PROVE TypeOK'
  BY <1>5 DEF TypeOK, Connect, app, checkRuns, disk
<1>6. CASE Crash
  <2>1. hooks' \in [Deliveries -> Hooks]
    BY <1>6 DEF Crash, TypeOK, Done, Hooks
  <2> QED
    BY <1>6, <2>1 DEF Crash, TypeOK, Worker
<1> QED
  BY <1>1, <1>2, <1>3, <1>4, <1>5, <1>6, WebhookType, SuiteControllerType DEF Next

\* Types are kept for any webhook events, workspaces and faults.
THEOREM TypeCorrect == Spec => []TypeOK
BY TypeInit, TypeNext, PTL DEF Spec

-----------------------------------------------------------------------------
(* Optimistic concurrency.                                                 *)

\* A copy of the suite is none of a later version, nor another of the same.
IsCopy(c, s) == c.version <= s.version /\ (c.version = s.version => c = s)

CopiesAreTrue ==
  /\ IsCopy(suiteCache, suite)
  /\ worker # Idle => IsCopy(worker.read, suite)
  /\ \A d \in Deliveries :
       hooks[d].pc = "update" => IsCopy(hooks[d].read, suite)

\* Nobody has a verdict on a suite that does not exist, or waits for one.
NothingOfNoSuite ==
  ~Exists(suite) => /\ suite = NoSuite /\ verdict = FALSE
                    /\ \A d \in Deliveries : hooks[d].pc # "poll"

SuiteInv ==
  /\ CopiesAreTrue
  /\ NothingOfNoSuite
  /\ VerdictIsKept
  /\ RerequestsAreDistinct

\* The suite that is there at the start, if any, is a new one.
LEMMA SuiteInit == Init => SuiteInv
<1> SUFFICES ASSUME Init PROVE SuiteInv
  OBVIOUS
<1>0. /\ suite = NoSuite \/ suite.version = 1
      /\ suite.mergeable = FALSE /\ verdict = FALSE /\ NoSuite.version = 0
  <2>1. (suite = NoSuite \/ suite = NewSuite) /\ verdict = FALSE
    BY DEF Init
  <2> QED
    BY <2>1, FirstSuites
<1>1. \A d \in Deliveries : hooks[d].pc = "unsent"
  BY DEF Init
<1>2. CopiesAreTrue
  <2>1. IsCopy(suiteCache, suite)
    BY <1>0 DEF Init, IsCopy
  <2>2. worker = Idle
    BY DEF Init
  <2>3. \A d \in Deliveries : hooks[d].pc # "update"
    BY <1>1
  <2> QED
    BY <2>1, <2>2, <2>3 DEF CopiesAreTrue
<1>3. NothingOfNoSuite /\ VerdictIsKept
  <2>1. ~Exists(suite) => suite = NoSuite
    BY <1>0 DEF Exists
  <2>2. \A d \in Deliveries : hooks[d].pc # "poll"
    BY <1>1
  <2> QED
    BY <1>0, <2>1, <2>2 DEF NothingOfNoSuite, VerdictIsKept
<1>4. RerequestsAreDistinct
  BY <1>1 DEF RerequestsAreDistinct, Accepted
<1> QED
  BY <1>2, <1>3, <1>4 DEF SuiteInv

\* A copy that is true stays true when a new version is written, and the new
\* version is a true copy of itself.
LEMMA PutKeepsCopies ==
  ASSUME suite \in Suite, NEW new \in Suite, Put(new),
         NEW c \in Suite, IsCopy(c, suite)
  PROVE  IsCopy(c, suite') /\ IsCopy(suite', suite')
BY DEF Put, IsCopy, Suite

\* The number of re-requests never falls with a write that does not lower it.
LEMMA PutKeepsRerequests ==
  ASSUME suite \in Suite, NEW new \in Suite, Put(new)
  PROVE  /\ suite'.rerequests = new.rerequests
         /\ suite'.mergeable = new.mergeable
         /\ Exists(new) \/ Exists(suite) => Exists(suite')
BY DEF Put, Suite, Exists

\* A suite is created from nothing only.
LEMMA CreateStep ==
  ASSUME TypeOK, SuiteInv, ~Exists(suite), Create
  PROVE  /\ suite' \in Suite /\ Exists(suite')
         /\ \A c \in Suite : IsCopy(c, suite) => IsCopy(c, suite')
         /\ suite'.rerequests = suite.rerequests
         /\ suite'.mergeable = FALSE /\ verdict = FALSE
<1>1. suite = NoSuite /\ verdict = FALSE
  BY DEF SuiteInv, NothingOfNoSuite, TypeOK
<1>2. suite' \in Suite /\ suite'.version = 1 /\ suite'.rerequests = 0
        /\ suite'.mergeable = FALSE
  BY <1>1, FirstSuites DEF Create, Put, Suite
<1>3. \A c \in Suite : IsCopy(c, suite) => IsCopy(c, suite')
  BY <1>1, <1>2, FirstSuites DEF IsCopy, Suite
<1> QED
  BY <1>1, <1>2, <1>3, FirstSuites DEF Exists

\* A handler that only moves on leaves suite and verdict as they are.
LEMMA HandlerMovesOn ==
  ASSUME TypeOK, SuiteInv, NEW d \in Deliveries, NEW hook \in Hooks,
         SetHook(d, hook), UNCHANGED <<suite, verdict>>,
         hook.pc # "accepted", hook.pc = "poll" => Exists(suite),
         hook.pc = "update" => IsCopy(hook.read, suite)
  PROVE  SuiteInv'
<1> USE DEF SetHook, app
<1>1. \A e \in Deliveries : hooks'[e] = IF e = d THEN hook ELSE hooks[e]
  BY DEF TypeOK
<1>2. CopiesAreTrue'
  BY <1>1 DEF SuiteInv, CopiesAreTrue
<1>3. NothingOfNoSuite' /\ VerdictIsKept'
  BY <1>1 DEF SuiteInv, NothingOfNoSuite, VerdictIsKept, Exists
<1>4. RerequestsAreDistinct'
  BY <1>1 DEF SuiteInv, RerequestsAreDistinct, Accepted
<1> QED
  BY <1>2, <1>3, <1>4 DEF SuiteInv

\* A handler that writes the suite and moves on to a step without a copy keeps
\* the invariant if the number of re-requests does not change.
LEMMA HandlerWrites ==
  ASSUME TypeOK, SuiteInv, NEW d \in Deliveries, NEW hook \in Hooks,
         SetHook(d, hook), hook.pc \notin {"accepted", "update"},
         \A c \in Suite : IsCopy(c, suite) => IsCopy(c, suite'),
         suite'.rerequests = suite.rerequests, Exists(suite'),
         suite'.mergeable = verdict'
  PROVE  SuiteInv'
<1> USE DEF SetHook, app
<1>1. \A e \in Deliveries : hooks'[e] = IF e = d THEN hook ELSE hooks[e]
  BY DEF TypeOK
<1>2. \A e \in Deliveries : hooks[e].pc = "update" => hooks[e].read \in Suite
  BY DEF TypeOK, Hooks
<1>3. suiteCache \in Suite /\ (worker # Idle => worker.read \in Suite)
  BY BusyWorker DEF TypeOK
<1>4. CopiesAreTrue'
  BY <1>1, <1>2, <1>3 DEF SuiteInv, CopiesAreTrue
<1>5. NothingOfNoSuite' /\ VerdictIsKept'
  BY DEF NothingOfNoSuite, VerdictIsKept, Exists
<1>6. RerequestsAreDistinct'
  BY <1>1 DEF SuiteInv, RerequestsAreDistinct, Accepted
<1> QED
  BY <1>4, <1>5, <1>6 DEF SuiteInv

\* A re-request is counted on top of the suite as it is.
LEMMA CountRerequestStep ==
  ASSUME TypeOK, SuiteInv, NEW d \in Deliveries, CountRerequest(d)
  PROVE  SuiteInv'
<1> DEFINE read   == hooks[d].read
           number == read.rerequests + 1
           new    == [read EXCEPT !.rerequests = number]
<1>0. Done \in Hooks /\ Done.pc = "done"
  BY DEF Done, Hooks
<1>1. CASE ~Accepts(read)
  BY <1>0, <1>1, HandlerMovesOn DEF CountRerequest
<1>2. CASE Accepts(read)
  <2>1. read \in Suite /\ read = suite
    BY <1>2 DEF CountRerequest, TypeOK, Hooks, SuiteInv, CopiesAreTrue, IsCopy,
                Accepts
  <2>2. number = suite.rerequests + 1 /\ suite.rerequests \in Nat
    BY <2>1 DEF Suite
  <2>3. new \in Suite /\ new.rerequests = number /\ new.mergeable = suite.mergeable
          /\ new.version = suite.version
    BY <2>1, <2>2 DEF Suite
  <2>4. Put(new) /\ verdict' = verdict
          /\ SetHook(d, [pc |-> "accepted", number |-> number])
    BY <1>2 DEF CountRerequest
  <2>5. suite'.rerequests = number /\ suite'.mergeable = suite.mergeable
          /\ (Exists(suite) => Exists(suite'))
    BY <2>3, <2>4, PutKeepsRerequests DEF TypeOK
  <2>6. \A e \in Deliveries : hooks'[e] = IF e = d
          THEN [pc |-> "accepted", number |-> number] ELSE hooks[e]
    BY <2>4 DEF SetHook, TypeOK
  <2>7. \A e \in Deliveries : hooks[e].pc = "update" => hooks[e].read \in Suite
    BY DEF TypeOK, Hooks
  <2>8. suiteCache \in Suite /\ (worker # Idle => worker.read \in Suite)
    BY BusyWorker DEF TypeOK
  <2>9. CopiesAreTrue'
    <3>1. \A c \in Suite : IsCopy(c, suite) => IsCopy(c, suite')
      BY <2>3, <2>4, PutKeepsCopies DEF TypeOK
    <3> QED
      BY <2>4, <2>6, <2>7, <2>8, <3>1 DEF SuiteInv, CopiesAreTrue, SetHook, app
  <2>10. Exists(suite')
    BY <2>2, <2>3, <2>4 DEF Put, Exists, TypeOK, Suite
  <2>11. NothingOfNoSuite' /\ VerdictIsKept'
    <3>1. suite.mergeable = verdict
      <4>1. CASE Exists(suite)
        BY <4>1 DEF SuiteInv, VerdictIsKept
      <4>2. CASE ~Exists(suite)
        <5>1. suite = NoSuite /\ verdict = FALSE
          BY <4>2 DEF SuiteInv, NothingOfNoSuite, TypeOK
        <5> QED
          BY <5>1, FirstSuites
      <4> QED
        BY <4>1, <4>2
    <3> QED
      BY <2>4, <2>5, <2>10, <3>1 DEF NothingOfNoSuite, VerdictIsKept
  <2>12. RerequestsAreDistinct'
    BY <2>2, <2>5, <2>6 DEF SuiteInv, RerequestsAreDistinct, Accepted
  <2> QED
    BY <2>9, <2>11, <2>12 DEF SuiteInv
<1> QED
  BY <1>1, <1>2

\* Every handler keeps the invariant.
LEMMA WebhookStep ==
  ASSUME TypeOK, SuiteInv, NEW d \in Deliveries, Webhook(d)
  PROVE  SuiteInv'
<1>0. Done \in Hooks /\ Done.pc = "done"
  BY DEF Done, Hooks
<1>1. CASE Requested(d)
  <2>1. CASE Exists(suite)
    BY <1>0, <1>1, <2>1, HandlerMovesOn DEF Requested
  <2>2. CASE ~Exists(suite)
    BY <1>0, <1>1, <2>2, CreateStep, HandlerWrites DEF Requested
  <2> QED
    BY <2>1, <2>2
<1>2. CASE Rerequested(d)
  <2> DEFINE hook == [pc |-> "update", read |-> suite]
  <2>1. hook \in Hooks /\ hook.pc = "update" /\ IsCopy(hook.read, suite)
    BY DEF TypeOK, Hooks, IsCopy, Suite
  <2>2. CASE Exists(suite)
    BY <1>2, <2>1, <2>2, HandlerMovesOn DEF Rerequested
  <2>3. CASE ~Exists(suite)
    BY <1>0, <1>2, <2>3, HandlerMovesOn DEF Rerequested
  <2> QED
    BY <2>2, <2>3
<1>3. CASE CountRerequest(d)
  BY <1>3, CountRerequestStep
<1>4. CASE PullChanged(d)
  <2> DEFINE hook == IF Exists(suite)
                     THEN [pc |-> "poll", mergeable |-> suite.mergeable]
                     ELSE [pc |-> "create"]
  <2>1. hook \in Hooks /\ hook.pc \in {"poll", "create"}
          /\ (hook.pc = "poll" => Exists(suite))
    BY DEF TypeOK, Hooks, Suite
  <2>2. SetHook(d, hook) /\ UNCHANGED <<suite, verdict>>
    BY <1>4 DEF PullChanged
  <2> QED
    BY <2>1, <2>2, HandlerMovesOn
<1>5. CASE EnsureSuite(d)
  <2>1. CASE Exists(suite)
    BY <1>0, <1>5, <2>1, HandlerMovesOn DEF EnsureSuite
  <2>2. CASE ~Exists(suite)
    <3>1. PICK m \in BOOLEAN : SetHook(d, [pc |-> "poll", mergeable |-> m])
      BY <1>5, <2>2 DEF EnsureSuite
    <3> DEFINE hook == [pc |-> "poll", mergeable |-> m]
    <3>2. hook \in Hooks /\ hook.pc = "poll"
      BY DEF Hooks
    <3>3. Create /\ verdict' = verdict
      BY <1>5, <2>2 DEF EnsureSuite
    <3>4. SetHook(d, hook)
      BY <3>1
    <3> QED
      BY <2>2, <3>2, <3>3, <3>4, CreateStep, HandlerWrites
  <2> QED
    BY <2>1, <2>2
<1>6. CASE UpdateMergeable(d)
  <2>1. SetHook(d, Done)
    BY <1>6 DEF UpdateMergeable
  <2>2. PICK m \in BOOLEAN :
          IF m = hooks[d].mergeable
          THEN UNCHANGED <<suite, verdict>>
          ELSE Put([suite EXCEPT !.mergeable = m]) /\ verdict' = m
    BY <1>6 DEF UpdateMergeable
  <2>3. CASE m = hooks[d].mergeable
    BY <1>0, <2>1, <2>2, <2>3, HandlerMovesOn
  <2>4. CASE m # hooks[d].mergeable
    <3> DEFINE new == [suite EXCEPT !.mergeable = m]
    <3>1. new \in Suite /\ new.mergeable = m /\ new.rerequests = suite.rerequests
            /\ new.version = suite.version
      BY DEF TypeOK, Suite
    <3>2. Put(new) /\ verdict' = m
      BY <2>2, <2>4
    <3>3. suite'.mergeable = m /\ suite'.rerequests = suite.rerequests
            /\ (Exists(suite) => Exists(suite'))
      BY <3>1, <3>2, PutKeepsRerequests DEF TypeOK
    <3>4. \A c \in Suite : IsCopy(c, suite) => IsCopy(c, suite')
      BY <3>1, <3>2, PutKeepsCopies DEF TypeOK
    <3>5. Exists(suite)
      BY <1>6 DEF UpdateMergeable, SuiteInv, NothingOfNoSuite
    <3> QED
      BY <1>0, <2>1, <3>2, <3>3, <3>4, <3>5, HandlerWrites
  <2> QED
    BY <2>3, <2>4
<1> QED
  BY <1>1, <1>2, <1>3, <1>4, <1>5, <1>6 DEF Webhook

\* A step that leaves the suite and its handlers alone, and takes no copy of the
\* suite but a true one, keeps the invariant.
LEMMA OtherStep ==
  ASSUME SuiteInv, UNCHANGED <<suite, hooks, verdict>>,
         IsCopy(suiteCache', suite), worker' # Idle => IsCopy(worker'.read, suite)
  PROVE  SuiteInv'
<1>1. CopiesAreTrue'
  BY DEF SuiteInv, CopiesAreTrue
<1>2. NothingOfNoSuite' /\ VerdictIsKept'
  BY DEF SuiteInv, NothingOfNoSuite, VerdictIsKept
<1>3. RerequestsAreDistinct'
  BY DEF SuiteInv, RerequestsAreDistinct, Accepted
<1> QED
  BY <1>1, <1>2, <1>3 DEF SuiteInv

\* The path is written onto the suite as it is, and the verdict with it.
LEMMA WritePathStep ==
  ASSUME TypeOK, SuiteInv, WritePath
  PROVE  SuiteInv'
<1> DEFINE new == [worker.read EXCEPT !.path = TRUE]
<1>0. worker # Idle /\ worker.read \in Suite /\ suiteCache \in Suite
  BY BusyWorker DEF WritePath, Idle, TypeOK
<1>u. UNCHANGED <<suiteCache, hooks, verdict>>
  BY DEF WritePath
<1>1. CASE ~Accepts(worker.read)
  BY <1>1, <1>u, OtherStep DEF WritePath, Fail, SuiteInv, CopiesAreTrue
<1>2. CASE Accepts(worker.read)
  <2>1. worker.read = suite
    BY <1>0, <1>2 DEF SuiteInv, CopiesAreTrue, IsCopy, Accepts
  <2>2. new \in Suite /\ new.rerequests = suite.rerequests
          /\ new.mergeable = suite.mergeable /\ new.version = suite.version
    BY <1>0, <2>1 DEF Suite
  <2>3. Put(new) /\ worker' = [worker EXCEPT !.pc = "create", !.read = suite']
    BY <1>2 DEF WritePath
  <2>4. suite'.rerequests = suite.rerequests /\ suite'.mergeable = suite.mergeable
          /\ (Exists(suite) => Exists(suite'))
    BY <2>2, <2>3, PutKeepsRerequests DEF TypeOK
  <2>5. \A c \in Suite : IsCopy(c, suite) => IsCopy(c, suite')
    BY <2>2, <2>3, PutKeepsCopies DEF TypeOK
  <2>6. worker'.read = suite' /\ IsCopy(suite', suite')
    <3>1. \A pc, r : [worker EXCEPT !.pc = pc, !.read = r].read = r
      BY <1>0, BusyWorker DEF TypeOK
    <3>2. suite' \in Suite
      BY <2>2, <2>3, PutType DEF TypeOK
    <3> QED
      BY <2>3, <3>1, <3>2 DEF IsCopy, Suite
  <2>7. \A d \in Deliveries : hooks[d].pc = "update" => hooks[d].read \in Suite
    BY DEF TypeOK, Hooks
  <2>8. CopiesAreTrue'
    BY <1>0, <1>u, <2>5, <2>6, <2>7 DEF SuiteInv, CopiesAreTrue
  <2>9. Exists(suite')
    <3>1. worker.read.path \in BOOLEAN /\ new.path = TRUE
      BY <1>0 DEF Suite
    <3>2. CASE Exists(suite)
      BY <2>4, <3>2
    <3>3. CASE ~Exists(suite)
      <4>1. new # suite
        BY <3>1, <3>3 DEF SuiteInv, NothingOfNoSuite, NoSuite
      <4> QED
        BY <2>2, <2>3, <4>1 DEF Put, Exists, TypeOK, Suite
    <3> QED
      BY <3>2, <3>3
  <2>10. suite.mergeable = verdict
    BY FirstSuites DEF SuiteInv, VerdictIsKept, NothingOfNoSuite
  <2>11. NothingOfNoSuite' /\ VerdictIsKept'
    BY <1>u, <2>4, <2>9, <2>10 DEF NothingOfNoSuite, VerdictIsKept
  <2>12. RerequestsAreDistinct'
    BY <1>u, <2>4 DEF SuiteInv, RerequestsAreDistinct, Accepted
  <2> QED
    BY <2>8, <2>11, <2>12 DEF SuiteInv
<1> QED
  BY <1>1, <1>2

\* The other steps of the reconciler take no copy, or that of the cache.
LEMMA SuiteControllerStep ==
  ASSUME TypeOK, SuiteInv, SuiteController
  PROVE  SuiteInv'
<1> USE DEF cluster
<1>0. IsCopy(suiteCache, suite) /\ (worker # Idle => IsCopy(worker.read, suite))
  BY DEF SuiteInv, CopiesAreTrue
<1>1. CASE Reconcile
  BY <1>0, <1>1, OtherStep DEF Reconcile
<1>2. CASE FindClone \/ StartClone \/ FinishClone
  <2>1. worker # Idle /\ \E pc \in {"git", "path"} : worker' = [worker EXCEPT !.pc = pc]
    BY <1>2 DEF FindClone, StartClone, FinishClone, At, Idle
  <2>2. worker'.read = worker.read
    BY <2>1, BusyWorker DEF TypeOK
  <2> QED
    BY <1>0, <1>2, <2>1, <2>2, OtherStep DEF FindClone, StartClone, FinishClone
<1>3. CASE FailClone
  BY <1>0, <1>3, OtherStep DEF FailClone, Fail
<1>4. CASE WritePath
  BY <1>4, WritePathStep
<1>5. CASE FinishReconcile
  BY <1>0, <1>5, OtherStep DEF FinishReconcile, Fail
<1>6. ASSUME NEW w \in Workspaces, EnsureCheckRun(w)
      PROVE  SuiteInv'
  <2>1. worker # Idle
    BY <1>6 DEF EnsureCheckRun, Idle
  <2>2. worker' = Idle \/ worker'.read = worker.read
    BY <1>6, <2>1, BusyWorker DEF EnsureCheckRun, Fail, TypeOK
  <2> QED
    BY <1>0, <1>6, <2>1, <2>2, OtherStep DEF EnsureCheckRun
<1> QED
  BY <1>1, <1>2, <1>3, <1>4, <1>5, <1>6 DEF SuiteController

\* Every step keeps the invariant.
LEMMA SuiteNext == TypeOK /\ SuiteInv /\ [Next]_vars => SuiteInv'
<1> SUFFICES ASSUME TypeOK, SuiteInv, [Next]_vars PROVE SuiteInv'
  OBVIOUS
<1>0. /\ IsCopy(suiteCache, suite) /\ (worker # Idle => IsCopy(worker.read, suite))
      /\ IsCopy(suite, suite)
  BY DEF SuiteInv, CopiesAreTrue, IsCopy, TypeOK, Suite
<1>1. CASE UNCHANGED vars
  BY <1>0, <1>1, OtherStep DEF vars
<1>2. CASE SyncSuite
  BY <1>0, <1>2, OtherStep DEF SyncSuite, cluster
<1>3. CASE SyncChecks
  BY <1>0, <1>3, OtherStep DEF SyncChecks, cluster, app
<1>4. CASE CheckRunController
  BY <1>0, <1>4, OtherStep DEF CheckRunController, Archive, cluster, app
<1>5. ASSUME NEW w \in Workspaces, Connect(w) PROVE SuiteInv'
  BY <1>0, <1>5, OtherStep DEF Connect, app
<1>6. CASE Crash
  <2>1. \A d \in Deliveries :
          hooks'[d] = IF hooks[d].pc \in {"unsent", "accepted"} THEN hooks[d] ELSE Done
    BY <1>6 DEF Crash
  <2>2. UNCHANGED <<suite, verdict>> /\ suiteCache' = suite /\ worker' = Idle
    BY <1>6 DEF Crash
  <2>3. CopiesAreTrue'
    BY <1>0, <2>1, <2>2 DEF CopiesAreTrue, Done
  <2>4. NothingOfNoSuite' /\ VerdictIsKept'
    BY <2>1, <2>2 DEF SuiteInv, NothingOfNoSuite, VerdictIsKept, Done
  <2>5. RerequestsAreDistinct'
    BY <2>1, <2>2 DEF SuiteInv, RerequestsAreDistinct, Accepted, Done
  <2> QED
    BY <2>3, <2>4, <2>5 DEF SuiteInv
<1> QED
  BY <1>1, <1>2, <1>3, <1>4, <1>5, <1>6, WebhookStep, SuiteControllerStep DEF Next

\* The invariant holds of every reachable state.
LEMMA SuiteInvariant == Spec => []SuiteInv
BY TypeInit, TypeNext, SuiteInit, SuiteNext, PTL DEF Spec

\* A re-request that was answered as successful has a number of its own.
THEOREM RerequestsTold == Spec => []RerequestsAreDistinct
<1>1. SuiteInv => RerequestsAreDistinct
  BY DEF SuiteInv
<1> QED
  BY <1>1, SuiteInvariant, PTL

\* What a handler wrote of the pull request stays until a handler writes again.
THEOREM VerdictKept == Spec => []VerdictIsKept
<1>1. SuiteInv => VerdictIsKept
  BY DEF SuiteInv
<1> QED
  BY <1>1, SuiteInvariant, PTL

-----------------------------------------------------------------------------
(* Clones.  Without a crash the path of the clone is in the suite, or in a *)
(* copy of it, only when the clone is under management; and then git has   *)
(* finished and is not started again.                                      *)

ClonesAreWhole ==
  ~crashed =>
    /\ managed => clone = "whole" /\ worker.pc # "git"
    /\ worker.pc \in {"path", "create"} => managed
    /\ suite.path \/ suiteCache.path => managed
    /\ worker # Idle /\ worker.read.path => managed
    /\ \A d \in Deliveries : hooks[d].pc = "update" /\ hooks[d].read.path => managed
    /\ \A r \in runs : r.tree # "partial"

\* Nothing has a path to begin with.
LEMMA ClonesInit == Init => ClonesAreWhole
<1> SUFFICES ASSUME Init PROVE ClonesAreWhole
  OBVIOUS
<1>1. NoSuite.path = FALSE /\ NewSuite.path = FALSE /\ Idle.pc = "idle"
  BY DEF NoSuite, NewSuite, Idle
<1>2. suite.path = FALSE /\ suiteCache.path = FALSE
  BY <1>1 DEF Init
<1>3. worker = Idle /\ managed = FALSE /\ runs = {}
  BY DEF Init
<1>4. \A d \in Deliveries : hooks[d].pc = "unsent"
  BY DEF Init
<1> QED
  BY <1>1, <1>2, <1>3, <1>4 DEF ClonesAreWhole

\* What is written has a path only if what it was computed from had one.
LEMMA PutKeepsPath ==
  ASSUME suite \in Suite, NEW new \in Suite, Put(new)
  PROVE  suite'.path = new.path
BY DEF Put, Suite

\* A handler has no path but that of the suite it has read.
LEMMA WebhookClones ==
  ASSUME TypeOK, ClonesAreWhole, NEW d \in Deliveries, Webhook(d)
  PROVE  ClonesAreWhole'
<1>1. PICK hook : SetHook(d, hook) /\ (hook.pc = "update" => hook.read = suite)
  <2>1. EnsureSuite(d) => \/ SetHook(d, Done)
                          \/ \E m \in BOOLEAN :
                               SetHook(d, [pc |-> "poll", mergeable |-> m])
    BY DEF EnsureSuite
  <2>2. Done.pc # "update" /\ \A m : [pc |-> "poll", mergeable |-> m].pc # "update"
    BY DEF Done
  <2>3. EnsureSuite(d) => \E hook : SetHook(d, hook) /\ hook.pc # "update"
    BY <2>1, <2>2
  <2> QED
    BY <2>3 DEF Webhook, Requested, Rerequested, CountRerequest, PullChanged,
                UpdateMergeable, Done
<1>2. suite'.path => suite.path \/ (hooks[d].pc = "update" /\ hooks[d].read.path)
  <2>1. ASSUME Create PROVE suite'.path = FALSE
    BY <2>1, FirstSuites, PutKeepsPath DEF TypeOK, Create, NewSuite
  <2>2. CASE Requested(d) \/ EnsureSuite(d)
    BY <2>1, <2>2 DEF Requested, EnsureSuite
  <2>3. CASE Rerequested(d) \/ PullChanged(d)
    BY <2>3 DEF Rerequested, PullChanged
  <2>4. CASE CountRerequest(d)
    <3>1. hooks[d].pc = "update" /\ hooks[d].read \in Suite
      BY <2>4 DEF CountRerequest, TypeOK, Hooks
    <3> DEFINE new == [hooks[d].read EXCEPT !.rerequests = hooks[d].read.rerequests + 1]
    <3>2. new \in Suite /\ new.path = hooks[d].read.path
      BY <3>1 DEF Suite
    <3>3. Put(new) \/ suite' = suite
      BY <2>4 DEF CountRerequest
    <3> QED
      BY <3>1, <3>2, <3>3, PutKeepsPath DEF TypeOK
  <2>5. CASE UpdateMergeable(d)
    <3>1. \A m \in BOOLEAN : [suite EXCEPT !.mergeable = m] \in Suite
            /\ [suite EXCEPT !.mergeable = m].path = suite.path
      BY DEF TypeOK, Suite
    <3> QED
      BY <2>5, <3>1, PutKeepsPath DEF UpdateMergeable, TypeOK
  <2> QED
    BY <2>2, <2>3, <2>4, <2>5 DEF Webhook
<1>3. \A e \in Deliveries : hooks'[e] = IF e = d THEN hook ELSE hooks[e]
  BY <1>1 DEF SetHook, TypeOK
<1>4. UNCHANGED <<suiteCache, worker, managed, clone, runs, crashed>>
  BY <1>1 DEF SetHook, app, disk, checkRuns
<1> QED
  BY <1>1, <1>2, <1>3, <1>4 DEF ClonesAreWhole

\* A step that leaves the suite, its handlers, the runs and the disk alone.
LEMMA OtherClones ==
  ASSUME ClonesAreWhole,
         UNCHANGED <<suite, suiteCache, hooks, runs, clone, managed, crashed>>,
         worker'.pc # "git",
         worker'.pc \in {"path", "create"} => worker.pc = worker'.pc \/ managed,
         worker' # Idle => worker'.read = suiteCache
                           \/ (worker # Idle /\ worker'.read = worker.read)
  PROVE  ClonesAreWhole'
BY DEF ClonesAreWhole

\* The reconciler records the path behind the clone.
LEMMA SuiteControllerClones ==
  ASSUME TypeOK, ClonesAreWhole, SuiteController
  PROVE  ClonesAreWhole'
<1> USE DEF cluster, disk, checkRuns
<1>0. Idle.pc = "idle"
  BY DEF Idle
<1>1. CASE Reconcile
  BY <1>0, <1>1, OtherClones DEF Reconcile
<1>2. CASE FindClone \/ StartClone \/ FinishClone
  <2>1. /\ worker # Idle /\ UNCHANGED <<suite, suiteCache, hooks, runs, crashed>>
        /\ \/ managed /\ worker'.pc = "path" /\ UNCHANGED <<clone, managed>>
           \/ ~managed /\ worker'.pc = "git" /\ managed' = managed
           \/ worker'.pc = "path" /\ clone' = "whole" /\ managed' = TRUE
        /\ worker'.read = worker.read
    BY <1>2, BusyWorker DEF FindClone, StartClone, FinishClone, At, Idle, TypeOK
  <2> QED
    BY <2>1 DEF ClonesAreWhole
<1>3. CASE FailClone
  BY <1>0, <1>3, OtherClones DEF FailClone, Fail
<1>4. CASE WritePath
  <2>0. worker # Idle /\ worker.read \in Suite /\ worker.pc = "path"
    BY <1>4, BusyWorker DEF WritePath, Idle, TypeOK
  <2>1. CASE ~Accepts(worker.read)
    BY <1>0, <1>4, <2>1, OtherClones DEF WritePath, Fail
  <2>2. CASE Accepts(worker.read)
    <3>1. worker'.pc = "create"
      BY <1>4, <2>0, <2>2, BusyWorker DEF WritePath, TypeOK
    <3>2. UNCHANGED <<suiteCache, hooks, runs, clone, managed, crashed>>
      BY <1>4 DEF WritePath
    <3> QED
      BY <2>0, <3>1, <3>2 DEF ClonesAreWhole
  <2> QED
    BY <2>1, <2>2
<1>5. CASE FinishReconcile
  BY <1>0, <1>5, OtherClones DEF FinishReconcile, Fail
<1>6. ASSUME NEW w \in Workspaces, EnsureCheckRun(w)
      PROVE  ClonesAreWhole'
  <2>1. worker # Idle /\ worker.pc = "create"
    BY <1>6 DEF EnsureCheckRun, Idle
  <2>2. worker' = Idle \/ (worker'.read = worker.read /\ worker'.pc = "create")
    BY <1>6, <2>1, BusyWorker DEF EnsureCheckRun, Fail, TypeOK
  <2> QED
    BY <1>0, <1>6, <2>1, <2>2, OtherClones DEF EnsureCheckRun
<1> QED
  BY <1>1, <1>2, <1>3, <1>4, <1>5, <1>6 DEF SuiteController

\* Every step keeps clones whole.
LEMMA ClonesNext == TypeOK /\ ClonesAreWhole /\ [Next]_vars => ClonesAreWhole'
<1> SUFFICES ASSUME TypeOK, ClonesAreWhole, [Next]_vars PROVE ClonesAreWhole'
  OBVIOUS
<1>1. CASE UNCHANGED vars
  BY <1>1 DEF ClonesAreWhole, vars
<1>2. CASE SyncSuite
  BY <1>2 DEF SyncSuite, cluster, checkRuns, disk, ClonesAreWhole
<1>3. CASE SyncChecks
  BY <1>3 DEF SyncChecks, cluster, app, disk, ClonesAreWhole
<1>4. CASE CheckRunController
  <2>1. PICK c \in checksCache : Archive(c)
    BY <1>4 DEF CheckRunController
  <2>2. UNCHANGED <<suite, suiteCache, worker, hooks, clone, managed, crashed>>
    BY <2>1 DEF Archive, cluster, app, disk
  <2>3. ASSUME ~crashed, NEW r \in runs' PROVE r.tree # "partial"
    BY <2>1, <2>3 DEF Archive, ClonesAreWhole
  <2> QED
    BY <2>2, <2>3 DEF ClonesAreWhole
<1>5. ASSUME NEW w \in Workspaces, Connect(w) PROVE ClonesAreWhole'
  BY <1>5 DEF Connect, app, checkRuns, disk, ClonesAreWhole
<1>6. CASE Crash
  BY <1>6 DEF Crash, ClonesAreWhole
<1> QED
  BY <1>1, <1>2, <1>3, <1>4, <1>5, <1>6, WebhookClones, SuiteControllerClones DEF Next

\* Without a crash no run is made of a clone that git has not finished.
THEOREM WholeTrees == Spec => []RunsHaveWholeTrees
<1>1. ClonesAreWhole => RunsHaveWholeTrees
  BY DEF ClonesAreWhole, RunsHaveWholeTrees
<1> QED
  BY <1>1, TypeInit, TypeNext, ClonesInit, ClonesNext, PTL DEF Spec

=============================================================================
