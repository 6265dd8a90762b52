--------------------------- MODULE Launcher_proofs ---------------------------
(***************************************************************************)
(* A launch that fails leaves nothing behind, and what is reported is what *)
(* became of the command, for any limits that pass and any mishaps.        *)
(***************************************************************************)
EXTENDS Launcher, SequenceTheorems, TLAPS

-----------------------------------------------------------------------------
(* Types.                                                                  *)

\* The run as it was last published is an event.
LEMMA RunType ==
  ASSUME history \in Seq(Event), history # <<>>
  PROVE  /\ Run \in Event /\ Run = history[Len(history)]
         /\ Len(history) \in Nat \ {0} /\ Len(history) \in 1..Len(history)
BY EmptySeq, ElementOfSeq DEF Run, Last

\* What is published comes last, and what was published before stays.
LEMMA PublishType ==
  ASSUME history \in Seq(Event), NEW event \in Event, Publish(event)
  PROVE  /\ history' \in Seq(Event) /\ history' # <<>>
         /\ Len(history') = Len(history) + 1 /\ Run' = event
         /\ \A i \in 1..Len(history) : history'[i] = history[i]
         /\ history'[Len(history) + 1] = event
BY AppendProperties DEF Publish, Run, Last

\* Every way in which the operator changes a run gives an event.
LEMMA EventTypes ==
  /\ NewRun \in Event
  /\ \A e \in Event :
       /\ [e EXCEPT !.deleted = TRUE] \in Event
       /\ [e EXCEPT !.conditions = <<"failed">>] \in Event
       /\ [e EXCEPT !.conditions = <<"waiting">>, !.phase = TRUE] \in Event
       /\ [e EXCEPT !.conditions = <<"waiting", "failed">>] \in Event
       /\ [e EXCEPT !.conditions = <<"running">>] \in Event
       /\ \A c \in Codes :
            [e EXCEPT !.conditions = <<"terminated">>, !.code = c] \in Event
<1> DEFINE Conditions == Seq(Reasons \cup {"failed"})
<1>1. /\ <<>> \in Conditions /\ <<"failed">> \in Conditions /\ <<"waiting">> \in Conditions
      /\ <<"waiting", "failed">> \in Conditions /\ <<"running">> \in Conditions
      /\ <<"terminated">> \in Conditions
  BY DEF Reasons
<1> QED
  BY <1>1 DEF Event, NewRun, Codes

\* The initial state is well-typed.
LEMMA TypeInit == Init => TypeOK
<1> SUFFICES ASSUME Init PROVE TypeOK
  OBVIOUS
<1>1. Off \in Watch
  BY DEF Off, Watch
<1>2. pod \in [phase: {"none", "running", "terminated"}, code: Codes]
  BY DEF Init, Codes
<1>3. history \in Seq(Event)
  BY EmptySeq DEF Init
<1> QED
  BY <1>1, <1>2, <1>3 DEF Init, TypeOK

\* A new watch begins with the run as it is, or behind it.
LEMMA NewWatchType ==
  ASSUME TypeOK
  PROVE  NewWatch \in Watch /\ NewWatch.state = "watching"
<1>1. Len(history) \in Nat /\ (history # <<>> => Len(history) \in Nat \ {0})
  BY EmptySeq, LenProperties DEF TypeOK
<1>2. NewWatch.next \in Nat \ {0}
  BY <1>1 DEF NewWatch, RunExists
<1> QED
  BY <1>2 DEF NewWatch, Watch

\* A watch that handles an event is at one that has been published.
LEMMA HandledEvent ==
  ASSUME TypeOK, NEW watch \in Watch, Handles(watch)
  PROVE  /\ watch.next \in 1..Len(history) /\ history[watch.next] \in Event
         /\ watch.next \in Nat \ {0}
         /\ \A state \in {"watching", "done", "failed"} :
              /\ Advance(watch, state) \in Watch
              /\ Advance(watch, state).state = state
              /\ state # "watching" => Advance(watch, state).next = watch.next
<1>1. watch.next \in Nat \ {0} /\ watch.next <= Len(history) /\ Len(history) \in Nat
  <2>1. watch.state = "watching" /\ watch.next <= Len(history)
    BY DEF Handles
  <2>2. watch.next \in Nat \ {0}
    BY <2>1 DEF Watch, Off
  <2>3. Len(history) \in Nat
    BY LenProperties DEF TypeOK
  <2> QED
    BY <2>1, <2>2, <2>3
<1>2. watch.next \in 1..Len(history) /\ history[watch.next] \in Event
  <2>1. watch.next \in 1..Len(history)
    BY <1>1
  <2>2. history \in Seq(Event)
    BY DEF TypeOK
  <2> QED
    BY <2>1, <2>2, ElementOfSeq
<1>3. ASSUME NEW state \in {"watching", "done", "failed"}
      PROVE  /\ Advance(watch, state) \in Watch
             /\ Advance(watch, state).state = state
             /\ state # "watching" => Advance(watch, state).next = watch.next
  <2>1. CASE state = "watching"
    <3>1. Advance(watch, state) = [state |-> state, next |-> watch.next + 1]
            /\ watch.next + 1 \in Nat \ {0}
      BY <1>1, <2>1 DEF Advance
    <3> QED
      BY <2>1, <3>1 DEF Watch
  <2>2. CASE state # "watching"
    <3>1. Advance(watch, state) = [state |-> state, next |-> watch.next]
      BY <2>2 DEF Advance
    <3> QED
      BY <1>1, <2>2, <3>1 DEF Watch
  <2> QED
    BY <2>1, <2>2
<1> QED
  BY <1>1, <1>2, <1>3

\* A watch that is given up has failed.
LEMMA GivenUp ==
  ASSUME NEW watch \in Watch, watch.state = "watching"
  PROVE  /\ [watch EXCEPT !.state = "failed"] \in Watch
         /\ [watch EXCEPT !.state = "failed"].state = "failed"
BY DEF Watch, Off

\* The main goroutine leaves the state well-typed.
LEMMA MainType ==
  ASSUME TypeOK, Main
  PROVE  TypeOK'
<1> USE DEF TypeOK, cluster, threads
<1>1. CASE FinishDeploy
  BY <1>1, NewWatchType DEF FinishDeploy, Fail
<1>2. CASE CheckWorkspace
  <2>1. env.privileged \in BOOLEAN
    BY DEF Environment
  <2> QED
    BY <1>2, <2>1 DEF CheckWorkspace, Fail
<1>3. CASE FinishWait
  BY <1>3, NewWatchType DEF FinishWait, Fail
<1>4. CASE FinishStream
  BY <1>4 DEF FinishStream, Fail
<1>5. CASE AwaitExit
  BY <1>5 DEF AwaitExit, Fail, Report
<1>6. CASE FetchLockFile
  BY <1>6 DEF FetchLockFile, Fail, Report
<1>7. CASE Cleanup
  <2>1. history' \in Seq(Event)
          /\ pod' \in [phase: {"none", "running", "terminated"}, code: Codes]
    <3>1. CASE deploy["run"] = "created" /\ RunExists
      <4>1. DeleteRun
        BY <1>7, <3>1 DEF Cleanup
      <4>2. [Run EXCEPT !.deleted = TRUE] \in Event
        BY <3>1, RunType, EventTypes DEF RunExists
      <4>3. history' \in Seq(Event)
        BY <4>1, <4>2, PublishType DEF DeleteRun
      <4> QED
        BY <4>1, <4>3 DEF DeleteRun
    <3>2. CASE ~(deploy["run"] = "created" /\ RunExists)
      BY <1>7, <3>2 DEF Cleanup
    <3> QED
      BY <3>1, <3>2
  <2> QED
    BY <1>7, <2>1 DEF Cleanup
<1> QED
  BY <1>1, <1>2, <1>3, <1>4, <1>5, <1>6, <1>7 DEF Main

\* The goroutines leave the state well-typed.
LEMMA GoroutinesType ==
  ASSUME TypeOK, Goroutines
  PROVE  TypeOK'
<1> USE DEF TypeOK, cluster
<1>1. CASE CreateArchive
  BY <1>1 DEF CreateArchive
<1>2. CASE CreateRun
  <2>1. history' \in Seq(Event)
    BY <1>2, EventTypes, PublishType DEF CreateRun
  <2>2. deploy' \in [{"archive", "run"} -> {"trying", "created", "failed"}]
    BY <1>2 DEF CreateRun
  <2>3. UNCHANGED <<env, archive, approved, pod, main, waiter, watcher, monitor,
                    interrupted, result>>
    BY <1>2 DEF CreateRun
  <2> QED
    BY <2>1, <2>2, <2>3
<1>3. CASE WaitForReconcile
  BY <1>3, HandledEvent DEF WaitForReconcile, Reconciled
<1>4. CASE WatchRun
  <2>1. Handles(watcher) /\ history[watcher.next] \in Event
    BY <1>4, HandledEvent DEF WatchRun
  <2>2. RunConnectable(history[watcher.next]) \in {"watching", "done", "failed"}
    <3> DEFINE e == history[watcher.next]
    <3>1. e.conditions # <<>> => Head(e.conditions) \in Reasons \cup {"failed"}
      BY <2>1, HeadTailProperties DEF Event
    <3> QED
      BY <3>1 DEF RunConnectable, Reasons
  <2>3. watcher' \in Watch
    BY <1>4, <2>1, <2>2, HandledEvent DEF WatchRun
  <2>4. UNCHANGED <<env, cluster, main, deploy, waiter, monitor, interrupted, result>>
    BY <1>4 DEF WatchRun
  <2> QED
    BY <2>3, <2>4
<1>5. CASE MonitorExit
  BY <1>5, HandledEvent DEF MonitorExit, ExitCode
<1>6. CASE ReconcileTimesOut
  BY <1>6, GivenUp DEF ReconcileTimesOut
<1>7. CASE Cancel
  <2>1. CASE waiter' = [waiter EXCEPT !.state = "failed"] /\ waiter.state = "watching"
               /\ UNCHANGED <<watcher, monitor>>
    BY <1>7, <2>1, GivenUp DEF Cancel
  <2>2. CASE watcher' = [watcher EXCEPT !.state = "failed"] /\ watcher.state = "watching"
               /\ UNCHANGED <<waiter, monitor>>
    BY <1>7, <2>2, GivenUp DEF Cancel
  <2>3. CASE monitor' = [monitor EXCEPT !.state = "failed"] /\ monitor.state = "watching"
               /\ UNCHANGED <<waiter, watcher>>
    BY <1>7, <2>3, GivenUp DEF Cancel
  <2> QED
    BY <1>7, <2>1, <2>2, <2>3 DEF Cancel, Cancelled
<1> QED
  BY <1>1, <1>2, <1>3, <1>4, <1>5, <1>6, <1>7 DEF Goroutines

\* The operator and the pod leave the state well-typed.
LEMMA OperatorType ==
  ASSUME TypeOK, Operator
  PROVE  TypeOK'
<1> USE DEF TypeOK, ByOperator, threads
<1>0. Reconciling => Run \in Event
  BY RunType DEF Reconciling, RunExists
<1>1. CASE FailOrphan \/ HoldRun \/ FailLateRun \/ ReportRunning
  <2>1. history' \in Seq(Event)
    BY <1>0, <1>1, EventTypes, PublishType DEF FailOrphan, HoldRun, FailLateRun,
                                               ReportRunning
  <2> QED
    BY <1>1, <2>1 DEF FailOrphan, HoldRun, FailLateRun, ReportRunning
<1>2. CASE ReportTerminated
  <2>1. history' \in Seq(Event)
    BY <1>0, <1>2, EventTypes, PublishType DEF ReportTerminated
  <2> QED
    BY <1>2, <2>1 DEF ReportTerminated
<1>3. CASE StartPod
  BY <1>3 DEF StartPod
<1>4. CASE EndPod
  <2>1. pod' \in [phase: {"none", "running", "terminated"}, code: Codes]
    <3>1. PICK code \in {"zero", "nonzero"} : pod' = [phase |-> "terminated", code |-> code]
      BY <1>4 DEF EndPod
    <3> QED
      BY <3>1 DEF Codes
  <2> QED
    BY <1>4, <2>1 DEF EndPod
<1> QED
  BY <1>1, <1>2, <1>3, <1>4 DEF Operator

\* Every step leaves the state well-typed.
LEMMA TypeNext == TypeOK /\ [Next]_vars => TypeOK'
<1> SUFFICES ASSUME TypeOK, [Next]_vars PROVE TypeOK'
  OBVIOUS
<1>1. CASE UNCHANGED vars
  BY <1>1 DEF TypeOK, vars
<1>2. CASE Interrupt
  BY <1>2 DEF TypeOK, Interrupt, cluster, threads
<1>3. CASE DeleteByOther
  <2>1. history' \in Seq(Event)
          /\ pod' \in [phase: {"none", "running", "terminated"}, code: Codes]
    BY <1>3, RunType, EventTypes, PublishType DEF DeleteByOther, DeleteRun, RunExists, TypeOK
  <2> QED
    BY <1>3, <2>1 DEF TypeOK, DeleteByOther, threads
<1> QED
  BY <1>1, <1>2, <1>3, MainType, GoroutinesType, OperatorType DEF Next

\* Types are kept whatever limits pass and whatever goes wrong.
THEOREM TypeCorrect == Spec => []TypeOK
BY TypeInit, TypeNext, PTL DEF Spec

-----------------------------------------------------------------------------
(* What is left behind.                                                    *)

\* What a call of deploy has created is there, and nothing else is; the main
\* goroutine goes on when both calls have come to an end; and the launch has a
\* result from when it is decided.
DeployInv ==
  /\ deploy["run"] = "created" <=> history # <<>>
  /\ deploy["archive"] # "created" => archive = "absent"
  /\ main # "deploy" => \A call \in {"archive", "run"} : deploy[call] # "trying"
  /\ main \notin {"cleanup", "done"} => result = "none"
  /\ main = "cleanup" => result = "error"
  /\ NothingIsLeftBehind

\* Nothing is there to begin with.
LEMMA DeployInit == Init => DeployInv
BY DEF Init, DeployInv, NothingIsLeftBehind

\* A step that creates nothing, and publishes only of a run that is there.
LEMMA NoCreation ==
  ASSUME TypeOK, DeployInv, UNCHANGED <<deploy, archive, main, result>>,
         \/ UNCHANGED history
         \/ RunExists /\ \E event \in Event : Publish(event)
  PROVE  DeployInv'
<1>1. CASE UNCHANGED history
  BY <1>1 DEF DeployInv, NothingIsLeftBehind, RunExists
<1>2. CASE RunExists /\ \E event \in Event : Publish(event)
  <2>1. history' # <<>> /\ history # <<>>
    BY <1>2, PublishType DEF TypeOK, RunExists
  <2> QED
    BY <1>2, <2>1 DEF DeployInv, NothingIsLeftBehind
<1> QED
  BY <1>1, <1>2

\* Every step keeps the account of what is left behind.
LEMMA DeployNext == TypeOK /\ DeployInv /\ [Next]_vars => DeployInv'
<1> SUFFICES ASSUME TypeOK, DeployInv, [Next]_vars PROVE DeployInv'
  OBVIOUS
<1>0. RunExists => Run \in Event /\ history # <<>>
  BY RunType DEF RunExists, TypeOK
<1>1. CASE UNCHANGED vars
  BY <1>1, NoCreation DEF vars
<1>2. CASE Main
  <2>1. CASE Cleanup
    <3>1. archive' # "present" /\ (deploy["archive"] # "created" => archive' = archive)
      BY <2>1 DEF Cleanup, DeployInv
    <3>2. ~RunExists' /\ (history' # <<>> <=> history # <<>>)
      <4>1. CASE RunExists
        <5>1. deploy["run"] = "created"
          BY <1>0, <4>1 DEF DeployInv
        <5>2. Publish([Run EXCEPT !.deleted = TRUE])
          BY <2>1, <4>1, <5>1 DEF Cleanup, DeleteRun
        <5>3. Run' = [Run EXCEPT !.deleted = TRUE] /\ history' # <<>>
          BY <1>0, <4>1, <5>2, EventTypes, PublishType DEF TypeOK
        <5>4. Run'.deleted = TRUE
          BY <1>0, <4>1, <5>3 DEF Event
        <5> QED
          BY <1>0, <4>1, <5>3, <5>4 DEF RunExists, Run
      <4>2. CASE ~RunExists
        BY <2>1, <4>2 DEF Cleanup, RunExists
      <4> QED
        BY <4>1, <4>2
    <3> QED
      BY <2>1, <3>1, <3>2 DEF Cleanup, threads, DeployInv, NothingIsLeftBehind
  <2>2. CASE FinishDeploy
    BY <2>2 DEF FinishDeploy, Fail, cluster, DeployInv, NothingIsLeftBehind, TypeOK
  <2>3. CASE CheckWorkspace \/ FinishWait \/ FinishStream
    BY <2>3 DEF CheckWorkspace, FinishWait, FinishStream, Fail, cluster, threads,
                DeployInv, NothingIsLeftBehind
  <2>4. CASE AwaitExit \/ FetchLockFile
    BY <2>4 DEF AwaitExit, FetchLockFile, Fail, Report, cluster, threads,
                DeployInv, NothingIsLeftBehind
  <2> QED
    BY <1>2, <2>1, <2>2, <2>3, <2>4 DEF Main
<1>3. CASE Goroutines
  <2>1. CASE CreateArchive
    BY <2>1 DEF CreateArchive, DeployInv, NothingIsLeftBehind, RunExists, TypeOK
  <2>2. CASE CreateRun
    <3>1. CASE Publish(NewRun) /\ deploy' = [deploy EXCEPT !["run"] = "created"]
      <4>1. history' # <<>>
        BY <3>1, EventTypes, PublishType DEF TypeOK
      <4> QED
        BY <2>2, <3>1, <4>1 DEF CreateRun, DeployInv, NothingIsLeftBehind, TypeOK
    <3>2. CASE deploy' = [deploy EXCEPT !["run"] = "failed"] /\ UNCHANGED history
      BY <2>2, <3>2 DEF CreateRun, DeployInv, NothingIsLeftBehind, RunExists, TypeOK
    <3> QED
      BY <2>2, <3>1, <3>2 DEF CreateRun
  <2>3. CASE WaitForReconcile \/ WatchRun \/ MonitorExit \/ ReconcileTimesOut \/ Cancel
    BY <2>3, NoCreation DEF WaitForReconcile, WatchRun, MonitorExit, ReconcileTimesOut,
                            Cancel, cluster
  <2> QED
    BY <1>3, <2>1, <2>2, <2>3 DEF Goroutines
<1>4. CASE Operator
  <2>1. CASE StartPod \/ EndPod
    BY <2>1, NoCreation DEF StartPod, EndPod, ByOperator, threads
  <2>2. CASE FailOrphan \/ HoldRun \/ FailLateRun \/ ReportRunning
    <3>1. RunExists /\ \E event \in Event : Publish(event)
      BY <1>0, <2>2, EventTypes DEF FailOrphan, HoldRun, FailLateRun, ReportRunning,
                                    Reconciling
    <3> QED
      BY <2>2, <3>1, NoCreation DEF FailOrphan, HoldRun, FailLateRun, ReportRunning,
                                    ByOperator, threads
  <2>3. CASE ReportTerminated
    <3>1. RunExists /\ \E event \in Event : Publish(event)
      BY <1>0, <2>3, EventTypes DEF ReportTerminated, Reconciling, TypeOK
    <3> QED
      BY <2>3, <3>1, NoCreation DEF ReportTerminated, ByOperator, threads
  <2> QED
    BY <1>4, <2>1, <2>2, <2>3 DEF Operator
<1>5. CASE Interrupt
  BY <1>5, NoCreation DEF Interrupt, cluster, threads
<1>6. CASE DeleteByOther
  <2>1. RunExists /\ \E event \in Event : Publish(event)
    BY <1>0, <1>6, EventTypes DEF DeleteByOther, DeleteRun
  <2> QED
    BY <1>6, <2>1, NoCreation DEF DeleteByOther, threads
<1> QED
  BY <1>1, <1>2, <1>3, <1>4, <1>5, <1>6 DEF Next

\* A launch that ends in an error has deleted what it created.
THEOREM NothingLeft == Spec => []NothingIsLeftBehind
<1>1. DeployInv => NothingIsLeftBehind
  BY DEF DeployInv
<1> QED
  BY <1>1, TypeInit, TypeNext, DeployInit, DeployNext, PTL DEF Spec

-----------------------------------------------------------------------------
(* What is reported.                                                       *)

\* A code that has been published is that of the pod, which has one only when
\* it has ended; and a pod that ends has its code once.
CodesAreThePods ==
  /\ \A i \in 1..Len(history) : history[i].code \in {"none", pod.code}
  /\ pod.phase = "running" => pod.code = "none"
  /\ pod.phase = "none" /\ RunExists => pod.code = "none"
  /\ history = <<>> => pod.phase = "none" /\ pod.code = "none"

\* The monitor that is done is at an event with a code.
MonitorInv ==
  monitor.state = "done" =>
    monitor.next \in 1..Len(history) /\ history[monitor.next].code # "none"

ReportInv ==
  /\ CodesAreThePods /\ MonitorInv
  /\ main = "lock file" => pod.code = "zero"
  /\ ReportIsTruthful

\* There is no pod to begin with.
LEMMA ReportInit == Init => ReportInv
BY EmptySeq DEF Init, ReportInv, CodesAreThePods, MonitorInv, ReportIsTruthful, Off

\* An event that is published with no code, or with the pod's, is one more.
LEMMA PublishCodes ==
  ASSUME TypeOK, ReportInv, NEW event \in Event, Publish(event),
         event.code \in {"none", pod.code}, pod'.code = pod.code,
         UNCHANGED <<monitor, main, result>>,
         pod'.phase = pod.phase \/ pod'.phase = "none",
         pod'.phase = "none" /\ RunExists' => pod.code = "none"
  PROVE  ReportInv'
<1>1. /\ Len(history') = Len(history) + 1 /\ Len(history) \in Nat /\ history' # <<>>
      /\ \A i \in 1..Len(history) : history'[i] = history[i]
      /\ history'[Len(history) + 1] = event
  BY PublishType, LenProperties DEF TypeOK
<1>2. \A i \in 1..Len(history') : history'[i].code \in {"none", pod.code}
  <2>1. \A i \in 1..Len(history') : i \in 1..Len(history) \/ i = Len(history) + 1
    BY <1>1
  <2> QED
    BY <1>1, <2>1 DEF ReportInv, CodesAreThePods
<1>3. CodesAreThePods'
  BY <1>1, <1>2 DEF ReportInv, CodesAreThePods
<1>4. MonitorInv'
  <2>1. \A i \in 1..Len(history) : i \in 1..Len(history')
    BY <1>1
  <2> QED
    BY <1>1, <2>1 DEF ReportInv, MonitorInv
<1> QED
  BY <1>3, <1>4 DEF ReportInv, ReportIsTruthful

\* A step that neither publishes nor ends the pod.
LEMMA NothingPublished ==
  ASSUME ReportInv, UNCHANGED <<history, pod, main, result>>, MonitorInv'
  PROVE  ReportInv'
BY DEF ReportInv, CodesAreThePods, ReportIsTruthful, RunExists

\* A deletion publishes the run as it was.
LEMMA DeleteCodes ==
  ASSUME TypeOK, ReportInv, RunExists, DeleteRun, UNCHANGED <<monitor, main, result>>
  PROVE  ReportInv'
<1>1. Run \in Event /\ Run = history[Len(history)] /\ Len(history) \in 1..Len(history)
  BY RunType DEF RunExists, TypeOK
<1> DEFINE event == [Run EXCEPT !.deleted = TRUE]
<1>2. event \in Event /\ event.code = Run.code /\ event.deleted = TRUE
  BY <1>1 DEF Event
<1>3. event.code \in {"none", pod.code}
  BY <1>1, <1>2 DEF ReportInv, CodesAreThePods
<1>4. Publish(event) /\ pod'.phase = "none" /\ pod'.code = pod.code
  BY DEF DeleteRun, TypeOK
<1>5. Run' = event
  BY <1>2, <1>4, PublishType DEF TypeOK
<1>6. ~RunExists'
  BY <1>2, <1>5 DEF RunExists, Run
<1> QED
  BY <1>2, <1>3, <1>4, <1>6, PublishCodes

\* The main goroutine reports the code of the pod.
LEMMA MainReports ==
  ASSUME TypeOK, DeployInv, ReportInv, Main
  PROVE  ReportInv'
<1> USE DEF cluster, threads
<1>0. main # "done"
  BY DEF Main, FinishDeploy, CheckWorkspace, FinishWait, FinishStream, AwaitExit,
         FetchLockFile, Cleanup
<1>1. CASE FinishDeploy
  BY <1>1 DEF FinishDeploy, Fail, ReportInv, CodesAreThePods, MonitorInv,
              ReportIsTruthful, RunExists
<1>2. CASE CheckWorkspace \/ FinishStream
  BY <1>2 DEF CheckWorkspace, FinishStream, Fail, ReportInv, CodesAreThePods, MonitorInv,
              ReportIsTruthful, RunExists
<1>3. CASE FinishWait
  <2>1. monitor' = monitor \/ monitor'.state = "watching"
    BY <1>3 DEF FinishWait, NewWatch
  <2>2. MonitorInv'
    BY <1>3, <2>1 DEF FinishWait, ReportInv, MonitorInv
  <2> QED
    BY <1>3, <2>2 DEF FinishWait, Fail, ReportInv, CodesAreThePods, ReportIsTruthful,
                      RunExists
<1>4. CASE AwaitExit
  <2>1. ASSUME monitor.state = "done"
        PROVE  history[monitor.next].code \in {"zero", "nonzero"}
                 /\ history[monitor.next].code = pod.code
    <3>1. monitor.next \in 1..Len(history) /\ history[monitor.next].code # "none"
      BY <2>1 DEF ReportInv, MonitorInv
    <3>2. history[monitor.next] \in Event
      BY <3>1, ElementOfSeq DEF TypeOK
    <3> QED
      BY <3>1, <3>2 DEF Event, Codes, ReportInv, CodesAreThePods
  <2>2. /\ result' = "ok" => pod.code = "zero"
        /\ result' = "exit" => pod.code = "nonzero"
        /\ main' = "lock file" => pod.code = "zero"
    <3>1. result = "none"
      BY <1>4 DEF AwaitExit, DeployInv
    <3>2. CASE Fail
      BY <3>2 DEF Fail
    <3>3. CASE monitor.state = "done" /\ ~Fail
      <4>1. CASE history[monitor.next].code = "nonzero"
        <5>1. result' = "exit" /\ main' = "done"
          BY <1>4, <3>3, <4>1 DEF AwaitExit, Report
        <5> QED
          BY <2>1, <3>3, <4>1, <5>1
      <4>2. CASE history[monitor.next].code = "zero"
        <5>1. result' \in {"none", "ok"}
          BY <1>4, <3>1, <3>3, <4>2 DEF AwaitExit, Report
        <5> QED
          BY <2>1, <3>3, <4>2, <5>1
      <4> QED
        BY <2>1, <3>3, <4>1, <4>2
    <3> QED
      BY <1>4, <3>2, <3>3 DEF AwaitExit
  <2> QED
    BY <1>4, <2>2 DEF AwaitExit, ReportInv, CodesAreThePods, MonitorInv,
                      ReportIsTruthful, RunExists
<1>5. CASE FetchLockFile
  BY <1>5 DEF FetchLockFile, Fail, Report, ReportInv, CodesAreThePods, MonitorInv,
              ReportIsTruthful, RunExists
<1>6. CASE Cleanup
  <2>1. result = "error" /\ UNCHANGED <<monitor, result>> /\ main' = "done"
    BY <1>6 DEF Cleanup, DeployInv
  <2>2. CASE deploy["run"] = "created" /\ RunExists
    <3>1. Run \in Event /\ Run = history[Len(history)] /\ Len(history) \in 1..Len(history)
      BY <2>2, RunType DEF RunExists, TypeOK
    <3> DEFINE event == [Run EXCEPT !.deleted = TRUE]
    <3>2. Publish(event) /\ pod'.phase = "none" /\ pod'.code = pod.code
      BY <1>6, <2>2 DEF Cleanup, DeleteRun, TypeOK
    <3>3. event \in Event /\ event.code = Run.code /\ event.deleted = TRUE
      BY <3>1 DEF Event
    <3>4. /\ Len(history') = Len(history) + 1 /\ Len(history) \in Nat /\ history' # <<>>
          /\ \A i \in 1..Len(history) : history'[i] = history[i]
          /\ history'[Len(history) + 1] = event /\ Run' = event
      BY <3>2, <3>3, PublishType, LenProperties DEF TypeOK
    <3>5. \A i \in 1..Len(history') : i \in 1..Len(history) \/ i = Len(history) + 1
      BY <3>4
    <3>6. CodesAreThePods'
      <4>1. history[Len(history)].code \in {"none", pod'.code}
        BY <3>1, <3>2 DEF ReportInv, CodesAreThePods
      <4>2. \A i \in 1..Len(history') : history'[i].code \in {"none", pod'.code}
        BY <3>1, <3>2, <3>3, <3>4, <3>5, <4>1 DEF ReportInv, CodesAreThePods
      <4>3. ~RunExists'
        BY <3>3, <3>4 DEF RunExists, Run
      <4> QED
        BY <3>2, <3>4, <4>2, <4>3 DEF CodesAreThePods
    <3>7. MonitorInv'
      <4>1. \A i \in 1..Len(history) : i \in 1..Len(history')
        BY <3>4
      <4> QED
        BY <2>1, <3>4, <4>1 DEF ReportInv, MonitorInv
    <3> QED
      BY <2>1, <3>6, <3>7 DEF ReportInv, ReportIsTruthful
  <2>3. CASE ~(deploy["run"] = "created" /\ RunExists)
    BY <1>6, <2>1, <2>3 DEF Cleanup, ReportInv, CodesAreThePods, MonitorInv,
                            ReportIsTruthful, RunExists
  <2> QED
    BY <2>2, <2>3
<1> QED
  BY <1>1, <1>2, <1>3, <1>4, <1>5, <1>6 DEF Main

\* Every step keeps the reported code.
LEMMA ReportNext == TypeOK /\ DeployInv /\ ReportInv /\ [Next]_vars => ReportInv'
<1> SUFFICES ASSUME TypeOK, DeployInv, ReportInv, [Next]_vars PROVE ReportInv'
  OBVIOUS
<1>0. MonitorInv
  BY DEF ReportInv
<1>1. CASE UNCHANGED vars
  BY <1>0, <1>1, NothingPublished DEF vars, MonitorInv
<1>2. CASE Main
  BY <1>2, MainReports
<1>3. CASE Goroutines
  <2>1. CASE CreateArchive \/ WaitForReconcile \/ WatchRun \/ ReconcileTimesOut
    BY <1>0, <2>1, NothingPublished DEF CreateArchive, WaitForReconcile, WatchRun,
                                        ReconcileTimesOut, cluster, MonitorInv
  <2>2. CASE CreateRun
    <3>1. CASE Publish(NewRun)
      <4>1. NewRun \in Event /\ NewRun.code = "none" /\ history = <<>>
        BY <2>2, EventTypes DEF NewRun, CreateRun, DeployInv
      <4>2. pod.phase = "none" /\ pod.code = "none"
        BY <4>1 DEF ReportInv, CodesAreThePods
      <4> QED
        BY <2>2, <3>1, <4>1, <4>2, PublishCodes DEF CreateRun
    <3>2. CASE UNCHANGED history
      BY <1>0, <2>2, <3>2, NothingPublished DEF CreateRun, MonitorInv
    <3> QED
      BY <2>2, <3>1, <3>2 DEF CreateRun
  <2>3. CASE MonitorExit
    <3>1. Handles(monitor) /\ history[monitor.next] \in Event
            /\ monitor.next \in 1..Len(history)
      BY <2>3, HandledEvent DEF MonitorExit, TypeOK
    <3>2. monitor' = Advance(monitor, ExitCode(history[monitor.next]))
            /\ ExitCode(history[monitor.next]) \in {"watching", "done", "failed"}
      BY <2>3 DEF MonitorExit, ExitCode
    <3>3. monitor'.state = ExitCode(history[monitor.next])
            /\ (monitor'.state # "watching" => monitor'.next = monitor.next)
      BY <3>1, <3>2, HandledEvent DEF TypeOK
    <3>4. monitor'.state = "done" => history[monitor.next].code # "none"
      BY <3>3 DEF ExitCode
    <3>5. MonitorInv'
      BY <2>3, <3>1, <3>3, <3>4 DEF MonitorInv, MonitorExit, cluster
    <3> QED
      BY <2>3, <3>5, NothingPublished DEF MonitorExit, cluster
  <2>4. CASE Cancel
    <3>1. monitor' = monitor \/ monitor'.state = "failed"
      BY <2>4, GivenUp DEF Cancel, Cancelled, TypeOK
    <3>2. MonitorInv'
      BY <1>0, <2>4, <3>1 DEF MonitorInv, Cancel, cluster
    <3> QED
      BY <2>4, <3>2, NothingPublished DEF Cancel, cluster
  <2> QED
    BY <1>3, <2>1, <2>2, <2>3, <2>4 DEF Goroutines
<1>4. CASE Operator
  <2>0. ASSUME RunExists
        PROVE  Run \in Event /\ Run.code \in {"none", pod.code}
    <3>1. Run \in Event /\ Run = history[Len(history)] /\ Len(history) \in 1..Len(history)
      BY <2>0, RunType DEF RunExists, TypeOK
    <3> QED
      BY <3>1 DEF ReportInv, CodesAreThePods
  <2>1. CASE FailOrphan \/ HoldRun \/ FailLateRun \/ ReportRunning
    <3>1. PICK event \in Event : Publish(event) /\ event.code = Run.code
      <4>1. RunExists /\ Run \in Event
        BY <2>0, <2>1 DEF FailOrphan, HoldRun, FailLateRun, ReportRunning, Reconciling
      <4>2. /\ [Run EXCEPT !.conditions = <<"failed">>].code = Run.code
            /\ [Run EXCEPT !.conditions = <<"waiting">>, !.phase = TRUE].code = Run.code
            /\ [Run EXCEPT !.conditions = <<"waiting", "failed">>].code = Run.code
            /\ [Run EXCEPT !.conditions = <<"running">>].code = Run.code
        BY <4>1 DEF Event
      <4> QED
        BY <2>1, <4>1, <4>2, EventTypes DEF FailOrphan, HoldRun, FailLateRun, ReportRunning
    <3>2. RunExists /\ UNCHANGED <<monitor, main, result, pod>>
      BY <2>1 DEF FailOrphan, HoldRun, FailLateRun, ReportRunning, Reconciling, ByOperator,
                  threads
    <3>3. pod.phase = "none" => pod.code = "none"
      BY <3>2 DEF ReportInv, CodesAreThePods
    <3> QED
      BY <2>0, <3>1, <3>2, <3>3, PublishCodes
  <2>2. CASE ReportTerminated
    <3>1. RunExists /\ pod.phase = "terminated" /\ UNCHANGED <<monitor, main, result, pod>>
            /\ Publish([Run EXCEPT !.conditions = <<"terminated">>, !.code = pod.code])
      BY <2>2 DEF ReportTerminated, Reconciling, ByOperator, threads
    <3> DEFINE event == [Run EXCEPT !.conditions = <<"terminated">>, !.code = pod.code]
    <3>2. event \in Event
      BY <2>0, <3>1, EventTypes DEF TypeOK
    <3>3. event.code = pod.code
      BY <2>0, <3>1 DEF Event
    <3> QED
      BY <3>1, <3>2, <3>3, PublishCodes
  <2>3. CASE StartPod
    <3>1. RunExists /\ pod.phase = "none" /\ UNCHANGED <<history, monitor, main, result>>
            /\ pod'.phase = "running" /\ pod'.code = pod.code /\ history # <<>>
      BY <2>3 DEF StartPod, Reconciling, RunExists, ByOperator, threads, TypeOK
    <3>2. pod.code = "none"
      BY <3>1 DEF ReportInv, CodesAreThePods
    <3> QED
      BY <3>1, <3>2 DEF ReportInv, CodesAreThePods, MonitorInv, ReportIsTruthful, RunExists
  <2>4. CASE EndPod
    <3>1. pod.phase = "running" /\ UNCHANGED <<history, monitor, main, result>>
            /\ pod'.phase = "terminated"
      BY <2>4 DEF EndPod, ByOperator, threads
    <3>2. pod.code = "none" /\ history # <<>>
      BY <3>1 DEF ReportInv, CodesAreThePods
    <3>3. \A i \in 1..Len(history) : history[i].code = "none"
      BY <3>2 DEF ReportInv, CodesAreThePods
    <3> QED
      BY <3>1, <3>2, <3>3 DEF ReportInv, CodesAreThePods, MonitorInv, ReportIsTruthful,
                              RunExists
  <2> QED
    BY <1>4, <2>1, <2>2, <2>3, <2>4 DEF Operator
<1>5. CASE Interrupt
  BY <1>0, <1>5, NothingPublished DEF Interrupt, cluster, threads, MonitorInv
<1>6. CASE DeleteByOther
  BY <1>6, DeleteCodes DEF DeleteByOther, threads
<1> QED
  BY <1>1, <1>2, <1>3, <1>4, <1>5, <1>6 DEF Next

\* What the launcher reports is what became of the command.
THEOREM TruthfulReport == Spec => []ReportIsTruthful
<1>1. ReportInv => ReportIsTruthful
  BY DEF ReportInv
<1> QED
  BY <1>1, TypeInit, TypeNext, DeployInit, DeployNext, ReportInit, ReportNext, PTL DEF Spec

=============================================================================
