------------------------------ MODULE Launcher ------------------------------
(***************************************************************************)
(* The client of one run: it creates the run and the archive of its        *)
(* configuration, watches the run, approves it if it must, connects to its *)
(* pod, reports its exit code, and deletes what it created if anything     *)
(* goes wrong on the way.                                                  *)
(*                                                                         *)
(* The launcher's goroutines work concurrently with each other and with    *)
(* the operator, which appears as the history of the run: the events that  *)
(* watches deliver, in order, to whoever watches.  What the operator does  *)
(* within is the subject of module Operator.  A call to the API server     *)
(* that fails has no effect; a deletion succeeds.                          *)
(***************************************************************************)
EXTENDS Naturals, Sequences, SequencesExt

CONSTANTS
  TimesOut,  \* the limits that may be exceeded
  Faults     \* what may go wrong: calls that fail, and events from outside

Limits == {"reconcile", "exit", "run"}
Mishaps == {"archive", "run", "approve", "stream", "lock file", "interrupt",
            "delete"}

ASSUME LauncherAssumption == TimesOut \subseteq Limits /\ Faults \subseteq Mishaps

VARIABLES
  env,       \* what the launcher finds: the command, the workspace, the operator
  history,   \* the versions of the run that the API server has published
  archive,   \* the config map with the configuration
  approved,  \* the workspace has the approval of the run
  pod,       \* the pod of the run
  main,      \* where the launcher's main goroutine is
  deploy,    \* how far the two goroutines of deploy are
  waiter,    \* the goroutine of waitForReconcile
  watcher,   \* the goroutine of watchRun
  monitor,   \* the goroutine of RunExitMonitor
  interrupted, \* the user has interrupted the launcher
  result     \* what the launcher reports

vars == <<env, history, archive, approved, pod, main, deploy, waiter, watcher,
          monitor, interrupted, result>>

cluster == <<history, archive, approved, pod>>
threads == <<deploy, waiter, watcher, monitor>>

\* The conditions of a run, in the order in which the operator added them, the
\* Complete condition given by its reason; its phase is unset until the operator
\* has reconciled it; it has an exit code once it is complete.
Reasons == {"waiting", "running", "terminated"}
Codes   == {"none", "zero", "nonzero"}
Event   == [deleted: BOOLEAN, conditions: Seq(Reasons \cup {"failed"}),
            phase: BOOLEAN, code: Codes]
NewRun  == [deleted |-> FALSE, conditions |-> <<>>, phase |-> FALSE,
            code |-> "none"]

Environment == [privileged: BOOLEAN, attach: BOOLEAN, updatesLockFile: BOOLEAN,
                workspace: {"ready", "unready", "missing"}, operator: BOOLEAN]

Off == [state |-> "off", next |-> 0]
Watch == {Off} \cup [state: {"watching", "done", "failed"}, next: Nat \ {0}]

TypeOK ==
  /\ env \in Environment
  /\ history \in Seq(Event)
  /\ archive \in {"absent", "present", "deleted"}
  /\ approved \in BOOLEAN
  /\ pod \in [phase: {"none", "running", "terminated"}, code: Codes]
  /\ main \in {"deploy", "check", "wait", "stream", "await", "lock file",
               "cleanup", "done"}
  /\ deploy \in [{"archive", "run"} -> {"trying", "created", "failed"}]
  /\ waiter \in Watch /\ watcher \in Watch /\ monitor \in Watch
  /\ interrupted \in BOOLEAN
  /\ result \in {"none", "ok", "exit", "error"}

Init ==
  /\ env \in Environment
  /\ history = <<>> /\ archive = "absent" /\ approved = FALSE
  /\ pod = [phase |-> "none", code |-> "none"]
  /\ main = "deploy"
  /\ deploy = [call \in {"archive", "run"} |-> "trying"]
  /\ waiter = Off /\ watcher = Off /\ monitor = Off
  /\ interrupted = FALSE
  /\ result = "none"

RunExists == history # <<>> /\ ~Last(history).deleted
Run       == Last(history)
Publish(event) == history' = Append(history, event)

-----------------------------------------------------------------------------
(* The launcher's main goroutine.                                          *)

Fail == main' = "cleanup" /\ result' = "error"

Report(outcome) == main' = "done" /\ result' = outcome

\* A call of deploy fails by itself, or because its context is cancelled.
MayFail(call) ==
  \/ call \in Faults \/ interrupted
  \/ \E other \in DOMAIN deploy : deploy[other] = "failed"

CreateArchive ==
  /\ deploy["archive"] = "trying"
  /\ \/ archive' = "present" /\ deploy' = [deploy EXCEPT !["archive"] = "created"]
     \/ /\ MayFail("archive")
        /\ deploy' = [deploy EXCEPT !["archive"] = "failed"] /\ UNCHANGED archive
  /\ UNCHANGED <<env, history, approved, pod, main, waiter, watcher, monitor,
                 interrupted, result>>

CreateRun ==
  /\ deploy["run"] = "trying"
  /\ \/ Publish(NewRun) /\ deploy' = [deploy EXCEPT !["run"] = "created"]
     \/ /\ MayFail("run")
        /\ deploy' = [deploy EXCEPT !["run"] = "failed"] /\ UNCHANGED history
  /\ UNCHANGED <<env, archive, approved, pod, main, waiter, watcher, monitor,
                 interrupted, result>>

\* A watch begins with the run as it is, and hears nothing if there is none.
NewWatch == [state |-> "watching",
             next |-> IF RunExists THEN Len(history) ELSE Len(history) + 1]

\* Slip: the first error ends the deployment, whatever the other call does.
FinishDeployAtOnce ==
  /\ main = "deploy"
  /\ \/ /\ \E call \in DOMAIN deploy : deploy[call] = "failed"
        /\ Fail /\ UNCHANGED <<waiter, watcher>>
     \/ /\ \A call \in DOMAIN deploy : deploy[call] = "created"
        /\ main' = "check" /\ waiter' = NewWatch /\ watcher' = NewWatch
        /\ UNCHANGED result
  /\ UNCHANGED <<env, cluster, deploy, monitor, interrupted>>

FinishDeploy ==
  /\ main = "deploy"
  /\ \A call \in DOMAIN deploy : deploy[call] # "trying"
  /\ \/ /\ \E call \in DOMAIN deploy : deploy[call] = "failed"
        /\ Fail /\ UNCHANGED <<waiter, watcher>>
     \/ /\ \A call \in DOMAIN deploy : deploy[call] = "created"
        /\ main' = "check" /\ waiter' = NewWatch /\ watcher' = NewWatch
        /\ UNCHANGED result
  /\ UNCHANGED <<env, cluster, deploy, monitor, interrupted>>

\* The workspace must be there and ready; a privileged command is approved on
\* it, which is refused to users without the right and on a conflict.
CheckWorkspace ==
  /\ main = "check"
  /\ \/ /\ env.workspace # "ready" \/ interrupted
           \/ (env.privileged /\ "approve" \in Faults)
        /\ Fail /\ UNCHANGED approved
     \/ /\ env.workspace = "ready"
        /\ main' = "wait" /\ approved' = env.privileged /\ UNCHANGED result
  /\ UNCHANGED <<env, history, archive, pod, threads, interrupted>>

\* Both watches have ended.
FinishWait ==
  /\ main = "wait"
  /\ waiter.state # "watching" /\ watcher.state # "watching"
  /\ IF "failed" \in {waiter.state, watcher.state}
     THEN Fail /\ UNCHANGED monitor
     ELSE main' = "stream" /\ monitor' = NewWatch /\ UNCHANGED result
  /\ UNCHANGED <<env, cluster, deploy, waiter, watcher, interrupted>>

\* The connection to the pod ends with the pod, or early.
FinishStream ==
  /\ main = "stream"
  /\ \/ /\ pod.phase # "running"
        /\ main' = "await" /\ UNCHANGED result
     \/ /\ "stream" \in Faults \/ (interrupted /\ ~env.attach)
        /\ Fail
  /\ UNCHANGED <<env, cluster, threads, interrupted>>

AwaitExit ==
  /\ main = "await"
  /\ \/ /\ monitor.state = "failed" /\ Fail
     \/ /\ monitor.state = "done"
        /\ IF history[monitor.next].code = "nonzero" THEN Report("exit")
           ELSE IF env.updatesLockFile THEN main' = "lock file" /\ UNCHANGED result
           ELSE Report("ok")
     \/ "exit" \in TimesOut /\ Fail
  /\ UNCHANGED <<env, cluster, threads, interrupted>>

FetchLockFile ==
  /\ main = "lock file"
  /\ \/ Report("ok")
     \/ ("lock file" \in Faults \/ interrupted) /\ Fail
  /\ UNCHANGED <<env, cluster, threads, interrupted>>

\* Deleting a run takes its pod with it.
DeleteRun ==
  /\ Publish([Run EXCEPT !.deleted = TRUE])
  /\ pod' = [pod EXCEPT !.phase = "none"]

Cleanup ==
  /\ main = "cleanup"
  /\ main' = "done"
  /\ IF deploy["run"] = "created" /\ RunExists
     THEN DeleteRun ELSE UNCHANGED <<history, pod>>
  /\ archive' = IF deploy["archive"] = "created" THEN "deleted" ELSE archive
  /\ UNCHANGED <<env, approved, threads, interrupted, result>>

-----------------------------------------------------------------------------
(* The goroutines that watch the run.  One that handles an event ends or   *)
(* goes on to the next.                                                    *)

Handles(watch) == watch.state = "watching" /\ watch.next <= Len(history)

Advance(watch, state) ==
  [state |-> state, next |-> IF state = "watching" THEN watch.next + 1
                                                   ELSE watch.next]

Reconciled(event) ==
  IF event.deleted THEN "failed" ELSE IF event.phase THEN "done" ELSE "watching"

\* The loop over the conditions returns from the first of them.
RunConnectable(event) ==
  IF event.deleted THEN "failed"
  ELSE IF event.conditions = <<>> THEN "watching"
  ELSE CASE Head(event.conditions) = "failed"     -> "failed"
         [] Head(event.conditions) = "waiting"    -> "watching"
         [] Head(event.conditions) = "running"    -> "done"
         [] Head(event.conditions) = "terminated" ->
              IF env.attach THEN "failed" ELSE "done"

\* Slip: a run that is done watching without a code counts as successful.
ExitCodeOfAny(event) == IF event.deleted THEN "failed" ELSE "done"

ExitCode(event) ==
  IF event.deleted THEN "failed"
  ELSE IF event.code # "none" THEN "done" ELSE "watching"

WaitForReconcile ==
  /\ Handles(waiter)
  /\ waiter' = Advance(waiter, Reconciled(history[waiter.next]))
  /\ UNCHANGED <<env, cluster, main, deploy, watcher, monitor, interrupted, result>>

WatchRun ==
  /\ Handles(watcher)
  /\ watcher' = Advance(watcher, RunConnectable(history[watcher.next]))
  /\ UNCHANGED <<env, cluster, main, deploy, waiter, monitor, interrupted, result>>

MonitorExit ==
  /\ Handles(monitor)
  /\ monitor' = Advance(monitor, ExitCode(history[monitor.next]))
  /\ UNCHANGED <<env, cluster, main, deploy, waiter, watcher, interrupted, result>>

\* Slip: nothing limits the wait for the operator.
NeverTimeOut == FALSE /\ UNCHANGED vars

ReconcileTimesOut ==
  /\ "reconcile" \in TimesOut
  /\ waiter.state = "watching"
  /\ waiter' = [waiter EXCEPT !.state = "failed"]
  /\ UNCHANGED <<env, cluster, main, deploy, watcher, monitor, interrupted, result>>

\* waitForReconcile and watchRun share a context, which ends with the first
\* that fails; the interrupt of the user ends it, and that of the monitor.
Cancelled(watch) ==
  /\ watch.state = "watching"
  /\ interrupted \/ (main \in {"check", "wait"}
                     /\ "failed" \in {waiter.state, watcher.state})

Cancel ==
  /\ \/ /\ Cancelled(waiter) /\ waiter' = [waiter EXCEPT !.state = "failed"]
        /\ UNCHANGED <<watcher, monitor>>
     \/ /\ Cancelled(watcher) /\ watcher' = [watcher EXCEPT !.state = "failed"]
        /\ UNCHANGED <<waiter, monitor>>
     \/ /\ Cancelled(monitor) /\ monitor' = [monitor EXCEPT !.state = "failed"]
        /\ UNCHANGED <<waiter, watcher>>
  /\ UNCHANGED <<env, cluster, main, deploy, interrupted, result>>

-----------------------------------------------------------------------------
(* The user and others with access to the run.                             *)

Interrupt ==
  /\ "interrupt" \in Faults /\ ~interrupted /\ main # "done"
  /\ interrupted' = TRUE
  /\ UNCHANGED <<env, cluster, main, threads, result>>

DeleteByOther ==
  /\ "delete" \in Faults /\ RunExists /\ main # "done"
  /\ DeleteRun
  /\ UNCHANGED <<env, archive, approved, main, threads, interrupted, result>>

(* The operator and the pod.                                               *)

Reconciling == env.operator /\ RunExists

ByOperator ==
  UNCHANGED <<env, archive, approved, main, threads, interrupted, result>>

\* A run whose workspace is missing fails, and gets no phase.
FailOrphan ==
  /\ Reconciling /\ env.workspace = "missing" /\ Run.conditions = <<>>
  /\ Publish([Run EXCEPT !.conditions = <<"failed">>])
  /\ ByOperator /\ UNCHANGED pod

\* It waits for the queue and for its pod...
HoldRun ==
  /\ Reconciling /\ env.workspace # "missing" /\ Run.conditions = <<>>
  /\ Publish([Run EXCEPT !.conditions = <<"waiting">>, !.phase = TRUE])
  /\ ByOperator /\ UNCHANGED pod

\* ...which it gets once it is approved, if it must be...
StartPod ==
  /\ Reconciling /\ Run.conditions = <<"waiting">>
  /\ pod.phase = "none" /\ (env.privileged => approved)
  /\ pod' = [pod EXCEPT !.phase = "running"]
  /\ ByOperator /\ UNCHANGED history

\* ...or it is failed for having waited too long.
FailLateRun ==
  /\ "run" \in TimesOut
  /\ Reconciling /\ Run.conditions = <<"waiting">> /\ pod.phase = "none"
  /\ Publish([Run EXCEPT !.conditions = <<"waiting", "failed">>])
  /\ ByOperator /\ UNCHANGED pod

ReportRunning ==
  /\ Reconciling /\ Run.conditions = <<"waiting">> /\ pod.phase = "running"
  /\ Publish([Run EXCEPT !.conditions = <<"running">>])
  /\ ByOperator /\ UNCHANGED pod

EndPod ==
  /\ pod.phase = "running"
  /\ \E code \in {"zero", "nonzero"} :
       pod' = [phase |-> "terminated", code |-> code]
  /\ ByOperator /\ UNCHANGED history

ReportTerminated ==
  /\ Reconciling /\ pod.phase = "terminated"
  /\ Run.conditions \in {<<"waiting">>, <<"running">>}
  /\ Publish([Run EXCEPT !.conditions = <<"terminated">>, !.code = pod.code])
  /\ ByOperator /\ UNCHANGED pod

-----------------------------------------------------------------------------

Main ==
  \/ FinishDeploy \/ CheckWorkspace \/ FinishWait \/ FinishStream
  \/ AwaitExit \/ FetchLockFile \/ Cleanup

Goroutines ==
  \/ CreateArchive \/ CreateRun
  \/ WaitForReconcile \/ WatchRun \/ MonitorExit \/ ReconcileTimesOut \/ Cancel

Operator ==
  \/ FailOrphan \/ HoldRun \/ StartPod \/ FailLateRun \/ ReportRunning \/ EndPod
  \/ ReportTerminated

Next == Main \/ Goroutines \/ Operator \/ Interrupt \/ DeleteByOther

Spec == Init /\ [][Next]_vars

\* Every goroutine runs, every timer fires, and the operator, if there is one,
\* keeps to its work.  That it fails runs that wait too long, or that have no
\* workspace, is up to it: the launcher has its own checks for both.
Fairness ==
  /\ WF_vars(Main)
  /\ WF_vars(CreateArchive) /\ WF_vars(CreateRun)
  /\ WF_vars(WaitForReconcile) /\ WF_vars(WatchRun) /\ WF_vars(MonitorExit)
  /\ WF_vars(ReconcileTimesOut) /\ WF_vars(Cancel)
  /\ WF_vars(HoldRun) /\ WF_vars(StartPod) /\ WF_vars(ReportRunning)
  /\ WF_vars(EndPod) /\ WF_vars(ReportTerminated)

FairSpec == Spec /\ Fairness

-----------------------------------------------------------------------------

\* A launcher that ends in an error, other than the exit code of the command,
\* leaves neither the run nor its archive behind, whichever of its goroutines
\* failed and whatever the others were doing.
NothingIsLeftBehind ==
  main = "done" /\ result = "error" => ~RunExists /\ archive # "present"

\* What the launcher reports is what became of the command: success and failure
\* are those of the pod, whatever happened to the run since.
ReportIsTruthful ==
  /\ result = "ok" => pod.code = "zero"
  /\ result = "exit" => pod.code = "nonzero"

\* The launcher ends: it does not wait for what will never happen, be it that
\* there is no operator, that its run is deleted or that its workspace is
\* missing, unless the operator fails the run for having waited too long.
RunIsLate == history # <<>> /\ Run.conditions = <<"waiting", "failed">>
EndsUnlessRunIsLate == <>(main = "done" \/ RunIsLate)
=============================================================================
