------------------------------- MODULE CheckRun -------------------------------
(***************************************************************************)
(* One check run of the GitHub app: the resource that stands for it, the   *)
(* reconciler that creates etok runs for it and reports them to GitHub,    *)
(* the webhook handlers that add events to it, the client that sends       *)
(* requests to GitHub one at a time, and GitHub itself with its users.     *)
(*                                                                         *)
(* The reconciler reads through caches that trail the API server; webhook  *)
(* handlers read from the API server.  A write is refused if the object    *)
(* has changed since it was read.  Each user's request starts a new        *)
(* iteration, and each iteration has an etok run of its own.  The operator *)
(* moves runs on, and back while they are not done.  The check suite and   *)
(* the workspace exist throughout, and the pull request is mergeable       *)
(* (without that, no Apply button is shown).                               *)
(***************************************************************************)
EXTENDS Naturals, Sequences, FiniteSets

CONSTANTS
  MaxRequests,  \* bound: how often users ask for another run
  Faults        \* the calls that may fail, and "crash"

Iterations == 0..MaxRequests

ASSUME CheckRunAssumption ==
  /\ MaxRequests \in Nat
  /\ Faults \subseteq {"archive", "logs", "create", "update", "crash"}

VARIABLES
  check,       \* API server: the CheckRun resource
  runs,        \* API server: the etok run of each iteration, and its command
  checkCache,  \* informer cache of the check run
  runCache,    \* informer cache of the runs: their states
  todo,        \* work queue of the reconciler: is there a request?
  worker,      \* the reconciler
  requests,    \* what the asynchronous client has taken and not yet done
  github,      \* GitHub: how many check runs it has, and what the first shows
  webhooks,    \* events GitHub has yet to deliver
  handlers,    \* events whose handler has read the present check run
  asked,       \* how often users have asked for another run
  crashed      \* whether the app has crashed (it does so once)

vars == <<check, runs, checkCache, runCache, todo, worker, requests, github,
          webhooks, handlers, asked, crashed>>

-----------------------------------------------------------------------------
(* Etok runs.  All that is told apart of the conditions of a run is the    *)
(* status that a check run has on its account; a run that has completed and *)
(* one that has failed have the same.                                      *)

Statuses == {"queued", "in_progress", "completed"}
States   == {"absent"} \cup Statuses
Commands == {"plan", "apply"}
Run      == [state: States, command: Commands]

NoRun == [state |-> "absent", command |-> "plan"]

\* Slip: the status of a run that does not exist is not translated.
StatusOfMissing(state) == state

\* A run has no status before it exists: the check run is queued then.
StatusOf(state) == IF state = "absent" THEN "queued" ELSE state

-----------------------------------------------------------------------------
(* The check run.  "plan" is any event that asks for another plan: the     *)
(* Plan button and GitHub's own button to re-run a check are treated alike.*)

Asks   == {"plan", "apply"}
Events == Asks \cup {"created", "completed"}
Check  == [events: Seq(Events), requested: BOOLEAN, iterations: Seq(BOOLEAN),
           status: Statuses]

IsCreated(cr) == \E n \in DOMAIN cr.events : cr.events[n] = "created"

CurrentIteration(cr) == Cardinality({n \in DOMAIN cr.events : cr.events[n] \in Asks})

\* Slip: a check run that was asked to apply once applies ever after.
CommandOfAnyEvent(cr) ==
  IF \E n \in DOMAIN cr.events : cr.events[n] = "apply" THEN "apply" ELSE "plan"

Command(cr) ==
  IF cr.events # <<>> /\ cr.events[Len(cr.events)] = "apply" THEN "apply" ELSE "plan"

\* Slip: iterations that never ran are given the flag of the current one.
SetAllIterations(iterations, i, completed) ==
  [n \in 1..(i + 1) |-> IF n <= Len(iterations) /\ n # i + 1
                        THEN iterations[n] ELSE completed]

SetIterationStatus(iterations, i, completed) ==
  [n \in 1..(i + 1) |-> IF n = i + 1 THEN completed
                        ELSE n <= Len(iterations) /\ iterations[n]]

(* What is sent to GitHub; "known" tells an update from a create request.  *)

Update == [known: BOOLEAN, iteration: Iterations, status: Statuses,
           apply: BOOLEAN]

\* Slip: the button is offered behind any result.
UpdateOfAnyCommand(cr, status) ==
  [known |-> IsCreated(cr), iteration |-> CurrentIteration(cr),
   status |-> status, apply |-> status = "completed"]

\* The Apply button is offered behind the result of a plan.
UpdateOf(cr, status) ==
  [known |-> IsCreated(cr), iteration |-> CurrentIteration(cr),
   status |-> status,
   apply |-> status = "completed" /\ Command(cr) = "plan"]

Idle   == [pc |-> "idle"]
Worker == {Idle}
          \cup [pc: {"status"}, read: Check, update: Update, send: BOOLEAN,
                error: BOOLEAN]
          \cup [pc: {"send"}, update: Update, error: BOOLEAN]

Webhooks == [event: Events, number: Nat]

TypeOK ==
  /\ check \in Check /\ checkCache \in Check
  /\ runs \in [Iterations -> Run] /\ runCache \in [Iterations -> States]
  /\ todo \in BOOLEAN
  /\ worker \in Worker
  /\ requests \subseteq Update
  /\ github.created \in Nat
  /\ github.created > 0 => github.shown \in Update
  /\ webhooks \subseteq Webhooks
  /\ handlers \subseteq Events
  /\ asked \in Iterations
  /\ crashed \in BOOLEAN

\* What a cache of the runs that is up to date holds.
RunsNow == [i \in Iterations |-> runs[i].state]

Init ==
  /\ check = [events |-> <<>>, requested |-> FALSE, iterations |-> <<>>,
              status |-> "queued"]
  /\ runs = [i \in Iterations |-> NoRun]
  /\ checkCache = check /\ runCache = RunsNow
  /\ todo = TRUE
  /\ worker = Idle
  /\ requests = {}
  /\ github = [created |-> 0]
  /\ webhooks = {} /\ handlers = {}
  /\ asked = 0 /\ crashed = FALSE

\* A write that changes the check run makes what the handlers have read out of
\* date.  They retry on conflict, but with the same object: their events are
\* lost.
PutCheck(new) ==
  /\ check' = new
  /\ handlers' = IF new = check THEN handlers ELSE {}

-----------------------------------------------------------------------------
(* Watch events: a cache catches up, and the check run is enqueued, as the *)
(* object itself or as the owner of its runs.  A change of the check suite *)
(* enqueues it as well.                                                    *)

SyncCheck ==
  /\ checkCache # check
  /\ checkCache' = check /\ todo' = TRUE
  /\ UNCHANGED <<check, runs, runCache, worker, requests, github, webhooks,
                 handlers, asked, crashed>>

\* Slip: the reconciler does not watch runs.
SyncRunsAlone ==
  /\ runCache # RunsNow
  /\ runCache' = RunsNow
  /\ UNCHANGED <<check, runs, checkCache, todo, worker, requests, github,
                 webhooks, handlers, asked, crashed>>

SyncRuns ==
  /\ runCache # RunsNow
  /\ runCache' = RunsNow /\ todo' = TRUE
  /\ UNCHANGED <<check, runs, checkCache, worker, requests, github, webhooks,
                 handlers, asked, crashed>>

SyncSuite ==
  /\ ~todo /\ todo' = TRUE
  /\ UNCHANGED <<check, runs, checkCache, runCache, worker, requests, github,
                 webhooks, handlers, asked, crashed>>

-----------------------------------------------------------------------------
(* The reconciler.                                                         *)

\* Makes the archive of the clone, creates the run and then the config map
\* with the archive.  The run may exist although the cache does not have it.
CreateRunResources(i, command, error) ==
  \/ /\ error /\ ("archive" \in Faults \/ runs[i].state # "absent")
     /\ UNCHANGED runs
  \/ /\ error => "archive" \in Faults
     /\ runs[i].state = "absent"
     /\ runs' = [runs EXCEPT ![i] =
                   [state |-> "queued", command |-> command]]

\* Reads the check run, its suite and the run of its current iteration, which
\* it creates if there is none; whatever comes of it will be reported.
Reconcile ==
  /\ todo /\ worker = Idle
  /\ \E error \in BOOLEAN :
       LET i == CurrentIteration(checkCache)
           state == runCache[i]
       IN /\ IF state = "absent"
             THEN CreateRunResources(i, Command(checkCache), error)
             ELSE /\ error => state # "queued" /\ "logs" \in Faults
                  /\ UNCHANGED runs
          /\ worker' = [pc |-> "status", read |-> checkCache, error |-> error,
                        update |-> UpdateOf(checkCache, StatusOf(state)),
                        send |-> IsCreated(checkCache) \/ ~checkCache.requested]
  /\ todo' = FALSE
  /\ UNCHANGED <<check, checkCache, runCache, requests, github, webhooks,
                 handlers, asked, crashed>>

\* Slip: the status is patched, whatever has happened to the check run since.
IsLatestUnchecked(read) == TRUE

IsLatest(read) == check = read

\* Writes the status of the check run that was read above; if it has been read
\* late, or has changed since, the request returns to its queue.
UpdateStatus ==
  /\ worker.pc = "status"
  /\ LET read == worker.read
         status == worker.update.status
     IN IF IsLatest(read)
        THEN /\ PutCheck([events |-> read.events,
                          requested |-> read.requested \/ ~IsCreated(read),
                          iterations |-> SetIterationStatus(read.iterations,
                            CurrentIteration(read), status = "completed"),
                          status |-> status])
             /\ worker' = IF worker.send
                          THEN [pc |-> "send", update |-> worker.update,
                                error |-> worker.error]
                          ELSE Idle
             /\ todo' = (todo \/ (worker.error /\ ~worker.send))
        ELSE worker' = Idle /\ todo' = TRUE /\ UNCHANGED <<check, handlers>>
  /\ UNCHANGED <<runs, checkCache, runCache, requests, github, webhooks, asked,
                 crashed>>

\* Slip: the channel has a buffer and requests are invoked concurrently.
AcceptsAlways == TRUE

\* The channel has no buffer: the client takes a request when it has done the
\* one before, and the reconciler waits for it.
Accepts == requests = {}

SendUpdate ==
  /\ worker.pc = "send" /\ Accepts
  /\ requests' = requests \cup {worker.update}
  /\ worker' = Idle /\ todo' = (todo \/ worker.error)
  /\ UNCHANGED <<check, runs, checkCache, runCache, github, webhooks, handlers,
                 asked, crashed>>

\* The client creates or updates the check run on GitHub; an error is logged
\* and the request is gone.  GitHub tells the app what has happened.
Invoke(update) ==
  /\ update \in requests
  /\ requests' = requests \ {update}
  /\ \/ /\ (IF update.known THEN "update" ELSE "create") \in Faults
        /\ UNCHANGED <<github, webhooks>>
     \/ LET created == github.created + (IF update.known THEN 0 ELSE 1)
            isNews  == github.created = 0 \/ github.shown.status # "completed"
        IN /\ github' = [created |-> created, shown |-> update]
           /\ webhooks' = webhooks
                \cup {hook \in {[event |-> "created", number |-> created]} :
                        ~update.known}
                \cup {hook \in {[event |-> "completed",
                                number |-> update.iteration]} :
                        update.status = "completed" /\ isNews}
  /\ UNCHANGED <<check, runs, checkCache, runCache, todo, worker, handlers,
                 asked, crashed>>

-----------------------------------------------------------------------------
(* Webhooks.  Events are delivered in any order and handled concurrently.  *)

Deliver(hook) ==
  /\ hook \in webhooks
  /\ webhooks' = webhooks \ {hook}
  /\ handlers' = handlers \cup {hook.event}
  /\ UNCHANGED <<check, runs, checkCache, runCache, todo, worker, requests,
                 github, asked, crashed>>

\* Adds the event to the check run that was read.
AddEvent(event) ==
  /\ event \in handlers
  /\ PutCheck([check EXCEPT !.events = Append(@, event)])
  /\ UNCHANGED <<runs, checkCache, runCache, todo, worker, requests, github,
                 webhooks, asked, crashed>>

-----------------------------------------------------------------------------
(* The surroundings.                                                       *)

\* A user presses one of the buttons that GitHub shows.
Ask(event) ==
  /\ asked < MaxRequests
  /\ github.created > 0
  /\ github.shown.status = "completed"
  /\ event = "apply" => github.shown.apply
  /\ asked' = asked + 1
  /\ webhooks' = webhooks \cup {[event |-> event, number |-> asked + 1]}
  /\ UNCHANGED <<check, runs, checkCache, runCache, todo, worker, requests,
                 github, handlers, crashed>>

\* The operator moves a run on, or back: a run with a pod that is pending or
\* running is queued again when the workspace no longer has it as its active run,
\* or when its pod is gone.  A run that is done is left as it is.
MoveRun(i) ==
  /\ runs[i].state \in {"queued", "in_progress"}
  /\ \E state \in Statuses \ {runs[i].state} :
       runs' = [runs EXCEPT ![i].state = state]
  /\ UNCHANGED <<check, checkCache, runCache, todo, worker, requests, github,
                 webhooks, handlers, asked, crashed>>

\* The process of the app ends and is started again.
Crash ==
  /\ "crash" \in Faults /\ ~crashed
  /\ crashed' = TRUE
  /\ checkCache' = check /\ runCache' = RunsNow /\ todo' = TRUE
  /\ worker' = Idle /\ requests' = {} /\ handlers' = {}
  /\ UNCHANGED <<check, runs, github, webhooks, asked>>

-----------------------------------------------------------------------------

Watch == SyncCheck \/ SyncRuns \/ SyncSuite
App   == \/ Reconcile \/ UpdateStatus \/ SendUpdate
         \/ \E update \in requests : Invoke(update)
         \/ \E event \in handlers : AddEvent(event)
GitHub == \/ \E hook \in webhooks : Deliver(hook)
          \/ \E event \in Asks : Ask(event)
Operator == \E i \in Iterations : MoveRun(i)

Next == Watch \/ App \/ GitHub \/ Operator \/ Crash

Spec == Init /\ [][Next]_vars
-----------------------------------------------------------------------------
(* Properties.                                                             *)

\* At most one check run is created on GitHub, although the check run that
\* tells whether one has been requested is read from a cache, the request is
\* sent after it has been recorded, and the app may crash in between.
OneCheckRunOnGitHub == github.created <= 1

\* An iteration is recorded as completed only if its run is done.  An iteration is
\* passed over when the next request comes before the reconciler has seen it: its
\* run never exists, and it is not recorded as completed, although the record is
\* filled up to the current iteration (setIterationStatus).
IterationsAreTruthful ==
  \A n \in DOMAIN check.iterations :
    check.iterations[n] => runs[n - 1].state = "completed"

\* The n-th event that asks for a run starts iteration n: a run applies only
\* if that event was a request to apply, whatever events came in around it.
AppliesWereRequested ==
  \A i \in Iterations : runs[i].state # "absent" /\ runs[i].command = "apply" =>
    \E n \in DOMAIN check.events :
      /\ check.events[n] = "apply"
      /\ Cardinality({m \in 1..n : check.events[m] \in Asks}) = i

\* What GitHub shows never goes back to an earlier iteration, and an iteration
\* that it shows as completed remains so, although updates are made from caches
\* and sent in the background.  (A run that is not done may be queued again.)
GitHubNeverRegresses ==
  [][github.created > 0 =>
       \/ github'.shown.iteration > github.shown.iteration
       \/ /\ github'.shown.iteration = github.shown.iteration
          /\ github.shown.status = "completed" => github'.shown.status = "completed"]_vars

\* No news is lost on the way from the run through caches, conflicts, failed
\* reconciles and a restart to GitHub: once the app knows the check run there
\* and has nothing left to do, GitHub shows how far the current run has come.
\* (This needs requests not to fail: what fails is not sent again.)
AtRest == /\ ~todo /\ worker = Idle /\ requests = {}
          /\ checkCache = check /\ runCache = RunsNow

NoNewsIsLost ==
  AtRest /\ IsCreated(check) =>
    LET i == CurrentIteration(check)
    IN /\ github.shown.iteration = i
       /\ github.shown.status = runs[i].state
       /\ check.status = runs[i].state

\* The Apply button is offered behind a plan - or, of which the README says more,
\* behind an apply that was followed by an event that asks for nothing.
ApplyIsOfferedAfterPlan ==
  github.created > 0 /\ github.shown.apply =>
    LET i == github.shown.iteration
    IN \/ runs[i].command = "plan"
       \/ \E n \in DOMAIN check.events :
            /\ check.events[n] \notin Asks
            /\ Cardinality({m \in 1..n : check.events[m] \in Asks}) = i
=============================================================================
