----------------------------- MODULE CheckSuite -----------------------------
(***************************************************************************)
(* One check suite of the GitHub app: the webhook handlers that create it, *)
(* count its re-requests and record whether its pull request can be        *)
(* merged; the reconciler that clones the repository and creates a check   *)
(* run for every workspace connected to it; and the part of the check run  *)
(* reconciler that reads the clone to make the archive of an etok run.     *)
(*                                                                         *)
(* Handlers run concurrently and read from the API server; the reconcilers *)
(* have one worker each and read from caches.  An update is refused unless *)
(* it was prepared from the latest version of the suite.  The clone is on  *)
(* a volume that outlives the process, the record of it is not.            *)
(***************************************************************************)
EXTENDS Naturals, FiniteSets

CONSTANTS
  Deliveries,   \* the webhook events there may be, of any kind
  Workspaces,
  Connected,    \* the workspaces that are connected from the start
  Faults        \* "clone": git may fail; "crash": the app may crash (once)

ASSUME CheckSuiteAssumption ==
  /\ IsFiniteSet(Deliveries)
  /\ Connected \subseteq Workspaces
  /\ Faults \subseteq {"clone", "crash"}

VARIABLES
  suite,       \* API server: the CheckSuite resource
  suiteCache,  \* informer cache of the suite
  todo,        \* work queue of the suite reconciler: is there a request?
  worker,      \* the suite reconciler
  connected,   \* the workspaces connected to the repository
  checks,      \* API server: the check runs
  checksCache, \* informer cache of the check runs
  runs,        \* API server: the etok runs, each with the tree in its archive
  clone,       \* what is on the disk at the path of the clone
  managed,     \* the repo manager has a record of the clone
  hooks,       \* the handler of each webhook event
  verdict,     \* history: what a handler last wrote of the pull request
  crashed

vars == <<suite, suiteCache, todo, worker, connected, checks, checksCache,
          runs, clone, managed, hooks, verdict, crashed>>

app  == <<suiteCache, todo, worker>>
disk == <<clone, managed>>
checkRuns == <<checks, checksCache, runs>>

-----------------------------------------------------------------------------

\* Version 0: the suite does not exist.
Suite == [version: Nat, rerequests: Nat, path: BOOLEAN, mergeable: BOOLEAN]

NoSuite == [version |-> 0, rerequests |-> 0, path |-> FALSE, mergeable |-> FALSE]

\* As it is created: the builders set the status as well, but it is not sent.
NewSuite == [version |-> 1, rerequests |-> 0, path |-> FALSE, mergeable |-> FALSE]

Exists(s) == s.version > 0

Checks == [number: Nat, workspace: Workspaces]

\* A complete copy of the repository, an incomplete one; and "none" is what is
\* archived without any clone.
Trees == {"absent", "whole", "partial", "none"}

Idle == [pc |-> "idle"]

Worker == {Idle}
  \cup [pc: {"clone", "git", "path"}, read: Suite, ws: SUBSET Workspaces]
  \cup [pc: {"create"}, read: Suite, ws: SUBSET Workspaces]

Hooks ==
  [pc: {"unsent", "create", "done"}]
  \cup [pc: {"update"}, read: Suite]
  \cup [pc: {"poll"}, mergeable: BOOLEAN]
  \cup [pc: {"accepted"}, number: Nat]

TypeOK ==
  /\ suite \in Suite /\ suiteCache \in Suite
  /\ todo \in BOOLEAN
  /\ worker \in Worker
  /\ connected \subseteq Workspaces
  /\ checks \subseteq Checks /\ checksCache \subseteq checks
  /\ runs \subseteq [check: Checks, tree: Trees \ {"absent"}]
  /\ managed \in BOOLEAN /\ crashed \in BOOLEAN
  /\ clone \in Trees
  /\ hooks \in [Deliveries -> Hooks]
  /\ verdict \in BOOLEAN

\* The suite may have been created before.
Init ==
  /\ suite \in {NoSuite, NewSuite}
  /\ suiteCache = NoSuite
  /\ todo = FALSE /\ worker = Idle
  /\ connected = Connected
  /\ checks = {} /\ checksCache = {} /\ runs = {}
  /\ clone = "absent" /\ managed = FALSE
  /\ hooks = [d \in Deliveries |-> [pc |-> "unsent"]]
  /\ verdict = FALSE
  /\ crashed = FALSE

-----------------------------------------------------------------------------
(* Writing the suite.  A write that changes nothing makes no new version.  *)

\* Slip: an update is accepted whatever version it was prepared from.
AcceptsAny(read) == Exists(suite)

Accepts(read) == read.version = suite.version

Put(new) ==
  suite' = IF new = suite THEN suite
           ELSE [new EXCEPT !.version = suite.version + 1]

Create == Put(NewSuite)

-----------------------------------------------------------------------------
(* Webhook handlers.                                                       *)

SetHook(d, hook) ==
  /\ hooks' = [hooks EXCEPT ![d] = hook]
  /\ UNCHANGED <<app, connected, checkRuns, disk, crashed>>

Done == [pc |-> "done"]

\* handleCheckSuiteEvent, "requested": creating what exists is an error.
Requested(d) ==
  /\ hooks[d].pc = "unsent"
  /\ IF Exists(suite) THEN UNCHANGED suite ELSE Create
  /\ SetHook(d, Done)
  /\ UNCHANGED verdict

\* handleCheckSuiteEvent, "rerequested": reads the suite ...
Rerequested(d) ==
  /\ hooks[d].pc = "unsent"
  /\ SetHook(d, IF Exists(suite) THEN [pc |-> "update", read |-> suite] ELSE Done)
  /\ UNCHANGED <<suite, verdict>>

\* Slip: on a conflict the suite is read again, but the number is not.
CountRerequestLate(d) ==
  /\ hooks[d].pc = "update"
  /\ LET number == hooks[d].read.rerequests + 1
     IN /\ Put([suite EXCEPT !.rerequests = number])
        /\ SetHook(d, [pc |-> "accepted", number |-> number])
  /\ UNCHANGED verdict

\* ... and counts the re-request.  On a conflict the same object is written
\* again and again: the handler fails, and so does the re-request.
CountRerequest(d) ==
  /\ hooks[d].pc = "update"
  /\ LET read == hooks[d].read
         number == read.rerequests + 1
     IN IF Accepts(read)
        THEN /\ Put([read EXCEPT !.rerequests = number])
             /\ SetHook(d, [pc |-> "accepted", number |-> number])
        ELSE /\ SetHook(d, Done)
             /\ UNCHANGED suite
  /\ UNCHANGED verdict

\* updateCheckSuiteStatus: finds the suite or goes on to create it ...
PullChanged(d) ==
  /\ hooks[d].pc = "unsent"
  /\ SetHook(d, IF Exists(suite)
                THEN [pc |-> "poll", mergeable |-> suite.mergeable]
                ELSE [pc |-> "create"])
  /\ UNCHANGED <<suite, verdict>>

\* ... which fails if another handler has done it meanwhile.  What the handler has
\* in hand is what it sent: mergeable as GitHub's list of pull requests had it, and
\* so if the list is empty, which is not what was stored.
EnsureSuite(d) ==
  /\ hooks[d].pc = "create"
  /\ IF Exists(suite)
     THEN SetHook(d, Done) /\ UNCHANGED suite
     ELSE /\ Create
          /\ \E mergeable \in BOOLEAN :
               SetHook(d, [pc |-> "poll", mergeable |-> mergeable])
  /\ UNCHANGED verdict

\* isMergeable has polled the pull request, for up to ten seconds; an error
\* counts as a no.  What was read before is what the answer is compared with;
\* what is written is prepared from the suite as it is then.
UpdateMergeable(d) ==
  /\ hooks[d].pc = "poll"
  /\ \E mergeable \in BOOLEAN :
       IF mergeable = hooks[d].mergeable
       THEN UNCHANGED <<suite, verdict>>
       ELSE /\ Put([suite EXCEPT !.mergeable = mergeable])
            /\ verdict' = mergeable
  /\ SetHook(d, Done)

Webhook(d) ==
  \/ Requested(d) \/ Rerequested(d) \/ CountRerequest(d)
  \/ PullChanged(d) \/ EnsureSuite(d) \/ UpdateMergeable(d)

-----------------------------------------------------------------------------
(* The suite reconciler, one request at a time.                            *)

cluster == <<suite, connected, hooks, verdict, crashed>>

SyncSuite ==
  /\ suiteCache # suite
  /\ suiteCache' = suite /\ todo' = TRUE
  /\ UNCHANGED <<cluster, worker, checkRuns, disk>>

\* Reads the suite and lists the workspaces; without any there is no more to do.
Reconcile ==
  /\ todo /\ worker = Idle
  /\ todo' = FALSE
  /\ worker' = IF Exists(suiteCache) /\ connected # {}
               THEN [pc |-> "clone", read |-> suiteCache, ws |-> connected]
               ELSE Idle
  /\ UNCHANGED <<cluster, suiteCache, checkRuns, disk>>

At(pc, next) == worker.pc = pc /\ worker' = [worker EXCEPT !.pc = next]

Fail == worker' = Idle /\ todo' = TRUE

\* Slip: the clone is recorded before git has made it.
StartCloneTooEarly ==
  /\ ~managed
  /\ At("clone", "path")
  /\ clone' = "partial" /\ managed' = TRUE
  /\ UNCHANGED <<cluster, suiteCache, todo, checkRuns>>

\* clone: the commit is already under management.
FindClone ==
  /\ managed
  /\ At("clone", "path")
  /\ UNCHANGED <<cluster, suiteCache, todo, checkRuns, disk>>

\* doClone: what is at the path is removed, and git begins to fill it.
StartClone ==
  /\ ~managed
  /\ At("clone", "git")
  /\ clone' = "partial"
  /\ UNCHANGED <<cluster, suiteCache, todo, checkRuns, managed>>

\* git clones the branch: the commit it points to now, which is not looked at.
FinishClone ==
  /\ At("git", "path")
  /\ clone' = "whole"
  /\ managed' = TRUE
  /\ UNCHANGED <<cluster, suiteCache, todo, checkRuns>>

FailClone ==
  /\ "clone" \in Faults
  /\ worker.pc = "git" /\ Fail
  /\ UNCHANGED <<cluster, suiteCache, checkRuns, disk>>

\* The whole status is written, as read but for the path.
WritePath ==
  /\ worker.pc = "path"
  /\ LET new == [worker.read EXCEPT !.path = TRUE]
     IN IF Accepts(worker.read)
        THEN /\ Put(new)
             /\ worker' = [worker EXCEPT !.pc = "create", !.read = suite']
             /\ UNCHANGED todo
        ELSE Fail /\ UNCHANGED suite
  /\ UNCHANGED <<suiteCache, connected, hooks, verdict, crashed, checkRuns, disk>>

\* Slip: all re-requests have the name of the first request.
CheckOfSuite(w) == [number |-> 0, workspace |-> w]

CheckOf(w) == [number |-> worker.read.rerequests, workspace |-> w]

\* A check run the cache does not have is created; one that is there already
\* is an error then.
EnsureCheckRun(w) ==
  /\ worker.pc = "create" /\ w \in worker.ws
  /\ IF CheckOf(w) \in checks \ checksCache
     THEN Fail /\ UNCHANGED checks
     ELSE /\ checks' = checks \cup {CheckOf(w)}
          /\ worker' = [worker EXCEPT !.ws = @ \ {w}]
          /\ UNCHANGED todo
  /\ UNCHANGED <<cluster, suiteCache, checksCache, runs, disk>>

\* The status is written a second time; nothing in it has changed.
FinishReconcile ==
  /\ worker.pc = "create" /\ worker.ws = {}
  /\ IF Accepts(worker.read) THEN worker' = Idle /\ UNCHANGED todo ELSE Fail
  /\ UNCHANGED <<cluster, suiteCache, checkRuns, disk>>

SuiteController ==
  \/ Reconcile \/ FindClone \/ StartClone \/ FinishClone \/ FailClone
  \/ WritePath \/ FinishReconcile
  \/ \E w \in Workspaces : EnsureCheckRun(w)

-----------------------------------------------------------------------------
(* The check run reconciler.  A check run without a run has a request: its *)
(* own event makes one, and an error makes it again.                       *)

SyncChecks ==
  /\ checksCache # checks
  /\ checksCache' = checks
  /\ UNCHANGED <<cluster, app, checks, runs, disk>>

HasRun(c) == \E r \in runs : r.check = c

\* A tree that lacks files may be archived or not: the directory of the
\* workspace may be missing, or modules that are called.
MayArchive(tree)    == tree # "absent"
MayNotArchive(tree) == tree # "whole"

\* Without a path, what is archived is the process's own working directory.  An
\* archive that git's work overlaps with is taken to be made in the middle of it.
Archive(c) ==
  /\ c \in checksCache /\ ~HasRun(c)
  /\ Exists(suiteCache)
  /\ LET tree == IF suiteCache.path THEN clone ELSE "none"
     IN \/ /\ MayArchive(tree)
           /\ runs' = runs \cup {[check |-> c, tree |-> tree]}
        \/ MayNotArchive(tree) /\ UNCHANGED runs
  /\ UNCHANGED <<cluster, app, checks, checksCache, disk>>

CheckRunController == \E c \in checksCache : Archive(c)

-----------------------------------------------------------------------------
(* The world around the app.                                               *)

Connect(w) ==
  /\ w \notin connected
  /\ connected' = connected \cup {w}
  /\ UNCHANGED <<suite, app, checkRuns, disk, hooks, verdict, crashed>>

\* The process starts again: the record of clones is gone, handlers with it,
\* and everything is reconciled once the caches are filled.
Crash ==
  /\ "crash" \in Faults /\ ~crashed
  /\ crashed' = TRUE
  /\ managed' = FALSE
  /\ worker' = Idle /\ todo' = TRUE
  /\ hooks' = [d \in Deliveries |->
                IF hooks[d].pc \in {"unsent", "accepted"} THEN hooks[d] ELSE Done]
  /\ suiteCache' = suite /\ checksCache' = checks
  /\ UNCHANGED <<suite, connected, checks, runs, clone, verdict>>

Next ==
  \/ \E d \in Deliveries : Webhook(d)
  \/ SyncSuite \/ SuiteController
  \/ SyncChecks \/ CheckRunController
  \/ \E w \in Workspaces : Connect(w)
  \/ Crash

Spec == Init /\ [][Next]_vars
-----------------------------------------------------------------------------
(* Safety.                                                                 *)

Accepted(d) == hooks[d].pc = "accepted"

\* Every re-request that was answered as successful has a number of its own,
\* and so check runs of its own, however the handlers of several overlap.
RerequestsAreDistinct ==
  /\ \A d \in Deliveries : Accepted(d) => hooks[d].number \in 1..suite.rerequests
  /\ \A d, e \in Deliveries :
       Accepted(d) /\ Accepted(e) /\ d # e => hooks[d].number # hooks[e].number

\* The reconciler writes the whole status of the suite and the handlers write
\* it too: what a handler last wrote of the pull request stays until a handler
\* writes otherwise, although the reconciler writes it back as it once read it.
VerdictIsKept == Exists(suite) => suite.mergeable = verdict

\* Without a crash no run is made of a clone that git has not finished: the
\* path is recorded behind the clone, and a clone is made once.
RunsHaveWholeTrees ==
  \A r \in runs : r.tree = "partial" => crashed

-----------------------------------------------------------------------------
(* Liveness.  Requests are taken in turn and watches deliver; git succeeds *)
(* if it is tried again and again, and so does an archive.                 *)

Latest(w) == [number |-> suite.rerequests, workspace |-> w]

Fairness ==
  /\ WF_vars(SyncSuite) /\ WF_vars(SyncChecks)
  /\ WF_vars(SuiteController) /\ SF_vars(FinishClone)
  /\ \A w \in Connected : SF_vars(Archive(Latest(w)))

FairSpec == Spec /\ Fairness

\* Each workspace connected from the start gets a run for the latest re-request
\* of the suite, whatever conflicts, failures of git and crashes there are.
ConnectedWorkspacesAreChecked ==
  Exists(suite) ~> \A w \in Connected : HasRun(Latest(w))
=============================================================================
