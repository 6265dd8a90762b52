# A formal model of etok

etok runs terraform on Kubernetes.  A *workspace* is the place where terraform
keeps one state; a *run* is one terraform command on a workspace.  Both are
custom resources; an operator reconciles them, a command line client creates
them, and a GitHub app creates runs for pull requests.

These TLA+ modules model the parts of etok in which the order of events decides
whether it is correct, and the one pure algorithm on which every run depends, the
making of its configuration archive.  TLC checks them on small instances, and
TLAPS proves nearly all of the safety properties, and the refinement of the
abstract queue, for every value of the constants.

## The system

| Component | State it keeps | Operations | Modelled in |
|---|---|---|---|
| workspace queue (`pkg/controllers/workspace_queue.go`) | `Status.Active`, `Status.Queue` | rebuild from the runs listed | `WorkspaceQueue`, promise in `CommandQueue` |
| workspace controller (`pkg/controllers/workspace_controller.go`) | approvals, queue, serials, conditions | reconcile: prune approvals, queue, builtins, RBAC, state, PVC, pod | `Operator` (approvals, queue), `StateBackup` (state), `Provision` (the chain, condition and phase) |
| run controller (`pkg/controllers/run_controller.go`) | conditions, phase and exit code of a run | reconcile: adopt, queue, pod, timeouts | `Operator` |
| backup providers (`pkg/backup`) | one object per state in a bucket | backup, restore | `StateBackup` |
| launcher (`cmd/launcher`, `pkg/handlers`, `pkg/monitors`) | what it has created, the goroutines of one launch | deploy, watch, approve, connect, await exit code, clean up | `Launcher` |
| workspace client (`cmd/workspace`) | the workspace it creates | new, delete, list, select, show | new in `Provision`, delete in `StateBackup` and `Provision` |
| runner (`cmd/runner`) | the pod's container | unpack and handshake, execute, persist lock file | `Runner` |
| terminal attachment (`pkg/attacher`, `pkg/logstreamer`) | bytes under way, raw mode | attach, handshake, follow a log | `Runner` (bytes), `Launcher` and `Provision` (ends of streams) |
| configuration archive (`pkg/archive`, `pkg/util/path`) | none | find modules, pack, ignore, unpack | `Archive` |
| check run controller of the GitHub app (`cmd/github/check_run*.go`) | events, iterations and status of a check run | reconcile: run of the current iteration, update for GitHub | `CheckRun` |
| check suite controller of the GitHub app (`check_suite_controller.go`, `repo_manager.go`) | check suites, clones on disk | clone, one check run per workspace | `CheckSuite` |
| webhook server and client of the GitHub app (`cmd/github/app.go`, `client`) | one request at a time per installation | handle events, create or update a check run on GitHub | `CheckSuite` (events of suites and pull requests), `CheckRun` (events of check runs, the client) |
| installer, app deployment, clientset | none that others depend on | manifests, generated code | not modelled |

How they interact.  All state is in the Kubernetes API server, which refuses a
write that was prepared from an old version of an object.  The controllers read
through *informer caches*, which follow the API server with a delay, object kind
by object kind, and write to the API server.  Watch events fill their work
queues: a change of a run enqueues its workspace and itself, a change of the
workspace enqueues its runs, a change of an owned object enqueues its owner.
Each controller has one worker.  The clients write directly and read through
watches of their own.  Runner and launcher talk over the terminal of the pod.

What makes it hard:

- the two controllers act on different, trailing versions of the same objects,
  and each writes a status that it computed before reading the object again;
- few requests are repeated by themselves: progress depends on every event;
- approvals, completions, deletions and timeouts come between any two steps;
- bucket, secret and status of a workspace are written one after the other, and
  each write may fail; so may every step of the chain that makes a workspace;
- the launcher and `workspace new` work in parallel goroutines and must clean up
  after any of them;
- the bytes of handshake and user come in any portions, while the runner unpacks;
- the GitHub app learns the outcome of its own requests from events that come in
  any order, and whose handlers compete with the reconcilers for the check run
  and the suite; it keeps clones on a disk that outlives the record of them;
- modules, links and ignore rules of a configuration combine freely, and what
  arrives in the pod depends on the order in which modules are met.

What makes each component correct:

- queue: runs keep their position, a run is served when its turn has come and
  never beside another, and every run is served in the end;
- run controller: the status of a run follows its pod and is final once it is
  done; privileged commands that are queueable wait for their approval (others
  do not, which is among the findings);
- workspace controller: approvals are dropped only when they are no longer
  needed; every state is backed up, and the status tells the truth about it; a
  restore never replaces a live state; a ready workspace has all that its runs
  need, and what was made for a workspace goes with it;
- launcher and `workspace new`: they end, report what happened, and leave
  nothing behind when they fail;
- runner: the command starts with its files and its user in place, gets exactly
  what the user types, and its lock file arrives;
- archive: all the files of all the modules that are called arrive where they
  belong, and nothing else does;
- GitHub app: each connected workspace gets a run for the latest request of the
  suite, made of a whole clone; one check run on GitHub for each resource, which
  shows in the end what became of the run last asked for, and nothing is applied
  unasked.

`PROJECT.json` lists the components with their status, the hazards at their
lines with the properties that cover them, the runs, and the lines of code that
each definition stands for.

## The modules

### `WorkspaceQueue` and `CommandQueue`

`WorkspaceQueue` has the pure part of the queue.  `Active` and `Queue` are one
sequence here, as in `updateCombinedQueue`.  `UpdateCombinedQueue` is the loop of
the code as a fold over the current queue.  The order in which the informer
cache lists runs is not determined, so the model uses `UpdatedQueues`, the set of
outcomes over all orders.  `LoopRebuildsQueue`, in `Operator`, says that the two
agree in every state the operator reaches.

`CommandQueue` is the abstract specification: a first-in-first-out queue of which
only the head executes.  An update of it is stated by the order that it keeps
(`InOrder`), not by how it is computed.

### `Operator`

Both reconcilers over one workspace.  A worker handles one object at a time and
no state is shared between workspaces, so one workspace is enough.

| State | In the code |
|---|---|
| `ws`, `runs`, `pods` | the objects in the API server; a run's status is the reason of its `Complete` condition and whether it has `Failed` |
| `wsCache`, `runCache`, `podCache` | the informer caches, for the kinds in the constant `Lag` |
| `wsBehind`, `runsBehind`, `podsBehind` | events that are under way |
| `wsTodo`, `runTodo` | the work queues |
| `ww`, `rw` | local variables of `Reconcile` between its reads and writes |
| `approved` | history, for the properties only |

A reconcile is cut where other processes can be noticed.  The workspace
reconciler has two steps: reading, pruning and computing the queue
(`ReconcileWorkspace`), and reading again and writing the status
(`UpdateWorkspaceStatus`).  The run reconciler has three: reading and adopting
the run (`ReconcileRun`, which ends early in `DropRun` and `FailOnArchive`), the
chain (`ManageQueue`, `CreatePod`, `ReportPod`), and the status write
(`UpdateRunStatus`).  A write needs the latest version (`HasLatestRun`,
`HasLatestWorkspace`); otherwise it conflicts and the request returns to its
queue.  `isAlreadyOwner` compares the wrong kind and never finds the owner, so
the run is written on every reconcile; the model does the same.  A first
reconcile that conflicts has no effect, so such an action simply waits for
the cache.

Time is a choice: a limit in `TimesOut` may have passed whenever the code looks
at it.  That is more than a clock allows, and so sound for safety.

Left out: API errors other than conflicts and an existing pod; the optional
secret and service account; pods in an unknown phase and pods without the status
of their container; the deletion of the workspace (see `StateBackup`) and runs
without workspace (see `Launcher`).

### `StateBackup`

`manageState` and `restore` over one workspace *name*, which can be deleted and
used again.  The state is its serial number.  The worker stops between reading
the secret, reading or writing the bucket, and writing the status; any call named
in `Faults` may fail, and `"chain"` stands for the other steps of the reconcile.
The secret is collected with the workspace only if the workspace had become its
owner.  The handler of the watch on secrets enqueues a request for a workspace of
the secret's name, which nobody has, so that `SyncSecret` enqueues nothing.

`Overlap` says whether a reconcile may last from one life of the workspace into
the next.  With `Overlap = TRUE`, `BackupSerialIsTruthful` and
`ReportedStateIsBackedUp` do not hold: `updateStatus` reads the workspace by name
and writes the status of the old one onto the new.  Foreground deletion takes
long compared with a reconcile, so the runs assume `FALSE` and the theorem says
so.  A related weakness needs no overlap: if the restore of a second life fails,
terraform may start with a new state, whose serial differs from that of the
backup, and the older state in the bucket is overwritten.

### `Provision`

One life of a workspace, with the client that creates it and the cluster that
runs its pod.

| State | In the code |
|---|---|
| `ws`, `wsCache`, `behind` | the workspace, its finalizer, Ready condition and phase; the informer cache, and whether it trails |
| `things`, `cache` | builtins, service account, role, binding, PVC and pod, and the caches of them |
| `kept` | the objects that carry a controller reference to the workspace |
| `worker` | `Reconcile`: the step of the chain, the condition so far, whether the chain has failed |
| `client` | `workspace new`: its waits, the log stream, the exit monitor, the environment file |
| `installed` | history |

The chain is walked step by step: an object that the cache does not have is made
(`Make`, an error if it is there after all), and the PVC and the pod, once they
are there, are looked at (`ManagePVC`, `ManagePod`).  A step that finds its
object and changes nothing is passed over (`NextStep`), since nobody could notice
it.  `UpdateStatus` comes last, whatever has become of the chain.  The waits of
the client run in a group of which the first failure cancels the rest (`Fail`);
the stream of the log is waited for all the same.  The exit monitor takes the
first end of the installer that it sees, so that a success may be reported for
what failed later and the reverse.

Left out: the contents of the objects; two things that go wrong in one life
(`Spend`), except for installer crashes, which are counted apart; API errors of
reads from the cache.  Timeouts of the client are choices.

### `Launcher`

One launch: the main goroutine (`main`), the two goroutines of `deploy`, the two
watches of `run` with the context they share, the exit monitor, the user who
interrupts and others who delete the run.  The operator appears as the `history`
of the run: the versions it publishes, which each watch goes through in order.
Conditions are kept in the order in which the operator adds them, since
`RunConnectable` returns from the first.

Left out: the log of queue positions, `--disable-resource-cleanup`, a deletion
that fails in `cleanup` (the code ignores it), and a creation whose reply is lost
(the launcher would not know that it has something to delete).

### `Runner`

The process in the container of a run, and the launcher from when the pod runs.

| State | In the code |
|---|---|
| `unpacked`, `hs`, `raw` | the two goroutines of `prepare`: `Unpack`, `receiveHandshake` with its buffer, the terminal's mode |
| `runner`, `command` | the main goroutine; the child process, with what it has read |
| `stdin` | bytes at the container's standard input |
| `lock`, `lockMap` | the lock file in the container, and the config map made of it |
| `run`, `reported` | the run, and whether its status has the exit code |
| `client` | the launcher: attach, send, await the exit code, fetch the lock file |

A byte is a number, and a read takes whatever has arrived, up to what the buffer
holds.  The limit of the handshake may pass at any time after the terminal is raw.
Left out: output, window sizes, and how the arguments of a command are put
together.

### `CheckRun`

One check run, from the moment the check suite reconciler has created the
resource: the reconciler, the webhook handlers, the client that sends requests
to GitHub, GitHub and its users, and the operator, which moves the runs on, and also
back: a run with a pod is queued again when the workspace no longer has it as its
active one, or when its pod is gone (`MoveRun`).

| State | In the code |
|---|---|
| `check` | the `CheckRun` resource: events, whether a create request was recorded, one flag per iteration, status |
| `runs` | the etok run of each iteration with its command; its conditions are told apart by the check status that they amount to |
| `checkCache`, `runCache`, `todo` | informer caches and work queue of the reconciler |
| `worker` | `Reconcile`: before the status write, and before the send |
| `requests` | what the goroutine of `async` has taken from its channel and not yet done |
| `handlers` | events whose handler has read the check run as it is now |
| `github`, `webhooks` | what GitHub shows, and what it has yet to deliver |

The iteration is the number of requests among the events and the command is
that of the last event, as in `currentIteration` and `command`.  The reconciler
reads from its caches and creates the run (`Reconcile`), writes the status if its
read is still the latest (`UpdateStatus`), and hands the update to the client
(`SendUpdate`), which takes it when it has done the one before.  A webhook handler
reads the check run (`Deliver`) and writes it (`AddEvent`).  It retries on
conflict, but with the object it read first, so that every write that changes
the check run loses the events of all handlers that have read the one before:
`PutCheck` empties `handlers`.

What GitHub shows may therefore go back from in progress to queued.  What it may not
do, and `GitHubNeverRegresses` says, is to go back to an earlier iteration, or to take
back one it has shown as completed.

An apply is offered behind a plan only (`ApplyIsOfferedAfterPlan`), with one
exception that the code makes: an iteration of which the last event asks for
nothing, such as GitHub's own answer that the check run has completed, counts as
a plan even if it applied.

Left out: the wording of an update, its conclusion and the logs in it; the
content of archives and the plan file an apply refers to; a suite or workspace
that does not exist; pull requests that cannot be merged (they show no Apply
button); the look-up of the installation's client.

### `CheckSuite`

One check suite, with the handlers of its events and the part of the check run
reconciler that reads the clone.

| State | In the code |
|---|---|
| `suite`, `suiteCache`, `todo` | the `CheckSuite` resource with its version, re-requests, repo path and mergeability; cache and work queue |
| `hooks` | one webhook handler for each delivery, between its reads and writes |
| `worker` | `Reconcile`: clone, write the path, create check runs |
| `clone`, `managed` | what is on the disk; whether the repo manager knows of it |
| `checks`, `checksCache` | check runs, named after workspace and re-request |
| `runs` | the etok runs with the tree their archive was made of |
| `verdict` | history: what a handler last wrote of the pull request |

A crash takes the record of clones and the handlers; the disk stays.  An update
is refused unless it was prepared from the latest version.  Left out: the reaper,
which the code never starts, and what a commit contains.  A handler that has created the
suite may go on with a copy that says the pull request is mergeable, where the stored
one does not (`EnsureSuite`): that this verdict is then not recorded is among the
findings.

### `Archive`

What `Walk`, `RemoveNestedPaths`, `Pack` and `Unpack` make of a repository.  A path
is the sequence of its names.  The order in which the calls of a module are met is
not determined (they are a map in the code), hence the actions.  `Pack` and
`Unpack` treat a tree at a time: its own entries first, then those of the trees that
its links lead to, which in the archive come between them.  `HasPrefix` is the test
on strings that the code makes: names of which one begins with the other are given
by the constant `Longer`.

| State | In the code |
|---|---|
| `repo` | the disk of the client: the root module, who calls whom, where links lead, the rules to ignore |
| `mods`, `calls` | `archive.mods`; the calls that the recursion of `walk` has yet to follow |
| `nested`, `unnested` | the loop of `RemoveNestedPaths` and its result |
| `walks`, `archive`, `size` | the trees `Pack` still walks, each with `src` and `dst`; the entries written, what `MaxWriter` counts |
| `tree` | the directory into which `Unpack` writes |

A link in the archive has a relative name, so that where it leads depends on where
it is unpacked (`LinkName`, `Written`), and what is unpacked below a link, or in the
place of one, is written to where that leads (`Through`, `Target`), as the file
system does it.  `ArchiveAssumption` says what a file system is: files and links
are in directories, and directories in directories.  It also wants links, and modules
that call others, to be in the repository; what they lead to or call may be
outside of it.  The archive names such a path by the way to it (`..`); the model takes
it to be as far from the directory in the pod, which is so unless the way leads
above the root of the pod's file system.

`MCArchive` is a repository in which modules nest and are called twice, in which one
name begins with another, and which has links to files and directories in and outside
of their trees.  One may lead to a directory with a link; one to a directory outside
of the repository whose path has that of a module in it (`twin`), which the code takes
for a link into the module; and two of them into each other's trees, so that packing
goes from one to the other without end.  No modules call each other in a circle:
`walk` does not end on those, which is among the findings.

The properties speak of the last rule that matches (`ToBeIgnored`), which is what
a `.terraformignore` means, not of the fold that computes it.  They make the
exceptions that the code needs, all listed as findings: modules beside a module
whose name theirs begins with (`Lost`); links that packing takes for links into the
tree it is in, because `StaysLink`, like the code, looks for the path of the tree
anywhere in that of the target (`Mistaken`); directories that are packed empty; and
unpacking, which may fail if a module was called twice or what was packed in the place
of a link has links again (`LinksBehindLinks`).  `Ends` is about the client only if no
modules call each other in a circle; links may.

Left out: tar and gzip, file modes, wildcards in rules, links to links or to nothing
(the code packs what is behind the last one, or fails).

## The runs

| Run | Instance | Result |
|---|---|---|
| `operator_stale` | 2 queueable runs, one privileged, one deletable, all caches trail, timeouts of queue and pending pods, resyncs | `TypeOK`, `PodsAreApproved`, `StatusFollowsPod`, `DoneIsFinal` hold (4.6 million states) |
| `operator_fresh` | 3 queueable runs, caches of runs and pods trail, timeouts of the queue, resyncs; symmetric | `LoopRebuildsQueue`, `ImplementsQueue` hold (854 thousand) |
| `operator_live` | 2 queueable runs, caches of runs and pods trail, no resync | `EveryRunCompletes` holds under fairness |
| `operator_mutex` | 2 queueable runs, the cache of the workspace trails | `MutualExclusion` is violated |
| `backup` | serials up to 2, two lives, every fault | `TypeOK`, `BackupSerialIsTruthful`, `ReportedStateIsBackedUp`, `StateNeverRegresses` hold |
| `provision` | shared objects partly there; caches of PVC and pod trail; one crash of the installer; an eviction or a deletion by others | `NothingIsLeftBehind`, `SuccessIsTold` hold (4.6 million) |
| `provision_live` | a workspace that is there already, the client is refused; API errors, lost volume, drained node, deletion | `ReadyWorkspaceIsComplete`, `ReportSettles`, `NothingOutlivesTheWorkspace` hold (266 thousand) |
| `launcher` | every environment, fault and timeout | `NothingIsLeftBehind`, `ReportIsTruthful`, `EndsUnlessRunIsLate` hold |
| `runner` | a handshake of 3 bytes, 3 keys, every fault | `TypeOK`, `CommandStartsPrepared`, `NothingTypedIsLost`, `LockFileArrives`, `RunnerEnds` hold (30 thousand) |
| `archive` | the repository of `MCArchive`, from two root modules, with every set of 6 calls, every choice of where 4 links lead, and two lists of rules | `ModulesArrive`, `NothingElseArrives`, `LinksLeadToTheSame`, `ArchivesCanBeUnpacked`, `Ends` hold (315 thousand) |
| `check_suite` | 2 deliveries, 2 workspaces, one of them connected late; git fails, one crash | `RerequestsAreDistinct`, `VerdictIsKept`, `RunsHaveWholeTrees`, `ConnectedWorkspacesAreChecked` hold (285 thousand) |
| `check_run` | 2 further requests of users; archives, logs and creations fail; one crash | `TypeOK`, `OneCheckRunOnGitHub`, `IterationsAreTruthful`, `AppliesWereRequested`, `NoNewsIsLost`, `ApplyIsOfferedAfterPlan`, `GitHubNeverRegresses` hold (9.5 million) |

The type invariants of the other modules are not in a run of their own: for
`Launcher`, `CheckSuite` and `Provision` they are theorems (`TypeCorrect`).

Why the bounds are enough.  The hazards of the operator are between two runs that
compete for the head of the queue, or between a run and its own cache; the third
run of `operator_fresh` adds queues whose middle changes.  A run goes through its
life once, so nothing else is bounded.  Two serial numbers and two lives give the
backup an older and a newer state, in the same life and across lives.  The launcher has no
bounds: it launches one run.  Two requests give a check run iterations that are
passed over and events of plans and applies that overtake each other.  It need
not crash twice: a crash keeps only what is stored, and the proof below covers
any number of requests.

In `Provision` one thing goes wrong in a run of events, because two faults that
follow one another meet a chain that starts from its beginning each time; one
crash gives the installer an attempt that fails before one that succeeds.  The
two runs divide the questions: with a client, and with all that befalls a
workspace once it is there.  Of the caches, `provision` lets those trail that the
chain looks into, `provision_live` one more that it only makes; the proofs cover
every choice.  Three bytes of handshake can be split in every way with something
before and behind; the proof covers any length.  Two deliveries give `CheckSuite`
two handlers that overlap each other and the reconciler; the proofs cover any
number.  `MCArchive` has one instance of every relation between two paths that
the code tells apart, and of a link that is unpacked before, behind and below
another; its proofs cover any repository.  The limit of 40 entries lets every
repository be packed but those with the endless circle of links, so that the run
checks what becomes of them, and is reached by the others.

Updates of a check run on GitHub do not fail in `check_run`.  What fails is not
sent again, so `NoNewsIsLost` would not hold, which is listed as a hazard and is
the hypothesis of its theorem; the other properties are proved without it.

Resyncs (`Resync = TRUE`) let any object be reconciled at any time: they stand
for restarts of the operator, for the periodic resync and for events of objects
the model leaves out.  Liveness is checked without them, so that it rests on the
watch events alone.

Deadlock is not checked: in every model all work may be done.

Fairness.  Watches deliver (weak fairness of `Sync...`); a worker goes on with
the reconcile it has begun and takes another when it has ended; the work queue is
served in order, so a run whose reconcile is possible again and again is
reconciled (strong fairness of `ReconcileRun`, which has to wait for the cache
between conflicts); pods are scheduled and end.  Nothing is assumed of clients,
deletions or timeouts.  In `Launcher`, goroutines and timers run, and the
operator, if there is one, does its work, except that it need not fail a run.

In `Provision`, requests that fail are repeated by the work queue, so the
reconciler goes on for ever; a volume is bound once a pod needs it, an installer
that is started again and again succeeds, and the garbage collector does its
work.  In `CheckSuite`, git and archives succeed if they are tried again and again
(strong fairness, since a failure or another write comes between); the rest is
weak.  In `Runner`, its goroutines go on, the limit of the handshake passes, and
the command ends.  In `Archive`, a step that can be taken is taken.  In none of
them is anything assumed of the client, of GitHub or of those who interfere.

When the cache of the workspace trails as well, `EveryRunCompletes` does not hold
for a reason that is of no practical interest: the reconciler can go on for ever
publishing two queues in turn, each computed from the cache before the last.

## Where code and documentation disagree

**Two commands at once** has a run, `operator_mutex`.  `updateStatus` assigns a
status that was computed from an older workspace to a newer one.  Two new runs are
published as `<<a, b>>`; the next reconcile reads the workspace without a queue,
lists the runs as b, a, and re-reads the workspace when the cache has caught up:
the write is accepted and publishes `<<b, a>>` while a executes.  The same promise
is broken by a run that is deleted while its pod terminates, and by one that is
failed while its pod is pending; `operator_fresh` shows that without the three,
the promise is kept.

The others are in `PROJECT.json` without a run, each at its line and with the
sentence that says otherwise.  The models do what the code does, so the
properties that hold are stated with the exceptions that these need:

- queue and approvals: an approval that overtakes its run is pruned, privileged
  commands that are not queueable run without one (`PodsAreApproved` speaks of
  queueable ones), and the
  limit for pending pods counts the time in the queue;
- state: events of the secret reach no workspace, so that the last update may
  never be backed up (`ReportedStateIsBackedUp` speaks of the state that the status
  reports); ephemeral workspaces are restored;
- launcher: it waits for ever for a run that the operator failed for having
  waited too long (hence `EndsUnlessRunIsLate`), and nothing reads its pod timeout;
- `workspace new` and its workspace: the exit code of a first attempt of the
  installer deletes a ready workspace, the environment file may name a workspace
  that is gone, and a lost volume leaves the workspace Ready;
- runner: a lock file that cannot be read arrives empty, and a failure to unpack
  is held back by the handshake;
- run pods: variables given by reference are empty, and an evicted pod makes the
  reconciler panic;
- GitHub app: an apply whose completion is an event counts as a plan, an apply may
  refer to another apply, completed check runs lack a conclusion, that a
  pull request is mergeable may not be recorded with a suite that was just created, a re-request is
  lost by a conflict, the working directory is archived instead of a clone, a
  clone may be of a later commit, the reaper never runs, archives are made beside
  git, workspaces connected late are not checked;
- archive: modules that call each other in a circle are walked for ever, links are
  kept whose target has the path of the module elsewhere in its own, siblings with a common beginning are taken for nested, modules found
  twice are packed twice and may not be unpacked, links behind links lose their
  place, blank lines panic, anchored rules do not match directories.

## The proofs

TLAPS checks them for every set of runs, every choice of queueable, privileged
and deletable runs, every set of trailing caches, faults and timeouts, any number
of events, requests, workspaces, crashes and bytes, and for every repository.  The assumptions are those
named in the modules (`RunsAssumption`, `BackupAssumption`, `CheckRunAssumption`,
`CheckSuiteAssumption`, `ProvisionAssumption`, `RunnerAssumption`,
`LauncherAssumption`, `ArchiveAssumption`); but for the last, they say which set a
constant is of.  Each module but the last begins with `TypeCorrect`, which the others
use.

`Operator_proofs`:

- `TypeCorrect`: the lemma `UpdatedQueueType` says that a rebuilt queue is a
  sequence of eligible runs.
- `ApprovalSafety`: `Spec => []PodsAreApproved`.  The property is not inductive: a
  pod is created from a copy of a queue, which was computed from a copy of the
  approvals.  `ApprovalInv` says of *every* copy (the workspace, its cache, the
  queue each worker holds) that it contains only approved runs among those that
  are queueable and privileged.
- `DoneStaysDone`: `Spec => DoneIsFinal`.  `DoneInv` says that a cache that is
  not marked behind has the latest run, and that the run a worker is busy with is
  not done.  Nobody else writes statuses, and the adoption of the run is what
  keeps the invariant: it conflicts if the run that was read is not the latest.
- `StatusNeverAhead`: `Spec => []StatusFollowsPod`.  `FollowInv` adds that the
  cached pod is not ahead of the pod, and neither is the status that the worker
  is about to write; it needs `DoneInv` for runs that have been deleted.
- `LoopIsRight`: `Spec => []LoopRebuildsQueue`.  `LoopIsUpdate` says of any queue
  without repetitions and any finite set of runs that the loop, over all the
  orders in which they may be listed, has the outcomes of `UpdatedQueues`.  It is an
  induction over the positions that the loop has walked (`LoopOrders`): those it
  has met come first, as they are queued, the others follow as they are listed;
  and who comes before whom settles a listing (`OrderSettles`).  The library's
  induction theorems take an operator, so induction is stated for sets of numbers
  (`SetInduction`), and that the fold is a function at all is proved with it
  (`LoopWalks`).
- `QueueImplemented`: `Spec => ImplementsQueue`, the refinement of `CommandQueue`,
  and `OneAtATime`: `Spec => []MutualExclusion`.  Both assume what the run
  `operator_fresh` assumes: `"workspace" \notin Lag`, `Deletable = {}` and
  `"pending" \notin TimesOut`.  None of the three can be left out (see *Two
  commands at once*).  The caches of runs and pods, resyncs and the other timeouts
  are free.  The argument has two halves:
  - what the loop makes of a queue.  `RebuiltIsUpdate` says that every outcome of
    `UpdatedQueues` is what stays of the old queue in its order, followed by the
    newcomers, which is `Update` of `CommandQueue`; `HeadStays`, that a head that
    is still eligible stays the head.
  - what the reconcilers may rely on.  `RunsInv`: runs and the cache of them move
    one way, they come to exist and to be done.  `QueueInv`: whoever executes is
    the head of the published queue and not done (`HeadInv`); the queue that is
    about to be published leaves nobody out that is not done (`RebuiltInv`), so
    that publishing it keeps the head; and a worker that has read itself at the
    head of a queue is at the head of the queue as it is now, since nothing but
    its own end takes it from there (`WorkerInv`).  The step that creates a pod
    then has an empty `Executing`, and is `Start`; an end of a pod is `End`; the
    write of the status is `Update`; all the rest stutters (`QueueRefines`).

`StateBackup_proofs`:

- `BackupSerialTruth`: `~Overlap` implies `Spec => []BackupSerialIsTruthful`.
  The property bounds the status by the bucket, but the bucket is overwritten by
  whatever the worker has read, which after a failed restore may be older.
  `BackupInv` adds that in each life the serials which the status and the worker
  hold as backed up are those of earlier states of the secret, and that within a
  life the secret only grows: what the worker writes is never older than what
  the status reports.  Nothing is carried over from an earlier life, which is
  where `~Overlap` is needed.
- `BackupsAreRetried`: `~Overlap` implies `Spec => []ReportedStateIsBackedUp`.
  `WantedInv` follows what the reconciler holds as still to be backed up from the
  status through the worker and back: wherever it is, a request is left or the
  worker is busy.
- `LiveStateMovesOn`: `Spec => StateNeverRegresses`, for any number of lives and
  without assuming `~Overlap`: only a restore lowers a serial, and it creates the
  secret, which fails where there is one.

`Provision_proofs`:

- `ReadyIsComplete`: `Spec => []ReadyWorkspaceIsComplete`.  The Ready condition is
  carried from the status to the cache, from there to the worker and back to the
  status.  `CompleteInv` says of each of these places that Ready in it means that
  the workspace is complete (`ChainInv`, `ReadyInv`), and of the worker that behind
  each step of the chain its object is there (`CacheInv` relates the caches to the
  objects).  That is inductive since what is complete stays so until the
  workspace is deleted.
- `NothingLeft`: `Spec => []NothingIsLeftBehind`.  `CreatedInv` says that a client
  that has come past its creation has a workspace to delete, `StreamInv` that it
  is not done while it follows a log.

- `SuccessTold`: `Spec => []SuccessIsTold`.  `ToldInv` follows the command: it has
  seen the workspace ready before it waits for the exit code, and a code of zero
  is that of an installer that succeeded.  That a workspace once ready is still
  so takes `HealthyInv`, which says what holds while nothing has gone wrong:
  nothing that was made is missed by the caches any more, so that no pass through
  the chain stops short of its end, and Ready, in whichever copy, rests on a
  cached pod that is running (`PodIsLast`, `PassedInCache`, `RemainsReady`).

`Launcher_proofs`:

- `NothingLeft`: `Spec => []NothingIsLeftBehind`.  `DeployInv` says that what
  a call of `deploy` has created is there and nothing else is, and that the main
  goroutine goes on only when both calls have come to an end: it never takes for
  failed what is still being created.
- `TruthfulReport`: `Spec => []ReportIsTruthful`.  `ReportInv` says that the exit
  codes in the history of the run are those of its pod, and that a monitor that is
  done is at an event with a code; a pod does not change its code.

`Runner_proofs`:

- `StartsPrepared`: `Spec => []CommandStartsPrepared`.  `Prepared` says that the main
  goroutine is past the group only if both have succeeded, and that the terminal
  is raw only while the handshake is awaited; that the client has sent as much
  comes from `StreamInv`.
- `NothingLost`: `Spec => []NothingTypedIsLost`.  `StreamInv` splits everything that
  was sent into what the command, the buffer and the input hold, in this order,
  as long as nobody else has typed; a handshake that matches shows that nobody has.
- `LockFileArrival`: `Spec => []LockFileArrives`.  `LockInv` follows the contents from
  the container through the config map to the client, and says that an exit code
  of zero is never there before the config map.

`CheckSuite_proofs`:

- `RerequestsTold`, `VerdictKept`: every copy of the suite, in the cache, the worker
  and the handlers, was true at the version it has; two copies of the latest
  version are equal, and so an update that is accepted undoes nothing.
- `WholeTrees`: `ClonesAreWhole` says that without a crash a path is recorded
  nowhere before git has finished, and git is not started again.

`CheckRun_proofs`:

- `CreatesOnce`: `Spec => []OneCheckRunOnGitHub`.  `CreationInv` follows the one
  create request from the record in the check run to the reconciler, the client
  and GitHub: it is in at most one place, and nowhere before it is recorded.  A
  reconciler that is about to write may have read a stale check run; the
  invariant only says that what it means to send agrees with what it read, and
  the refused write does the rest.  That a crash loses the request for good is
  the price, and no part of the theorem.
- `TypeCorrect` carries the rest.  `TypeInv` bounds the iterations: those that have
  begun, with the requests that are under way, are not more than users have asked
  for; the cached check run has a beginning of the events.  `CacheTrails` says that
  the cached runs are not ahead of the runs.  Lemmas about the cardinality of events that ask (`Count`) say that it
  grows by one with each, so that an iteration is begun by exactly one event.
- `RecordsAreTruthful`: `Spec => []IterationsAreTruthful`.  `RecordInv` adds that a
  reconciler that is about to record a completion has seen a run that is done.
- `AppliesAreRequested`: `Spec => []AppliesWereRequested`, inductive with the types.
- `OffersFollowPlans`: `Spec => []ApplyIsOfferedAfterPlan`.  `OffersInv` follows the
  button from the reconciler through the client to GitHub.
- `GitHubMovesOn`: `Spec => GitHubNeverRegresses`.  `OrderInv` puts what GitHub shows,
  the request in the client, the update in the worker and what the caches would
  make of the check run now in one order, by iteration and by whether that is
  completed, the later never behind the earlier.
- `NoNewsLost`: `"update" \notin Faults` implies `Spec => []NoNewsIsLost`.
  `NewsInv` says that without a request in the work queue what the worker holds
  was made from the caches as they are, and that, if it holds nothing, the current
  run exists, the check run has its status, and GitHub has it too or the client is
  about to tell it.

`Archive_proofs`: `Arrive`, `NothingElse`, `LinksLead` and `CanBeUnpacked`, each
`Spec => []P` for the property `P` that the run `archive` checks, without any further
condition.  The invariant, `IInv`, has four parts:

- `NestInv`: no tree to be packed is in another one, and every module found is in one of
  them, but those that a name beside them hides (`Lost`).  `UpdateUnnestedIs` says what a
  candidate makes of the list: the code's fold leaves out what the candidate
  nests.
- `PackInv`: what is on its way comes from the tree of a module or of a link.
- `TreeInv`: where files and links are in what has been unpacked.  A link is where it
  was on the disk and leads to what it led to there (`LeadsThere`: the way up from
  it ends in what both paths have in common at their beginning, `CommonIs`), or it is in a tree packed in
  the place of another link that is not there as a link.  It is what makes the
  rest inductive: an entry that is unpacked through a link ends up where it was
  on the disk, or in the file that it is a copy of (`GoesHome`), and nothing
  that is there is lost by it (`Harmless`, `Kept`).
- `Delivered`: each tree, and each that its links lead to, is yet to be packed, is in the
  archive, or has arrived.

`CanBeUnpacked` has an invariant of its own, `OrderInv`: if no module is called twice and
what is packed in the place of a link has no links, then only the modules' own trees
have links, no link is packed twice (`Apart`, by `OwnApart` and `OnlyThatLink`), and
nothing is unpacked yet where a link is still to come.  Below these are lemmas on paths as sequences (`UnderOrders`, `Moved`: what is
moved from one directory to another keeps its order and can be moved back), on
the rules (`LastRuleDecides`: the fold over the rules is decided by the last
that matches, by induction over finite sets of numbers) and on the listing of
sets.

Each is proved from the initial state and, action by action, from the step; the
invariants were checked with TLC before they were proved.

Only model-checked: the liveness properties (temporal reasoning under fairness is
out of the prover's reach): `EveryRunCompletes`, `EndsUnlessRunIsLate`, `RunnerEnds`,
`ReportSettles`, `NothingOutlivesTheWorkspace`, `ConnectedWorkspacesAreChecked` and `Ends`.

## Not modelled

- *The clock.*  Every limit is a choice: it may have passed whenever the code looks
  at it.  That covers every clock, and all properties hold under it.  What it
  cannot show is a run that fails too early or too late, for which the findings
  about the limits of the run controller have to do: the times are measured from
  the last change of one condition, and looked at only when something else makes
  a request.
- *Installer and app deployment* write manifests once and keep nothing.  The
  *generated clientset* and the deep copies are generated.
- *Commands that only read*: `workspace list`, `select` and `show`; logs, colours,
  the wording and conclusions of updates on GitHub.
- *Signatures, credentials and installations* of the GitHub app: the handlers begin
  when an event has been accepted.
- *The contents of objects*: the pod's script, RBAC rules, variables and mounts.
  They are functions of the resource, and tested as such.
- *Leader election and several operators*: the operator runs as one process.

What could still be added: the suite's mergeability in `CheckRun`, and two
workspaces that share the namespace's RBAC objects in `Provision`.
