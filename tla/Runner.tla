------------------------------- MODULE Runner -------------------------------
(***************************************************************************)
(* The runner, the process in the container of a run's pod, together with  *)
(* the client that connects to it.  The runner unpacks the configuration   *)
(* and, at the same time, waits on its terminal for the handshake by which *)
(* a client says that it is attached.  Then it executes the command, and   *)
(* it stores the lock file that some commands leave for the client.        *)
(*                                                                         *)
(* A byte is a number: 0 is a byte of the handshake, 1..Keys are the keys  *)
(* that the user presses, in this order, and Stray is none of these.       *)
(***************************************************************************)
EXTENDS Naturals, Sequences

CONSTANTS
  Length,  \* of the handshake, in bytes
  Keys,    \* how many keys the user presses
  Faults   \* what may go wrong

ASSUME RunnerAssumption ==
  /\ Length \in Nat \ {0}
  /\ Keys \in Nat
  /\ Faults \subseteq {"unpack", "stdin", "stray", "read", "api", "kill", "delete"}

VARIABLES
  spec,      \* of the run: does it want a handshake, may it change the lock file
  unpacked,  \* the goroutine that unpacks the configuration
  hs,        \* the goroutine that receives the handshake, and what it has read
  raw,       \* the terminal is in raw mode
  runner,    \* the main goroutine, and its exit code
  command,   \* the command, the keys it has read and its exit code
  stdin,     \* bytes that have arrived at the terminal and are not read yet
  lock,      \* the lock file in the container
  run,       \* API server: the run is there
  lockMap,   \* API server: the config map with the lock file
  reported,  \* API server: the run's status has the exit code
  client,    \* the launcher, from when the pod runs
  faulted    \* history: the lock file could not be read

vars == <<spec, unpacked, hs, raw, runner, command, stdin, lock, run, lockMap,
          reported, client, faulted>>

-----------------------------------------------------------------------------

Stray == Keys + 1

Handshake == [i \in 1..Length |-> 0]
Pressed   == [i \in 1..Keys |-> i]

\* The error of a command is its exit code; any other error of the runner is 1.
Codes == {"none", "zero", "command", "error", "killed"}

\* A lock file that came with the configuration, one that the command wrote, and
\* one that has nothing in it.
Files == {"none", "old", "new", "empty"}

Goroutine == {"off", "running", "ok", "failed"}

TypeOK ==
  /\ spec \in [handshake: BOOLEAN, updatesLockFile: BOOLEAN]
  /\ unpacked \in Goroutine \ {"off"}
  /\ hs \in [state: Goroutine, buf: Seq(0..Stray)] /\ Len(hs.buf) <= Length
  /\ raw \in BOOLEAN
  /\ runner \in [pc: {"prepare", "execute", "persist", "get", "create", "exited"},
                 code: Codes]
  /\ command \in [state: {"none", "running", "ended"}, read: Seq(0..Stray),
                  code: Codes]
  /\ stdin \in Seq(0..Stray)
  /\ lock \in Files \ {"empty"} /\ lockMap \in Files
  /\ run \in BOOLEAN /\ reported \in BOOLEAN /\ faulted \in BOOLEAN
  /\ client \in [pc: {"connect", "attached", "exit", "lock", "ok", "error"},
                 sent: 0..(Length + Keys), file: Files]

\* The pod runs.  The user's own lock file is part of the configuration.
Init ==
  /\ spec \in [handshake: BOOLEAN, updatesLockFile: BOOLEAN]
  /\ unpacked = "running"
  /\ hs = [state |-> IF spec.handshake THEN "running" ELSE "off", buf |-> <<>>]
  /\ raw = FALSE
  /\ runner = [pc |-> "prepare", code |-> "none"]
  /\ command = [state |-> "none", read |-> <<>>, code |-> "none"]
  /\ stdin = <<>>
  /\ lock \in {"none", "old"}
  /\ run = TRUE /\ lockMap = "none" /\ reported = FALSE
  /\ client = [pc |-> "connect", sent |-> 0, file |-> lock]
  /\ faulted = FALSE

api == <<run, lockMap, reported>>
world == <<spec, api, client>>

-----------------------------------------------------------------------------
(* Unpacking the configuration and receiving the handshake.                *)

Alive == runner.pc # "exited"

Unpack ==
  /\ Alive /\ unpacked = "running"
  /\ \/ unpacked' = "ok"
     \/ "unpack" \in Faults /\ unpacked' = "failed"
  /\ UNCHANGED <<world, hs, raw, runner, command, stdin, lock, faulted>>

Receiving == Alive /\ hs.state = "running"

EndHandshake(result) == hs' = [hs EXCEPT !.state = result] /\ raw' = FALSE

others == <<world, unpacked, runner, command, lock, faulted>>

\* withRawMode: stdin may not be a terminal.
MakeRaw ==
  /\ Receiving /\ ~raw
  /\ \/ raw' = TRUE /\ UNCHANGED hs
     \/ "stdin" \in Faults /\ EndHandshake("failed")
  /\ UNCHANGED <<others, stdin>>

Lesser(a, b) == IF a < b THEN a ELSE b

\* Slip: a buffer larger than the handshake is filled with whatever there is.
ReadAhead ==
  /\ Receiving /\ raw /\ stdin # <<>> /\ Len(hs.buf) < Length
  /\ LET read == hs.buf \o stdin
     IN hs' = [hs EXCEPT !.buf = SubSeq(read, 1, Lesser(Len(read), Length))]
  /\ stdin' = <<>>
  /\ UNCHANGED <<others, raw>>

\* Slip: more is read than the buffer holds.
ReadEverything ==
  /\ Receiving /\ raw /\ stdin # <<>>
  /\ hs' = [hs EXCEPT !.buf = hs.buf \o stdin]
  /\ stdin' = <<>>
  /\ UNCHANGED <<others, raw>>

\* What has arrived is read, but no more than the handshake is long.
Read ==
  /\ Receiving /\ raw /\ stdin # <<>>
  /\ LET n == Lesser(Len(stdin), Length - Len(hs.buf))
     IN /\ n > 0
        /\ hs' = [hs EXCEPT !.buf = hs.buf \o SubSeq(stdin, 1, n)]
        /\ stdin' = SubSeq(stdin, n + 1, Len(stdin))
  /\ UNCHANGED <<others, raw>>

Matches(buf) == buf = Handshake

\* The buffer is full, and what is in it is compared.
CheckHandshake ==
  /\ Receiving /\ Len(hs.buf) = Length
  /\ EndHandshake(IF Matches(hs.buf) THEN "ok" ELSE "failed")
  /\ UNCHANGED <<others, stdin>>

\* Slip: the limit begins with the first byte.
HandshakeTimesOutOnceBegun ==
  /\ Receiving /\ raw /\ hs.buf # <<>>
  /\ EndHandshake("failed")
  /\ UNCHANGED <<others, stdin>>

\* The limit passes.  The handshake may have arrived just then.
HandshakeTimesOut ==
  /\ Receiving /\ raw
  /\ EndHandshake("failed")
  /\ UNCHANGED <<others, stdin>>

\* The standard input ends, or reading from it fails.
ReadFails ==
  /\ "stdin" \in Faults
  /\ Receiving /\ raw
  /\ EndHandshake("failed")
  /\ UNCHANGED <<others, stdin>>

ReceiveHandshake ==
  \/ MakeRaw \/ Read \/ CheckHandshake \/ HandshakeTimesOut \/ ReadFails

-----------------------------------------------------------------------------
(* The main goroutine.                                                     *)

rest == <<spec, unpacked, hs, raw, stdin, client>>

Exit(code) == runner' = [pc |-> "exited", code |-> code]

\* Slip: whichever of the two is done first, the command is started.
FinishPreparingEarly ==
  /\ runner.pc = "prepare"
  /\ unpacked = "ok" \/ hs.state = "ok"
  /\ runner' = [runner EXCEPT !.pc = "execute"]
  /\ UNCHANGED <<rest, api, command, lock, faulted>>

\* The group waits for both, also if one has failed.
FinishPreparing ==
  /\ runner.pc = "prepare"
  /\ unpacked # "running" /\ hs.state # "running"
  /\ IF unpacked = "ok" /\ hs.state \in {"off", "ok"}
     THEN runner' = [runner EXCEPT !.pc = "execute"]
     ELSE Exit("error")
  /\ UNCHANGED <<rest, api, command, lock, faulted>>

Execute ==
  /\ runner.pc = "execute" /\ command.state = "none"
  /\ command' = [command EXCEPT !.state = "running"]
  /\ UNCHANGED <<rest, api, runner, lock, faulted>>

CommandReads ==
  /\ command.state = "running" /\ stdin # <<>> /\ Alive
  /\ command' = [command EXCEPT !.read = Append(@, Head(stdin))]
  /\ stdin' = Tail(stdin)
  /\ UNCHANGED <<world, unpacked, hs, raw, runner, lock, faulted>>

CommandEnds ==
  /\ command.state = "running" /\ Alive
  /\ \E code \in {"zero", "command"} :
       command' = [command EXCEPT !.state = "ended", !.code = code]
  /\ lock' \in IF spec.updatesLockFile THEN {lock, "new"} ELSE {lock}
  /\ UNCHANGED <<rest, api, runner, faulted>>

\* The command's error is the runner's; without one, a command such as init goes
\* on to its lock file.
FinishExecute ==
  /\ runner.pc = "execute" /\ command.state = "ended"
  /\ IF command.code = "zero" /\ spec.updatesLockFile
     THEN runner' = [runner EXCEPT !.pc = "persist"]
     ELSE Exit(command.code)
  /\ UNCHANGED <<rest, api, command, lock, faulted>>

\* persistLockFile.  Only the absence of the file is looked for: if it cannot be
\* read it goes on with nothing.
ReadLockFile ==
  /\ runner.pc = "persist"
  /\ IF lock = "none"
     THEN Exit("zero") /\ UNCHANGED faulted
     ELSE /\ runner' = [runner EXCEPT !.pc = "get"]
          /\ faulted' \in {FALSE} \cup {f \in {TRUE} : "read" \in Faults}
  /\ UNCHANGED <<rest, api, command, lock>>

GetRun ==
  /\ runner.pc = "get"
  /\ \/ run /\ runner' = [runner EXCEPT !.pc = "create"]
     \/ (~run \/ "api" \in Faults) /\ Exit("error")
  /\ UNCHANGED <<rest, api, command, lock, faulted>>

\* Slip: that the config map cannot be made is logged, and no more.
CreateLockMapOrLog ==
  /\ runner.pc = "create"
  /\ \/ lockMap' = (IF faulted THEN "empty" ELSE lock)
     \/ "api" \in Faults /\ UNCHANGED lockMap
  /\ Exit("zero")
  /\ UNCHANGED <<rest, run, reported, command, lock, faulted>>

\* The config map is the run's, and names it as its owner.
CreateLockMap ==
  /\ runner.pc = "create"
  /\ \/ lockMap' = (IF faulted THEN "empty" ELSE lock) /\ Exit("zero")
     \/ "api" \in Faults /\ Exit("error") /\ UNCHANGED lockMap
  /\ UNCHANGED <<rest, run, reported, command, lock, faulted>>

Main ==
  \/ FinishPreparing \/ Execute \/ CommandReads \/ CommandEnds
  \/ FinishExecute \/ ReadLockFile \/ GetRun \/ CreateLockMap

-----------------------------------------------------------------------------
(* The pod is stopped: the command is killed.  It is never started again.  *)

Kill ==
  /\ Alive
  /\ "kill" \in Faults \/ ~run
  /\ Exit("killed")
  /\ UNCHANGED <<rest, api, command, lock, faulted>>

\* managePod: the exit code of the container becomes the run's.
ReportExit ==
  /\ run /\ ~Alive /\ ~reported
  /\ reported' = TRUE
  /\ UNCHANGED <<rest, run, lockMap, runner, command, lock, faulted>>

DeleteRun ==
  /\ "delete" \in Faults /\ run
  /\ run' = FALSE
  /\ UNCHANGED <<rest, lockMap, reported, runner, command, lock, faulted>>

\* What the run owns is collected after it.
CollectLockMap ==
  /\ ~run /\ lockMap # "none"
  /\ lockMap' = "none"
  /\ UNCHANGED <<rest, run, reported, runner, command, lock, faulted>>

Cluster == Kill \/ ReportExit \/ DeleteRun \/ CollectLockMap

-----------------------------------------------------------------------------
(* The client: the launcher once the run's pod is running.                 *)

container == <<spec, unpacked, hs, raw, runner, command, lock, api, faulted>>

ToClient(pc) == client' = [client EXCEPT !.pc = pc]

\* Attaching, or following the log, from a container that runs; a log can be had
\* from one that has ended.
Connect ==
  /\ client.pc = "connect"
  /\ Alive \/ ~spec.handshake
  /\ ToClient("attached")
  /\ UNCHANGED <<container, stdin>>

\* Attach writes the handshake before anything the user types.
Send ==
  /\ client.pc = "attached" /\ spec.handshake /\ Alive
  /\ client.sent < Length + Keys
  /\ client' = [client EXCEPT !.sent = @ + 1]
  /\ stdin' = Append(stdin, (Handshake \o Pressed)[client.sent + 1])
  /\ UNCHANGED container

\* Somebody else is attached, and types before the client does.
SendStray ==
  /\ "stray" \in Faults /\ spec.handshake /\ Alive
  /\ client.sent = 0 /\ stdin = <<>> /\ hs.buf = <<>>
  /\ stdin' = [i \in 1..Length |-> Stray]
  /\ UNCHANGED <<container, client>>

\* The connection ends with the container; it may break before, which is an
\* error, and so is a terminal that is gone by the time the client attaches.
Disconnect ==
  /\ \/ client.pc = "attached" /\ ~Alive /\ ToClient("exit")
     \/ client.pc \in {"connect", "attached"} /\ ToClient("error")
  /\ UNCHANGED <<container, stdin>>

\* The monitor has ten seconds to come up with the exit code.
AwaitExit ==
  /\ client.pc = "exit"
  /\ \/ reported /\ runner.code = "zero"
        /\ ToClient(IF spec.updatesLockFile THEN "lock" ELSE "ok")
     \/ ToClient("error")
  /\ UNCHANGED <<container, stdin>>

\* A config map that is not found is worth a warning only.
FetchLockFile ==
  /\ client.pc = "lock"
  /\ \/ lockMap # "none" /\ client' = [client EXCEPT !.pc = "ok", !.file = lockMap]
     \/ lockMap = "none" /\ ToClient("ok")
     \/ "api" \in Faults /\ ToClient("error")
  /\ UNCHANGED <<container, stdin>>

Client ==
  Connect \/ Send \/ SendStray \/ Disconnect \/ AwaitExit \/ FetchLockFile

Next == Unpack \/ ReceiveHandshake \/ Main \/ Cluster \/ Client

Spec == Init /\ [][Next]_vars

\* The runner goes on, time passes, and the command comes to an end by itself.
\* Nothing is assumed of the client: it may never attach.
FairSpec ==
  /\ Spec
  /\ WF_vars(Unpack) /\ WF_vars(MakeRaw) /\ WF_vars(CheckHandshake)
  /\ WF_vars(HandshakeTimesOut)
  /\ WF_vars(FinishPreparing) /\ WF_vars(Execute) /\ WF_vars(CommandEnds)
  /\ WF_vars(FinishExecute \/ ReadLockFile \/ GetRun \/ CreateLockMap)

-----------------------------------------------------------------------------
(* Properties.                                                             *)

\* The command starts once the configuration has been unpacked and, if the run
\* wants a handshake, the client has attached: it misses none of the output.  By
\* then the terminal is out of raw mode (RunnerOptions.Run).
CommandStartsPrepared ==
  command.state # "none" =>
    /\ unpacked = "ok" /\ ~raw
    /\ spec.handshake => client.sent >= Length

\* The runner takes the handshake out of what the client sends and nothing else:
\* the command gets the user's keys, all of them and in their order, also those
\* pressed before it was started (receiveHandshake reads a buffer of this size).
NothingTypedIsLost ==
  hs.state = "ok" =>
    command.read \o stdin = SubSeq(Handshake \o Pressed, Length + 1, client.sent)

\* A launch that is said to have gone well has run its command to the end, and
\* the lock file that it left is on the user's disk: it is there before the exit
\* code is, and failing to store it is a failure of the run.  (A run that another
\* user deletes takes its config map along; see the README for unreadable files.)
LockFileArrives ==
  client.pc = "ok" =>
    /\ command.code = "zero"
    /\ spec.updatesLockFile /\ lock # "none" /\ run /\ ~faulted
         => client.file = lock

\* The runner ends if its command does, even if no client ever attaches: it
\* holds its place at the head of the workspace's queue only so long.
RunnerEnds == <>(runner.pc = "exited")

=============================================================================
