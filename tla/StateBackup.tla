----------------------------- MODULE StateBackup -----------------------------
(***************************************************************************)
(* The terraform state of one workspace name, and its backup.  Terraform   *)
(* keeps the state in a secret; the workspace reconciler reports the       *)
(* serial number of the state in the workspace status, copies the secret   *)
(* to a bucket when the serial differs from that of the last backup, and   *)
(* creates the secret from the bucket when there is none.                  *)
(*                                                                         *)
(* The workspace may be deleted and created again under the same name.     *)
(* The reconciler reads the secret from a cache that trails the API        *)
(* server, and the bucket may refuse a call.  A backup provider is         *)
(* configured; what else the reconciler does is left to module Operator.   *)
(***************************************************************************)
EXTENDS Integers

CONSTANTS
  MaxSerial,  \* bound on the serial numbers that terraform writes
  MaxLives,   \* bound on how often the workspace is created
  Faults,     \* the calls that may fail
  Overlap     \* TRUE: a reconcile may last from one life into the next

Calls == {"chain", "backup", "restore", "status"}

ASSUME BackupAssumption ==
  /\ MaxSerial \in Nat /\ MaxLives \in Nat /\ Faults \subseteq Calls
  /\ Overlap \in BOOLEAN

VARIABLES
  ws,          \* the workspace, with the part of its status that is about state
  secret,      \* API server: the state secret
  secretCache, \* informer cache of the secret
  secretBehind,\* the cache does not hold the latest version of the secret
  bucket,      \* serial number of the state in the bucket
  applying,    \* a run that writes state is in progress
  todo,        \* is there a request for the workspace?
  worker,      \* worker of the workspace reconciler
  lives        \* how often the workspace has been created

vars == <<ws, secret, secretCache, secretBehind, bucket, applying, todo, worker,
          lives>>

None == -1
Serials == 0..MaxSerial
MaybeSerial == Serials \cup {None}

Secret   == [serial: MaybeSerial, owned: BOOLEAN]
NoSecret == [serial |-> None, owned |-> FALSE]

\* "admits": the status has been published, and with it the queue, so that
\* runs may start.
Workspace == [life: {"absent", "present", "deleting"}, ephemeral: BOOLEAN,
              admits: BOOLEAN, serial: MaybeSerial, backup: MaybeSerial]

NewWorkspace(life, ephemeral) ==
  [life |-> life, ephemeral |-> ephemeral, admits |-> FALSE,
   serial |-> None, backup |-> None]

Idle   == [pc |-> "idle"]
Worker == {Idle} \cup
  [pc: {"restore", "backup", "status"}, serial: MaybeSerial,
   backup: MaybeSerial, failed: BOOLEAN]

TypeOK ==
  /\ ws \in Workspace
  /\ secret \in Secret /\ secretCache \in Secret /\ secretBehind \in BOOLEAN
  /\ bucket \in MaybeSerial
  /\ applying \in BOOLEAN /\ todo \in BOOLEAN
  /\ worker \in Worker
  /\ lives \in 0..MaxLives

Init ==
  /\ ws = NewWorkspace("absent", FALSE)
  /\ secret = NoSecret /\ secretCache = NoSecret /\ secretBehind = FALSE
  /\ bucket = None
  /\ applying = FALSE /\ todo = FALSE
  /\ worker = Idle
  /\ lives = 0

secretVars == <<secret, secretBehind>>

PutSecret(new) ==
  /\ secret' = new
  /\ secretBehind' = (secretBehind \/ new # secret)

-----------------------------------------------------------------------------
(* The reconciler.                                                         *)

\* A request for a workspace that is gone, or is being deleted, changes
\* nothing here.
DropRequest ==
  /\ todo /\ worker = Idle /\ ws.life # "present"
  /\ todo' = FALSE
  /\ UNCHANGED <<ws, secretVars, secretCache, bucket, applying, worker, lives>>

\* Slip: the serial reported is the next one.
BeginNext(pc, serial, failed) ==
  [pc |-> pc, serial |-> serial + 1, backup |-> ws.backup, failed |-> failed]

Begin(pc, serial, failed) ==
  [pc |-> pc, serial |-> serial, backup |-> ws.backup, failed |-> failed]

Finish(failed) == worker' = [worker EXCEPT !.pc = "status", !.failed = failed]

\* A step of the chain before manageState fails.
FailEarlier ==
  /\ "chain" \in Faults
  /\ todo /\ worker = Idle /\ ws.life = "present"
  /\ worker' = Begin("status", ws.serial, TRUE)
  /\ todo' = FALSE
  /\ UNCHANGED <<ws, secretVars, secretCache, bucket, applying, lives>>

\* manageState finds no secret in the cache.
MissSecret ==
  /\ todo /\ worker = Idle /\ ws.life = "present"
  /\ secretCache.serial = None
  /\ worker' = Begin("restore", ws.serial, FALSE)
  /\ todo' = FALSE
  /\ UNCHANGED <<ws, secretVars, secretCache, bucket, applying, lives>>

\* manageState finds the secret in the cache, makes the workspace its owner,
\* which conflicts if the cache is behind, reports its serial, and sees whether
\* it needs a backup.
OwnSecret ==
  /\ todo /\ worker = Idle /\ ws.life = "present"
  /\ secretCache.serial # None
  /\ IF secretBehind
     THEN /\ worker' = Begin("status", ws.serial, TRUE)
          /\ UNCHANGED <<secretVars>>
     ELSE /\ PutSecret([secret EXCEPT !.owned = TRUE])
          /\ worker' = Begin(IF ~ws.ephemeral /\ ws.backup # secret.serial
                             THEN "backup" ELSE "status", secret.serial, FALSE)
  /\ todo' = FALSE
  /\ UNCHANGED <<ws, secretCache, bucket, applying, lives>>

\* Slip: an existing secret is overwritten.
RestoreOver ==
  /\ worker.pc = "restore"
  /\ IF bucket = None
     THEN Finish(FALSE) /\ UNCHANGED <<secretVars>>
     ELSE /\ PutSecret([serial |-> bucket, owned |-> FALSE])
          /\ worker' = [worker EXCEPT !.pc = "status", !.backup = bucket]
  /\ UNCHANGED <<ws, secretCache, bucket, applying, todo, lives>>

\* There is no secret in the cache: create it from the bucket, if the bucket
\* has one.  The creation fails if there is a secret after all.
Restore ==
  /\ worker.pc = "restore"
  /\ \/ /\ "restore" \in Faults
        /\ Finish(TRUE) /\ UNCHANGED <<secretVars>>
     \/ /\ bucket = None
        /\ Finish(FALSE) /\ UNCHANGED <<secretVars>>
     \/ /\ bucket # None /\ secret # NoSecret
        /\ Finish(TRUE) /\ UNCHANGED <<secretVars>>
     \/ /\ bucket # None /\ secret = NoSecret
        /\ PutSecret([serial |-> bucket, owned |-> FALSE])
        /\ worker' = [worker EXCEPT !.pc = "status", !.backup = bucket]
  /\ UNCHANGED <<ws, secretCache, bucket, applying, todo, lives>>

\* Slip: the serial is recorded whether or not the bucket took the state.
BackupUnchecked ==
  /\ worker.pc = "backup"
  /\ bucket' \in {worker.serial, bucket}
  /\ worker' = [worker EXCEPT !.pc = "status", !.backup = worker.serial]
  /\ UNCHANGED <<ws, secretVars, secretCache, applying, todo, lives>>

\* Slip: a backup that failed is not tried again.
BackupOnce ==
  /\ worker.pc = "backup"
  /\ \/ Finish(FALSE) /\ UNCHANGED bucket
     \/ /\ bucket' = worker.serial
        /\ worker' = [worker EXCEPT !.pc = "status", !.backup = worker.serial]
  /\ UNCHANGED <<ws, secretVars, secretCache, applying, todo, lives>>

Backup ==
  /\ worker.pc = "backup"
  /\ \/ /\ "backup" \in Faults
        /\ Finish(TRUE) /\ UNCHANGED bucket
     \/ /\ bucket' = worker.serial
        /\ worker' = [worker EXCEPT !.pc = "status", !.backup = worker.serial]
  /\ UNCHANGED <<ws, secretVars, secretCache, applying, todo, lives>>

\* A step of the chain after manageState may fail and ask for another try.
LaterFailures == {FALSE, "chain" \in Faults}

\* The status is written to whatever workspace has the name now.  A write
\* that fails, and an error before it, put the request back; a write that
\* changes the status makes an event, and so a request.
UpdateStatus ==
  /\ worker.pc = "status"
  /\ LET new == [ws EXCEPT !.admits = TRUE, !.serial = worker.serial,
                           !.backup = worker.backup]
     IN \/ /\ ws.life # "absent"
           /\ ws' = new
           /\ \E retry \in LaterFailures :
                todo' = (todo \/ worker.failed \/ retry \/ new # ws)
        \/ /\ ws.life = "absent" \/ "status" \in Faults
           /\ todo' = TRUE /\ UNCHANGED ws
  /\ worker' = Idle
  /\ UNCHANGED <<secretVars, secretCache, bucket, applying, lives>>

\* The watch on state secrets.  The handler enqueues a request in the name of
\* the secret, and no workspace has that name: nothing is reconciled.
SyncSecret ==
  /\ secretBehind
  /\ secretCache' = secret /\ secretBehind' = FALSE
  /\ UNCHANGED <<ws, secret, bucket, applying, todo, worker, lives>>

-----------------------------------------------------------------------------
(* Users, terraform, and the garbage collector.                            *)

CreateWorkspace(ephemeral) ==
  /\ ws.life = "absent" /\ lives < MaxLives
  /\ worker = Idle \/ Overlap
  /\ ws' = NewWorkspace("present", ephemeral)
  /\ lives' = lives + 1
  /\ todo' = TRUE
  /\ UNCHANGED <<secretVars, secretCache, bucket, applying, worker>>

DeleteWorkspace ==
  /\ ws.life = "present"
  /\ ws' = [ws EXCEPT !.life = "deleting"]
  /\ todo' = TRUE
  /\ UNCHANGED <<secretVars, secretCache, bucket, applying, worker, lives>>

\* What the workspace owns goes first: its runs, and the secret if adopted.
CollectWorkspace ==
  /\ ws.life = "deleting"
  /\ ws' = NewWorkspace("absent", FALSE)
  /\ applying' = FALSE
  /\ PutSecret(IF secret.owned THEN NoSecret ELSE secret)
  /\ UNCHANGED <<secretCache, bucket, todo, worker, lives>>

\* A run starts once the workspace has made it active.
StartApply ==
  /\ ws.life = "present" /\ ws.admits /\ ~applying
  /\ applying' = TRUE
  /\ UNCHANGED <<ws, secretVars, secretCache, bucket, todo, worker, lives>>

WriteState ==
  /\ applying /\ secret.serial < MaxSerial
  /\ PutSecret([secret EXCEPT !.serial = secret.serial + 1])
  /\ UNCHANGED <<ws, secretCache, bucket, applying, todo, worker, lives>>

\* The status of the run changes, and the watch on runs enqueues a request.
EndApply ==
  /\ applying
  /\ applying' = FALSE /\ todo' = TRUE
  /\ UNCHANGED <<ws, secretVars, secretCache, bucket, worker, lives>>

-----------------------------------------------------------------------------

Reconciler ==
  \/ DropRequest \/ FailEarlier \/ MissSecret \/ OwnSecret
  \/ Restore \/ Backup \/ UpdateStatus

Environment ==
  \/ \E ephemeral \in BOOLEAN : CreateWorkspace(ephemeral)
  \/ DeleteWorkspace \/ CollectWorkspace
  \/ StartApply \/ WriteState \/ EndApply

Next == Reconciler \/ SyncSecret \/ Environment

Spec == Init /\ [][Next]_vars

-----------------------------------------------------------------------------

\* The backup serial in the status is not ahead of the bucket: a user who sees
\* that it equals the serial of the state can rely on the bucket to hold that
\* state or a later one, although bucket and status are written one after the
\* other and either write may fail.
BackupSerialIsTruthful == ws.backup # None => bucket >= ws.backup

\* A live state is never replaced by an older one: restoring, which is decided
\* from the cache, does not touch a state that terraform has written since.
StateNeverRegresses ==
  [][secret'.serial # None => secret'.serial >= secret.serial]_vars

Quiet == ~todo /\ worker = Idle /\ ~applying /\ ~secretBehind

\* No failed backup is forgotten: when the reconciler has nothing left to do,
\* the state whose serial it reports has been backed up.
ReportedStateIsBackedUp ==
  Quiet /\ ws.life = "present" /\ ~ws.ephemeral /\ ws.serial # None =>
    ws.backup = ws.serial
=============================================================================
