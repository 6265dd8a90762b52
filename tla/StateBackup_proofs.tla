-------------------------- MODULE StateBackup_proofs --------------------------
(***************************************************************************)
(* Proofs about the backup of state, for any bounds and any faults.        *)
(***************************************************************************)
EXTENDS StateBackup, TLAPS

-----------------------------------------------------------------------------
(* Types.                                                                  *)

LEMMA NoneIsASerial == None \in MaybeSerial /\ NoSecret \in Secret
BY DEF MaybeSerial, NoSecret, Secret

LEMMA BeginType ==
  ASSUME TypeOK, NEW pc \in {"restore", "backup", "status"},
         NEW serial \in MaybeSerial, NEW failed \in BOOLEAN
  PROVE  Begin(pc, serial, failed) \in Worker
BY DEF TypeOK, Workspace, Begin, Worker

LEMMA WorkerTypes ==
  ASSUME TypeOK, worker.pc # "idle"
  PROVE  worker.serial \in MaybeSerial /\ worker.backup \in MaybeSerial
BY DEF TypeOK, Worker, Idle

\* What a worker that is not idle is, and may become.
LEMMA WorkerMoves ==
  ASSUME TypeOK, worker.pc # "idle"
  PROVE  /\ \A failed \in BOOLEAN :
              [worker EXCEPT !.pc = "status", !.failed = failed] \in Worker
         /\ \A backup \in MaybeSerial :
              [worker EXCEPT !.pc = "status", !.backup = backup] \in Worker
         /\ \A failed \in BOOLEAN : Finish(failed) =>
              worker'.pc = "status" /\ worker'.backup = worker.backup
         /\ \A backup \in MaybeSerial :
              worker' = [worker EXCEPT !.pc = "status", !.backup = backup] =>
                worker'.pc = "status" /\ worker'.backup = backup
<1>1. worker \in [pc: {"restore", "backup", "status"}, serial: MaybeSerial,
                  backup: MaybeSerial, failed: BOOLEAN]
  BY DEF TypeOK, Worker, Idle
<1>2. QED
  BY <1>1 DEF Worker, Finish

LEMMA TypeInit == Init => TypeOK
<1> SUFFICES ASSUME Init PROVE TypeOK
  OBVIOUS
<1>1. ws \in Workspace
  BY NoneIsASerial DEF Init, NewWorkspace, Workspace
<1>2. worker \in Worker
  BY DEF Init, Worker
<1>3. lives \in 0..MaxLives
  BY BackupAssumption DEF Init
<1>4. QED
  BY <1>1, <1>2, <1>3, NoneIsASerial DEF Init, TypeOK

LEMMA TypeStep == TypeOK /\ [Next]_vars => TypeOK'
<1> SUFFICES ASSUME TypeOK, [Next]_vars PROVE TypeOK'
  OBVIOUS
<1> USE DEF TypeOK
<1>1. CASE DropRequest
  BY <1>1 DEF DropRequest, secretVars
<1>2. CASE FailEarlier \/ MissSecret
  <2>1. ws.serial \in MaybeSerial
    BY DEF Workspace
  <2>2. worker' \in Worker
    BY <1>2, <2>1, BeginType DEF FailEarlier, MissSecret
  <2>3. QED
    BY <1>2, <2>2 DEF FailEarlier, MissSecret, secretVars
<1>3. CASE OwnSecret
  <2>1. ws.serial \in MaybeSerial /\ secret.serial \in MaybeSerial
    BY DEF Workspace, Secret
  <2>2. worker' \in Worker
    BY <1>3, <2>1, BeginType DEF OwnSecret
  <2>3. secret' \in Secret /\ secretBehind' \in BOOLEAN
    BY <1>3 DEF OwnSecret, PutSecret, Secret, secretVars
  <2>4. QED
    BY <1>3, <2>2, <2>3 DEF OwnSecret
<1>4. CASE Restore
  <2>1. worker' \in Worker
    <3>1. worker.pc # "idle" /\ bucket \in MaybeSerial
      BY <1>4 DEF Restore
    <3>2. QED
      BY <1>4, <3>1, WorkerMoves DEF Restore, Finish
  <2>2. secret' \in Secret /\ secretBehind' \in BOOLEAN
    <3>1. [serial |-> bucket, owned |-> FALSE] \in Secret
      BY DEF Secret
    <3>2. QED
      BY <1>4, <3>1 DEF Restore, PutSecret, secretVars
  <2>3. QED
    BY <1>4, <2>1, <2>2 DEF Restore
<1>5. CASE Backup
  <2>1. worker' \in Worker /\ bucket' \in MaybeSerial
    BY <1>5, WorkerTypes, WorkerMoves DEF Backup, Finish
  <2>2. QED
    BY <1>5, <2>1 DEF Backup, secretVars
<1>6. CASE UpdateStatus
  <2>1. worker.serial \in MaybeSerial /\ worker.backup \in MaybeSerial
    BY <1>6, WorkerTypes DEF UpdateStatus
  <2>2. ws' \in Workspace
    BY <1>6, <2>1 DEF UpdateStatus, Workspace
  <2>3. todo' \in BOOLEAN
    BY <1>6 DEF UpdateStatus
  <2>4. worker' \in Worker
    BY <1>6 DEF UpdateStatus, Worker
  <2>5. QED
    BY <1>6, <2>2, <2>3, <2>4 DEF UpdateStatus, secretVars
<1>7. CASE SyncSecret
  BY <1>7 DEF SyncSecret
<1>8. ASSUME NEW ephemeral \in BOOLEAN, CreateWorkspace(ephemeral)
      PROVE  TypeOK'
  <2>1. lives' \in 0..MaxLives
    BY <1>8, BackupAssumption DEF CreateWorkspace
  <2>2. QED
    BY <1>8, <2>1, NoneIsASerial
    DEF CreateWorkspace, NewWorkspace, Workspace, secretVars
<1>9. CASE DeleteWorkspace
  BY <1>9 DEF DeleteWorkspace, Workspace, secretVars
<1>10. CASE CollectWorkspace
  <2>1. secret' \in Secret /\ secretBehind' \in BOOLEAN
    BY <1>10, NoneIsASerial DEF CollectWorkspace, PutSecret
  <2>2. ws' \in Workspace
    BY <1>10, NoneIsASerial DEF CollectWorkspace, NewWorkspace, Workspace
  <2>3. QED
    BY <1>10, <2>1, <2>2 DEF CollectWorkspace
<1>11. CASE StartApply \/ EndApply
  BY <1>11 DEF StartApply, EndApply, secretVars
<1>12. CASE WriteState
  <2>1. secret.serial + 1 \in MaybeSerial
    BY <1>12, BackupAssumption DEF WriteState, Secret, MaybeSerial, Serials, None
  <2>2. secret' \in Secret /\ secretBehind' \in BOOLEAN
    BY <1>12, <2>1 DEF WriteState, PutSecret, Secret
  <2>3. QED
    BY <1>12, <2>2 DEF WriteState
<1>13. CASE UNCHANGED vars
  BY <1>13 DEF vars
<1>14. QED
  BY <1>1, <1>2, <1>3, <1>4, <1>5, <1>6, <1>7, <1>8, <1>9, <1>10, <1>11,
     <1>12, <1>13
  DEF Next, Reconciler, Environment

\* Every reachable state is well typed.
THEOREM TypeCorrect == Spec => []TypeOK
BY TypeInit, TypeStep, PTL DEF Spec

-----------------------------------------------------------------------------
(* The backup serial.  The bucket is overwritten by whatever state the     *)
(* reconciler read, and in a new life of the workspace that may be older   *)
(* than what the bucket holds; but in each life the serials that the       *)
(* status and the worker hold as backed up are those of earlier states of  *)
(* the secret, which only grows.  The workspace has no status before its   *)
(* life begins, and the worker holds nothing from an earlier life.         *)

BackupInv ==
  /\ ws.backup <= bucket
  /\ worker.pc # "idle" => worker.backup <= bucket
  /\ ws.life # "absent" => ws.backup <= secret.serial
  /\ ws.life = "absent" => ws.backup = None
  /\ ws.life # "absent" /\ worker.pc # "idle" => worker.backup <= secret.serial
  /\ ws.life # "absent" /\ worker.pc = "backup" =>
       ws.backup <= worker.serial /\ worker.serial <= secret.serial

LEMMA BackupInit == Init => BackupInv
BY DEF Init, BackupInv, NewWorkspace, None, Idle, NoSecret

LEMMA SerialsAreIntegers ==
  ASSUME TypeOK
  PROVE  /\ ws.backup \in Int /\ ws.backup >= None
         /\ bucket \in Int /\ bucket >= None
         /\ secret.serial \in Int /\ secret.serial >= None
         /\ worker.pc # "idle" => /\ worker.backup \in Int /\ worker.backup >= None
                                  /\ worker.serial \in Int
BY BackupAssumption, WorkerTypes
DEF TypeOK, Workspace, Secret, MaybeSerial, Serials, None

LEMMA BackupStep ==
  ASSUME ~Overlap, TypeOK, BackupInv, [Next]_vars
  PROVE  BackupInv'
<1> USE DEF BackupInv
<1>1. CASE DropRequest \/ SyncSecret \/ StartApply \/ EndApply \/ UNCHANGED vars
  BY <1>1 DEF DropRequest, SyncSecret, StartApply, EndApply, vars, secretVars
<1>2. CASE FailEarlier \/ MissSecret
  BY <1>2 DEF FailEarlier, MissSecret, Begin, secretVars
<1>3. CASE OwnSecret
  <2>1. secret'.serial = secret.serial
    BY <1>3 DEF OwnSecret, PutSecret, secretVars, TypeOK, Secret
  <2>2. /\ worker'.backup = ws.backup
        /\ worker'.pc = "backup" => worker'.serial = secret.serial
    BY <1>3 DEF OwnSecret, Begin
  <2>3. QED
    BY <1>3, <2>1, <2>2, SerialsAreIntegers DEF OwnSecret
<1>4. CASE Restore
  <2>1. worker.pc # "idle" /\ bucket \in MaybeSerial
    BY <1>4 DEF Restore, TypeOK
  <2>2. CASE UNCHANGED secretVars /\ \E failed \in BOOLEAN : Finish(failed)
    <3>1. worker'.pc = "status" /\ worker'.backup = worker.backup
      BY <2>1, <2>2, WorkerMoves
    <3>2. QED
      BY <1>4, <2>1, <2>2, <3>1 DEF Restore, secretVars
  <2>3. CASE /\ secret = NoSecret
             /\ PutSecret([serial |-> bucket, owned |-> FALSE])
             /\ worker' = [worker EXCEPT !.pc = "status", !.backup = bucket]
    <3>1. worker'.pc = "status" /\ worker'.backup = bucket
      BY <2>1, <2>3, WorkerMoves
    <3>2. secret.serial = None /\ secret'.serial = bucket
      BY <2>3 DEF PutSecret, NoSecret
    <3>3. QED
      BY <1>4, <3>1, <3>2, SerialsAreIntegers DEF Restore, None
  <2>4. QED
    BY <1>4, <2>2, <2>3 DEF Restore
<1>5. CASE Backup
  <2>1. worker.pc = "backup" /\ worker.serial \in MaybeSerial
    BY <1>5, WorkerTypes DEF Backup
  <2>2. UNCHANGED <<ws, secret>>
    BY <1>5 DEF Backup, secretVars
  <2>3. CASE Finish(TRUE) /\ UNCHANGED bucket
    <3>1. worker'.pc = "status" /\ worker'.backup = worker.backup
      BY <2>1, <2>3, WorkerMoves
    <3>2. QED
      BY <2>1, <2>2, <2>3, <3>1
  <2>4. CASE /\ bucket' = worker.serial
             /\ worker' = [worker EXCEPT !.pc = "status", !.backup = worker.serial]
    <3>1. worker'.pc = "status" /\ worker'.backup = worker.serial
      BY <2>1, <2>4, WorkerMoves
    <3>2. ws.life = "absent" => ws.backup <= worker.serial
      BY <2>1 DEF MaybeSerial, Serials, None
    <3>3. QED
      BY <2>1, <2>2, <2>4, <3>1, <3>2, SerialsAreIntegers
  <2>5. QED
    BY <1>5, <2>3, <2>4 DEF Backup
<1>6. CASE UpdateStatus
  <2>1. worker.pc = "status" /\ worker'.pc = "idle"
    BY <1>6 DEF UpdateStatus, Idle
  <2>2. /\ UNCHANGED <<bucket, secret>> /\ ws'.life = ws.life
        /\ \/ ws'.backup = ws.backup
           \/ ws.life # "absent" /\ ws'.backup = worker.backup
    BY <1>6 DEF UpdateStatus, secretVars, TypeOK, Workspace
  <2>3. QED
    BY <2>1, <2>2
<1>7. ASSUME NEW ephemeral \in BOOLEAN, CreateWorkspace(ephemeral)
      PROVE  BackupInv'
  <2>1. worker.pc = "idle" /\ ws'.backup = None
        /\ UNCHANGED <<worker, bucket, secret>>
    BY <1>7 DEF CreateWorkspace, NewWorkspace, Idle, secretVars
  <2>2. QED
    BY <2>1, SerialsAreIntegers
<1>8. CASE DeleteWorkspace
  <2>1. ws'.backup = ws.backup /\ ws'.life = "deleting" /\ ws.life = "present"
    BY <1>8 DEF DeleteWorkspace, TypeOK, Workspace
  <2>2. QED
    BY <1>8, <2>1 DEF DeleteWorkspace, secretVars
<1>9. CASE CollectWorkspace
  <2>1. ws'.backup = None /\ ws'.life = "absent" /\ UNCHANGED <<worker, bucket>>
    BY <1>9 DEF CollectWorkspace, NewWorkspace
  <2>2. QED
    BY <2>1, SerialsAreIntegers
<1>10. CASE WriteState
  <2>1. secret'.serial = secret.serial + 1
    BY <1>10 DEF WriteState, PutSecret, TypeOK, Secret
  <2>2. UNCHANGED <<ws, worker, bucket>>
    BY <1>10 DEF WriteState
  <2>3. QED
    BY <2>1, <2>2, SerialsAreIntegers
<1>11. QED
  BY <1>1, <1>2, <1>3, <1>4, <1>5, <1>6, <1>7, <1>8, <1>9, <1>10
  DEF Next, Reconciler, Environment

\* If no reconcile lasts from one life of the workspace into the next, the
\* backup serial in the status is never ahead of the bucket: for any serials,
\* any number of lives and any failures.
THEOREM BackupSerialTruth ==
  ASSUME ~Overlap
  PROVE  Spec => []BackupSerialIsTruthful
<1>1. Init => TypeOK /\ BackupInv
  BY TypeInit, BackupInit
<1>2. TypeOK /\ BackupInv /\ [Next]_vars => (TypeOK /\ BackupInv)'
  BY TypeStep, BackupStep
<1>3. TypeOK /\ BackupInv => BackupSerialIsTruthful
  BY SerialsAreIntegers DEF BackupInv, BackupSerialIsTruthful
<1>4. QED
  BY <1>1, <1>2, <1>3, PTL DEF Spec

-----------------------------------------------------------------------------
(* No failed backup is forgotten.  What is not backed up is still wanted:  *)
(* there is a request, or the reconciler is at it and has either backed up *)
(* what it will report or an error to report, which makes a request.  A    *)
(* restore cannot come between, as a life that has seen the secret does    *)
(* not lose it again.                                                      *)

\* The workspace reports a serial, or is about to.
Reports == ws.serial # None \/ (worker # Idle /\ worker.serial # None)

WantedInv ==
  /\ ~secretBehind => secretCache = secret
  /\ ws.life # "absent" /\ Reports => secret.serial # None /\ secretCache.serial # None
  /\ ws.life # "absent" /\ worker.pc = "restore" => worker.serial = None
  /\ ws.life # "absent" /\ worker.pc = "status" /\ ~worker.failed
       /\ ~ws.ephemeral /\ worker.serial # None => worker.backup = worker.serial
  /\ worker = Idle /\ ws.life = "present" /\ ~ws.ephemeral /\ ws.serial # None
       /\ ws.backup # ws.serial => todo

LEMMA WantedInit == Init => WantedInv
BY DEF Init, WantedInv, Reports, NewWorkspace, NoSecret, Idle

\* What a worker that is not idle makes of itself, in full.
LEMMA WorkerFields ==
  ASSUME TypeOK, worker.pc # "idle"
  PROVE  /\ worker # Idle
         /\ \A failed \in BOOLEAN : Finish(failed) =>
              /\ worker' # Idle /\ worker'.pc = "status" /\ worker'.failed = failed
              /\ worker'.serial = worker.serial /\ worker'.backup = worker.backup
         /\ \A backup \in MaybeSerial :
              worker' = [worker EXCEPT !.pc = "status", !.backup = backup] =>
                /\ worker' # Idle /\ worker'.pc = "status"
                /\ worker'.serial = worker.serial /\ worker'.backup = backup
<1>1. worker \in [pc: {"restore", "backup", "status"}, serial: MaybeSerial,
                  backup: MaybeSerial, failed: BOOLEAN]
  BY DEF TypeOK, Worker, Idle
<1>2. PICK pc \in {"restore", "backup", "status"}, n \in MaybeSerial,
           b \in MaybeSerial, f \in BOOLEAN :
        worker = [pc |-> pc, serial |-> n, backup |-> b, failed |-> f]
  BY <1>1
<1>3. Idle.pc = "idle"
  BY DEF Idle
<1>4. ASSUME NEW failed \in BOOLEAN, Finish(failed)
      PROVE  worker' = [pc |-> "status", serial |-> n, backup |-> b, failed |-> failed]
  BY <1>2, <1>4 DEF Finish
<1>5. ASSUME NEW backup \in MaybeSerial,
             worker' = [worker EXCEPT !.pc = "status", !.backup = backup]
      PROVE  worker' = [pc |-> "status", serial |-> n, backup |-> backup, failed |-> f]
  BY <1>2, <1>5
<1>6. worker # Idle /\ worker.serial = n /\ worker.backup = b
  BY <1>2, <1>3
<1>7. ASSUME NEW failed \in BOOLEAN, Finish(failed)
      PROVE  /\ worker' # Idle /\ worker'.pc = "status" /\ worker'.failed = failed
             /\ worker'.serial = n /\ worker'.backup = b
  BY <1>3, <1>4, <1>7
<1>8. ASSUME NEW backup \in MaybeSerial,
             worker' = [worker EXCEPT !.pc = "status", !.backup = backup]
      PROVE  /\ worker' # Idle /\ worker'.pc = "status"
             /\ worker'.serial = n /\ worker'.backup = backup
  BY <1>3, <1>5, <1>8
<1> HIDE DEF Idle, Finish
<1> QED
  BY <1>6, <1>7, <1>8

LEMMA WantedStep ==
  ASSUME ~Overlap, TypeOK, WantedInv, [Next]_vars
  PROVE  WantedInv'
<1>0. /\ ws \in Workspace /\ secret \in Secret /\ worker \in Worker
      /\ bucket \in MaybeSerial
  BY DEF TypeOK
<1>1. CASE DropRequest \/ StartApply \/ EndApply \/ UNCHANGED vars
  BY <1>1 DEF DropRequest, StartApply, EndApply, vars, secretVars, WantedInv, Reports
<1>2. CASE SyncSecret
  BY <1>2 DEF SyncSecret, WantedInv, Reports
<1>3. CASE FailEarlier
  <2>1. /\ worker'.pc = "status" /\ worker'.failed /\ worker'.serial = ws.serial
        /\ worker' # Idle
    BY <1>3 DEF FailEarlier, Begin, Idle
  <2> QED
    BY <1>3, <2>1 DEF FailEarlier, secretVars, WantedInv, Reports
<1>4. CASE MissSecret
  <2>1. worker'.pc = "restore" /\ worker'.serial = ws.serial /\ worker' # Idle
    BY <1>4 DEF MissSecret, Begin, Idle
  <2>2. ws.serial = None
    BY <1>4 DEF MissSecret, WantedInv, Reports
  <2> QED
    BY <1>4, <2>1, <2>2 DEF MissSecret, secretVars, WantedInv, Reports
<1>5. CASE OwnSecret /\ secretBehind
  <2>1. /\ worker'.pc = "status" /\ worker'.failed /\ worker'.serial = ws.serial
        /\ worker' # Idle
    BY <1>5 DEF OwnSecret, Begin, Idle
  <2> QED
    BY <1>5, <2>1 DEF OwnSecret, secretVars, WantedInv, Reports
<1>6. CASE OwnSecret /\ ~secretBehind
  <2>1. /\ worker'.pc \in {"backup", "status"} /\ worker'.serial = secret.serial
        /\ worker'.backup = ws.backup /\ worker' # Idle
        /\ worker'.pc = "status" => ws.ephemeral \/ ws.backup = secret.serial
    BY <1>6 DEF OwnSecret, Begin, Idle
  <2>2. secret'.serial = secret.serial /\ UNCHANGED <<ws, secretCache>>
    BY <1>0, <1>6 DEF OwnSecret, PutSecret, Secret
  <2>3. ~secretBehind' => secret' = secret
    BY <1>6 DEF OwnSecret, PutSecret
  <2>4. secretCache = secret /\ secretCache.serial # None
    BY <1>6 DEF OwnSecret, WantedInv
  <2> QED
    BY <2>1, <2>2, <2>3, <2>4 DEF WantedInv, Reports
<1>7. CASE Restore
  <2>1. worker.pc # "idle" /\ worker.pc = "restore" /\ UNCHANGED <<ws, secretCache>>
    BY <1>7 DEF Restore
  <2>2. /\ worker # Idle /\ worker' # Idle /\ worker'.pc = "status"
        /\ worker'.serial = worker.serial
    BY <1>0, <1>7, <2>1, WorkerFields DEF Restore
  <2>3. \/ UNCHANGED secretVars
        \/ /\ secret'.serial = bucket /\ bucket # None
           /\ ~secretBehind' => ~secretBehind /\ secret' = secret
    <3>1. CASE UNCHANGED secretVars
      BY <3>1
    <3>2. CASE PutSecret([serial |-> bucket, owned |-> FALSE]) /\ bucket # None
      BY <3>2 DEF PutSecret
    <3> QED
      BY <1>7, <3>1, <3>2 DEF Restore
  <2> QED
    BY <2>1, <2>2, <2>3 DEF WantedInv, Reports, secretVars
<1>8. CASE Backup
  <2>1. worker.pc # "idle" /\ UNCHANGED <<ws, secretVars, secretCache, todo>>
    BY <1>8 DEF Backup
  <2>2. /\ worker # Idle /\ worker' # Idle /\ worker'.pc = "status"
        /\ worker'.serial = worker.serial
        /\ worker'.failed \/ worker'.backup = worker'.serial
    BY <1>8, <2>1, WorkerTypes, WorkerFields DEF Backup
  <2> QED
    BY <2>1, <2>2 DEF WantedInv, Reports, secretVars
<1>9. CASE UpdateStatus
  <2>1. worker.pc = "status" /\ worker' = Idle /\ UNCHANGED <<secretVars, secretCache>>
    BY <1>9 DEF UpdateStatus
  <2>2. worker # Idle
    BY <2>1 DEF Idle
  <2>3. CASE UNCHANGED ws /\ todo'
    BY <2>1, <2>2, <2>3 DEF WantedInv, Reports, secretVars, Idle
  <2>4. CASE /\ ws.life # "absent"
             /\ ws' = [ws EXCEPT !.admits = TRUE, !.serial = worker.serial,
                                 !.backup = worker.backup]
             /\ worker.failed => todo'
    <3>1. /\ ws'.serial = worker.serial /\ ws'.backup = worker.backup
          /\ ws'.life = ws.life /\ ws'.ephemeral = ws.ephemeral
      BY <1>0, <2>4 DEF Workspace
    <3> QED
      BY <2>1, <2>2, <2>4, <3>1 DEF WantedInv, Reports, secretVars, Idle
  <2> QED
    BY <1>9, <2>3, <2>4 DEF UpdateStatus
<1>10. ASSUME NEW ephemeral \in BOOLEAN, CreateWorkspace(ephemeral)
       PROVE  WantedInv'
  <2>1. worker = Idle /\ worker' = Idle /\ ws'.serial = None
    BY <1>10 DEF CreateWorkspace, NewWorkspace
  <2> QED
    BY <1>10, <2>1 DEF CreateWorkspace, WantedInv, Reports, secretVars, Idle
<1>11. CASE DeleteWorkspace
  <2>1. ws'.life = "deleting" /\ ws.life = "present" /\ ws'.serial = ws.serial
        /\ ws'.ephemeral = ws.ephemeral
    BY <1>0, <1>11 DEF DeleteWorkspace, Workspace
  <2> QED
    BY <1>11, <2>1 DEF DeleteWorkspace, WantedInv, Reports, secretVars
<1>12. CASE CollectWorkspace
  <2>1. ws'.life = "absent"
    BY <1>12 DEF CollectWorkspace, NewWorkspace
  <2>2. ~secretBehind' => ~secretBehind /\ secret' = secret
    BY <1>12 DEF CollectWorkspace, PutSecret
  <2> QED
    BY <1>12, <2>1, <2>2 DEF CollectWorkspace, WantedInv
<1>13. CASE WriteState
  <2>1. secret'.serial = secret.serial + 1 /\ secret'.serial # None
    BY <1>0, <1>13, SerialsAreIntegers DEF WriteState, PutSecret, Secret, None
  <2>2. ~secretBehind' => ~secretBehind /\ secret' = secret
    BY <1>13 DEF WriteState, PutSecret
  <2> QED
    BY <1>13, <2>1, <2>2 DEF WriteState, WantedInv, Reports
<1> QED
  BY <1>1, <1>2, <1>3, <1>4, <1>5, <1>6, <1>7, <1>8, <1>9, <1>10, <1>11, <1>12, <1>13
  DEF Next, Reconciler, Environment

\* If no reconcile lasts from one life of the workspace into the next, no failed
\* backup is forgotten: whatever failed in the chain, the bucket or the status
\* write, the reconciler does not come to rest before the state it reports has
\* been backed up.
THEOREM BackupsAreRetried ==
  ASSUME ~Overlap
  PROVE  Spec => []ReportedStateIsBackedUp
<1>1. Init => TypeOK /\ WantedInv
  BY TypeInit, WantedInit
<1>2. TypeOK /\ WantedInv /\ [Next]_vars => (TypeOK /\ WantedInv)'
  BY TypeStep, WantedStep
<1>3. TypeOK /\ WantedInv => ReportedStateIsBackedUp
  BY DEF WantedInv, ReportedStateIsBackedUp, Quiet
<1> QED
  BY <1>1, <1>2, <1>3, PTL DEF Spec

-----------------------------------------------------------------------------
(* A live state never regresses.                                           *)

\* What a step may do to the serial of a state that is there afterwards.
StateMovesOn == secret'.serial # None => secret'.serial >= secret.serial

LEMMA StateStep == TypeOK /\ [Next]_vars => StateMovesOn
<1> SUFFICES ASSUME TypeOK, [Next]_vars PROVE StateMovesOn
  OBVIOUS
<1>0. secret \in Secret /\ secret.serial \in Int /\ bucket \in Int
  BY SerialsAreIntegers DEF TypeOK, Secret
<1>1. CASE UNCHANGED secret
  BY <1>0, <1>1 DEF StateMovesOn
<1>2. CASE OwnSecret
  <2>1. secret'.serial = secret.serial
    BY <1>0, <1>2 DEF OwnSecret, PutSecret, secretVars, Secret
  <2> QED
    BY <1>0, <2>1 DEF StateMovesOn
<1>3. CASE Restore
  <2>1. CASE secret = NoSecret /\ secret'.serial = bucket
    <3>1. bucket \in MaybeSerial /\ secret.serial = None
      BY <2>1 DEF TypeOK, NoSecret
    <3> QED
      BY <2>1, <3>1, BackupAssumption
         DEF StateMovesOn, MaybeSerial, Serials, None
  <2>2. \/ UNCHANGED secret
        \/ /\ secret = NoSecret
           /\ secret' = [serial |-> bucket, owned |-> FALSE]
    BY <1>3 DEF Restore, PutSecret, secretVars
  <2> QED
    BY <1>1, <2>1, <2>2
<1>4. CASE CollectWorkspace
  BY <1>0, <1>4 DEF CollectWorkspace, PutSecret, StateMovesOn, NoSecret
<1>5. CASE WriteState
  <2>1. secret'.serial = secret.serial + 1
    BY <1>0, <1>5 DEF WriteState, PutSecret, Secret
  <2> QED
    BY <1>0, <2>1 DEF StateMovesOn
<1> QED
  BY <1>1, <1>2, <1>3, <1>4, <1>5
     DEF Next, Reconciler, DropRequest, FailEarlier, MissSecret, Backup,
         UpdateStatus, SyncSecret, Environment, CreateWorkspace, DeleteWorkspace,
         StartApply, EndApply, secretVars, vars

\* A live state is never replaced by an older one, whatever the reconciler has
\* read from its cache, in whichever life of the workspace: it restores a state
\* only where there is none.
THEOREM LiveStateMovesOn == Spec => StateNeverRegresses
<1>1. TypeOK /\ [Next]_vars => [StateMovesOn]_vars
  BY StateStep
<1> QED
  BY TypeInit, TypeStep, <1>1, PTL
     DEF Spec, StateNeverRegresses, StateMovesOn
=============================================================================
