---------------------------- MODULE Runner_proofs ----------------------------
(***************************************************************************)
(* The command starts prepared, gets every key that is typed, and leaves   *)
(* its lock file, for a handshake and an input of any length.              *)
(***************************************************************************)
EXTENDS Runner, SequenceTheorems, TLAPS

-----------------------------------------------------------------------------
(* Types.                                                                  *)

Bytes == 0..Stray

\* What the client sends is made of bytes.
LEMMA SentBytes ==
  /\ Handshake \in Seq(Bytes) /\ Len(Handshake) = Length
  /\ Pressed \in Seq(Bytes) /\ Len(Pressed) = Keys
  /\ \A n \in 1..(Length + Keys) :
       /\ (Handshake \o Pressed)[n] \in Bytes
       /\ (Handshake \o Pressed)[n] = IF n <= Length THEN 0 ELSE n - Length
<1> USE RunnerAssumption
<1>1. Handshake \in Seq(Bytes) /\ Len(Handshake) = Length
        /\ \A i \in 1..Length : Handshake[i] = 0
  BY DEF Handshake, Bytes, Stray
<1>2. Pressed \in Seq(Bytes) /\ Len(Pressed) = Keys
        /\ \A i \in 1..Keys : Pressed[i] = i
  BY DEF Pressed, Bytes, Stray
<1>3. \A n \in 1..(Length + Keys) :
        (Handshake \o Pressed)[n] = IF n <= Length THEN 0 ELSE n - Length
  BY <1>1, <1>2
<1>4. ASSUME NEW n \in 1..(Length + Keys) PROVE (Handshake \o Pressed)[n] \in Bytes
  <2>1. (Handshake \o Pressed)[n] = IF n <= Length THEN 0 ELSE n - Length
    BY <1>3
  <2>2. CASE n <= Length
    BY <2>1, <2>2 DEF Bytes, Stray
  <2>3. CASE ~(n <= Length)
    BY <2>1, <2>3 DEF Bytes, Stray
  <2> QED
    BY <2>2, <2>3
<1> QED
  BY <1>1, <1>2, <1>3, <1>4

\* The initial state is well-typed.
LEMMA TypeInit == Init => TypeOK
<1> SUFFICES ASSUME Init PROVE TypeOK
  OBVIOUS
<1> USE DEF Init
<1>1. spec \in [handshake: BOOLEAN, updatesLockFile: BOOLEAN]
        /\ unpacked \in Goroutine \ {"off"} /\ raw \in BOOLEAN
  BY DEF Goroutine
<1>2. hs \in [state: Goroutine, buf: Seq(0..Stray)] /\ Len(hs.buf) <= Length
  BY RunnerAssumption DEF Goroutine
<1>3. runner \in [pc: {"prepare", "execute", "persist", "get", "create", "exited"},
                  code: Codes]
  BY DEF Codes
<1>4. command \in [state: {"none", "running", "ended"}, read: Seq(0..Stray), code: Codes]
  BY DEF Codes
<1>5. lock \in Files \ {"empty"} /\ lockMap \in Files
  BY DEF Files
<1>6. client \in [pc: {"connect", "attached", "exit", "lock", "ok", "error"},
                  sent: 0..(Length + Keys), file: Files]
  BY RunnerAssumption DEF Files
<1> QED
  BY <1>1, <1>2, <1>3, <1>4, <1>5, <1>6 DEF TypeOK

\* Unpacking and receiving the handshake leave the state well-typed.
LEMMA PreparationType ==
  ASSUME TypeOK, Unpack \/ ReceiveHandshake
  PROVE  TypeOK'
<1> USE DEF TypeOK, others, world, api
<1>1. CASE Unpack
  BY <1>1 DEF Unpack, Goroutine
<1>2. ASSUME NEW result \in {"ok", "failed"}, EndHandshake(result)
      PROVE  /\ hs' \in [state: Goroutine, buf: Seq(0..Stray)]
             /\ hs'.buf = hs.buf /\ raw' \in BOOLEAN
  BY <1>2 DEF EndHandshake, Goroutine
<1>3. CASE MakeRaw
  <2>1. hs' \in [state: Goroutine, buf: Seq(0..Stray)] /\ hs'.buf = hs.buf
          /\ raw' \in BOOLEAN
    <3>1. CASE raw' = TRUE /\ UNCHANGED hs
      BY <3>1
    <3>2. CASE EndHandshake("failed")
      BY <1>2, <3>2
    <3> QED
      BY <1>3, <3>1, <3>2 DEF MakeRaw
  <2> QED
    BY <1>3, <2>1 DEF MakeRaw
<1>4. CASE CheckHandshake \/ HandshakeTimesOut \/ ReadFails
  BY <1>2, <1>4 DEF CheckHandshake, HandshakeTimesOut, ReadFails
<1>5. CASE Read
  <2> DEFINE n == Lesser(Len(stdin), Length - Len(hs.buf))
  <2>1. n \in Nat /\ n > 0 /\ n <= Len(stdin) /\ n <= Length - Len(hs.buf)
    <3>1. n > 0 /\ Len(stdin) \in Nat /\ Length - Len(hs.buf) \in Int
      BY <1>5, RunnerAssumption, LenProperties DEF Read
    <3>2. \A a, b \in Int : Lesser(a, b) \in {a, b} /\ Lesser(a, b) <= a /\ Lesser(a, b) <= b
      BY DEF Lesser
    <3> QED
      BY <3>1, <3>2
  <2>2. \A i \in 1..Len(stdin) : stdin[i] \in 0..Stray
    BY ElementOfSeq
  <2>5. SubSeq(stdin, 1, n) \in Seq(0..Stray) /\ Len(SubSeq(stdin, 1, n)) = n
    <3>1. \A i \in 1..n : stdin[i] \in 0..Stray
      BY <2>1, <2>2
    <3> HIDE DEF n
    <3> QED
      BY <2>1, <3>1, SubSeqProperties
  <2>6. SubSeq(stdin, n + 1, Len(stdin)) \in Seq(0..Stray)
    <3>1. \A i \in (n + 1)..Len(stdin) : stdin[i] \in 0..Stray
      BY <2>1, <2>2
    <3>2. n + 1 \in Int /\ Len(stdin) \in Int
      BY <2>1, LenProperties
    <3> HIDE DEF n
    <3> QED
      BY <3>1, <3>2, SubSeqProperties
  <2>3. /\ hs.buf \o SubSeq(stdin, 1, n) \in Seq(0..Stray)
        /\ Len(hs.buf \o SubSeq(stdin, 1, n)) <= Length
    BY <2>1, <2>5, RunnerAssumption, ConcatProperties
  <2>4. hs' = [hs EXCEPT !.buf = hs.buf \o SubSeq(stdin, 1, n)]
          /\ stdin' = SubSeq(stdin, n + 1, Len(stdin))
    BY <1>5 DEF Read
  <2> HIDE DEF n
  <2>7. stdin' \in Seq(0..Stray)
    BY <2>4, <2>6
  <2>8. hs' \in [state: Goroutine, buf: Seq(0..Stray)] /\ Len(hs'.buf) <= Length
    BY <2>3, <2>4
  <2>9. UNCHANGED <<others, raw>>
    BY <1>5 DEF Read
  <2> QED
    BY <2>7, <2>8, <2>9
<1> QED
  BY <1>1, <1>3, <1>4, <1>5 DEF ReceiveHandshake

\* The main goroutine leaves the state well-typed.
LEMMA MainType ==
  ASSUME TypeOK, Main
  PROVE  TypeOK'
<1> USE DEF TypeOK, world, rest, api
<1>0. \A code \in Codes : Exit(code) =>
        runner' \in [pc: {"prepare", "execute", "persist", "get", "create", "exited"},
                     code: Codes]
  BY DEF Exit
<1>1. CASE FinishPreparing
  BY <1>0, <1>1 DEF FinishPreparing, Codes
<1>2. CASE Execute
  BY <1>2 DEF Execute
<1>3. CASE CommandReads
  <2>1. Append(command.read, Head(stdin)) \in Seq(0..Stray) /\ Tail(stdin) \in Seq(0..Stray)
    BY <1>3, HeadTailProperties, AppendProperties DEF CommandReads
  <2>2. stdin' \in Seq(0..Stray)
    BY <1>3, <2>1 DEF CommandReads
  <2>3. command' = [command EXCEPT !.read = Append(command.read, Head(stdin))]
    BY <1>3 DEF CommandReads
  <2>4. command' \in [state: {"none", "running", "ended"}, read: Seq(0..Stray),
                      code: Codes]
    BY <2>1, <2>3
  <2>5. UNCHANGED <<world, unpacked, hs, raw, runner, lock, faulted>>
    BY <1>3 DEF CommandReads
  <2> QED
    BY <2>2, <2>4, <2>5
<1>4. CASE CommandEnds
  <2>1. PICK code \in {"zero", "command"} :
          command' = [command EXCEPT !.state = "ended", !.code = code]
    BY <1>4 DEF CommandEnds
  <2>2. command' \in [state: {"none", "running", "ended"}, read: Seq(0..Stray),
                      code: Codes]
    BY <2>1 DEF Codes
  <2>3. lock' \in Files \ {"empty"}
    BY <1>4 DEF CommandEnds, Files
  <2> QED
    BY <1>4, <2>2, <2>3 DEF CommandEnds
<1>5. CASE FinishExecute
  BY <1>0, <1>5 DEF FinishExecute
<1>6. CASE ReadLockFile
  <2>1. runner' \in [pc: {"prepare", "execute", "persist", "get", "create", "exited"},
                     code: Codes]
    BY <1>0, <1>6 DEF ReadLockFile, Codes
  <2>2. faulted' \in BOOLEAN
    BY <1>6 DEF ReadLockFile
  <2> QED
    BY <1>6, <2>1, <2>2 DEF ReadLockFile
<1>7. CASE GetRun
  BY <1>0, <1>7 DEF GetRun, Codes
<1>8. CASE CreateLockMap
  BY <1>0, <1>8 DEF CreateLockMap, Codes, Files
<1> QED
  BY <1>1, <1>2, <1>3, <1>4, <1>5, <1>6, <1>7, <1>8 DEF Main

\* The cluster leaves the state well-typed.
LEMMA ClusterType ==
  ASSUME TypeOK, Cluster
  PROVE  TypeOK'
<1> USE DEF TypeOK, rest, api
<1>1. CASE Kill
  BY <1>1 DEF Kill, Exit, Codes
<1>2. CASE ReportExit
  BY <1>2 DEF ReportExit
<1>3. CASE DeleteRun
  <2>1. run' \in BOOLEAN
    BY <1>3 DEF DeleteRun
  <2>2. UNCHANGED <<rest, lockMap, reported, runner, command, lock, faulted>>
    BY <1>3 DEF DeleteRun
  <2> QED
    BY <2>1, <2>2
<1>4. CASE CollectLockMap
  BY <1>4 DEF CollectLockMap, Files
<1> QED
  BY <1>1, <1>2, <1>3, <1>4 DEF Cluster

\* The client leaves the state well-typed.
LEMMA ClientType ==
  ASSUME TypeOK, Client
  PROVE  TypeOK'
<1> USE DEF TypeOK, container, api
<1>1. CASE Connect \/ Disconnect \/ AwaitExit
  BY <1>1 DEF Connect, Disconnect, AwaitExit, ToClient
<1>2. CASE Send
  <2>1. client.sent + 1 \in 1..(Length + Keys)
    BY <1>2, RunnerAssumption DEF Send
  <2>2. Append(stdin, (Handshake \o Pressed)[client.sent + 1]) \in Seq(0..Stray)
    BY <2>1, SentBytes DEF Bytes
  <2>3. client.sent + 1 \in 0..(Length + Keys)
    BY <2>1
  <2> QED
    BY <1>2, <2>2, <2>3 DEF Send
<1>3. CASE SendStray
  <2>1. [i \in 1..Length |-> Stray] \in Seq(0..Stray)
    BY RunnerAssumption DEF Stray
  <2> QED
    BY <1>3, <2>1 DEF SendStray
<1>4. CASE FetchLockFile
  <2>1. CASE client' = [client EXCEPT !.pc = "ok", !.file = lockMap]
    BY <1>4, <2>1 DEF FetchLockFile
  <2>2. CASE ToClient("ok") \/ ToClient("error")
    <3>1. client' = [client EXCEPT !.pc = "ok"] \/ client' = [client EXCEPT !.pc = "error"]
      BY <2>2 DEF ToClient
    <3>2. UNCHANGED <<container, stdin>>
      BY <1>4 DEF FetchLockFile
    <3>3. client' \in [pc: {"connect", "attached", "exit", "lock", "ok", "error"},
                       sent: 0..(Length + Keys), file: Files]
      BY <3>1
    <3> QED
      BY <3>2, <3>3
  <2> QED
    BY <1>4, <2>1, <2>2 DEF FetchLockFile
<1> QED
  BY <1>1, <1>2, <1>3, <1>4 DEF Client

\* Every step leaves the state well-typed.
LEMMA TypeNext == TypeOK /\ [Next]_vars => TypeOK'
<1> SUFFICES ASSUME TypeOK, [Next]_vars PROVE TypeOK'
  OBVIOUS
<1>1. CASE UNCHANGED vars
  BY <1>1 DEF TypeOK, vars
<1> QED
  BY <1>1, PreparationType, MainType, ClusterType, ClientType DEF Next

\* Types are kept for a handshake and an input of any length.
THEOREM TypeCorrect == Spec => []TypeOK
BY TypeInit, TypeNext, PTL DEF Spec

-----------------------------------------------------------------------------
(* Preparation, and what comes of the command.                             *)

\* The main goroutine has got past the group of the two others.
PastGroup ==
  \/ command.state # "none"
  \/ runner.pc \in {"execute", "persist", "get", "create"}

Prepared ==
  /\ PastGroup => unpacked = "ok" /\ hs.state \in {"off", "ok"}
  /\ hs.state # "running" => ~raw
  /\ hs.state = "off" => ~spec.handshake
  /\ command.state = "running" => runner.pc \in {"execute", "exited"}

\* The lock file is stored, or there is a reason that it is not.
Stored ==
  spec.updatesLockFile /\ lock # "none" /\ run /\ ~faulted => lockMap = lock

Delivered ==
  spec.updatesLockFile /\ lock # "none" /\ run /\ ~faulted => client.file = lock

LockInv ==
  /\ Alive => runner.code = "none"
  /\ command.state = "ended" => command.code \in {"zero", "command"}
  /\ runner.pc \in {"persist", "get", "create"} =>
       command.state = "ended" /\ command.code = "zero"
  /\ runner.code = "zero" => command.code = "zero" /\ command.state = "ended" /\ Stored
  /\ client.pc \in {"lock", "ok"} => runner.code = "zero"
  /\ client.pc = "lock" => spec.updatesLockFile
  /\ client.pc = "ok" => Delivered

\* Nothing has been done to begin with.
LEMMA LockInit == Init => Prepared /\ LockInv
BY DEF Init, Prepared, PastGroup, LockInv, Alive, Stored, Delivered

\* Every step keeps the command prepared.
LEMMA PreparedNext ==
  TypeOK /\ Prepared /\ LockInv /\ [Next]_vars => Prepared'
<1> SUFFICES ASSUME TypeOK, Prepared, LockInv, [Next]_vars PROVE Prepared'
  OBVIOUS
<1> USE DEF TypeOK, Prepared, PastGroup
<1>1. CASE UNCHANGED vars
  BY <1>1 DEF vars
<1>2. CASE Unpack
  BY <1>2 DEF Unpack, world
<1>3. CASE ReceiveHandshake
  <2>1. UNCHANGED <<spec, unpacked, runner, command>>
    BY <1>3 DEF ReceiveHandshake, MakeRaw, Read, CheckHandshake, HandshakeTimesOut,
                ReadFails, others, world
  <2>2. hs.state = "running" /\ (hs'.state = "running" \/ (hs'.state \in {"ok", "failed"} /\ raw' = FALSE))
    BY <1>3 DEF ReceiveHandshake, MakeRaw, Read, CheckHandshake, HandshakeTimesOut,
                ReadFails, Receiving, EndHandshake
  <2> QED
    BY <2>1, <2>2
<1>4. CASE Main
  <2>1. UNCHANGED <<spec, unpacked, hs, raw>>
    BY <1>4 DEF Main, FinishPreparing, Execute, CommandReads, CommandEnds, FinishExecute,
                ReadLockFile, GetRun, CreateLockMap, rest, world
  <2>2. CASE FinishPreparing
    BY <2>1, <2>2 DEF FinishPreparing, Exit, LockInv
  <2>3. CASE Execute
    BY <2>1, <2>3 DEF Execute
  <2>4. CASE CommandReads \/ CommandEnds
    BY <2>1, <2>4 DEF CommandReads, CommandEnds
  <2>5. CASE FinishExecute
    BY <2>1, <2>5 DEF FinishExecute, Exit
  <2>6. CASE ReadLockFile \/ GetRun \/ CreateLockMap
    BY <2>1, <2>6 DEF ReadLockFile, GetRun, CreateLockMap, Exit, LockInv
  <2> QED
    BY <1>4, <2>2, <2>3, <2>4, <2>5, <2>6 DEF Main
<1>5. CASE Cluster
  BY <1>5 DEF Cluster, Kill, ReportExit, DeleteRun, CollectLockMap, Exit, rest
<1>6. CASE Client
  <2>1. UNCHANGED <<spec, unpacked, hs, raw, runner, command>>
    BY <1>6 DEF Client, Connect, Send, SendStray, Disconnect, AwaitExit, FetchLockFile,
                container
  <2> QED
    BY <2>1
<1> QED
  BY <1>1, <1>2, <1>3, <1>4, <1>5, <1>6 DEF Next

\* Every step of the main goroutine keeps the lock file.
LEMMA MainKeepsLock ==
  ASSUME TypeOK, Prepared, LockInv, Main
  PROVE  LockInv'
<1> USE DEF TypeOK, LockInv, Alive, Stored, Delivered
<1>0. UNCHANGED <<spec, run, reported, client>>
  BY DEF Main, FinishPreparing, Execute, CommandReads, CommandEnds, FinishExecute,
         ReadLockFile, GetRun, CreateLockMap, rest, world, api
<1>1. CASE FinishPreparing
  BY <1>0, <1>1 DEF FinishPreparing, Exit, api
<1>2. CASE Execute
  BY <1>0, <1>2 DEF Execute, api
<1>3. CASE CommandReads
  BY <1>0, <1>3 DEF CommandReads, world, api
<1>4. CASE CommandEnds
  <2>1. UNCHANGED <<runner, lockMap, faulted>> /\ command'.state = "ended"
          /\ command'.code \in {"zero", "command"} /\ command.state = "running"
          /\ runner.pc # "exited"
    BY <1>4 DEF CommandEnds, api
  <2>2. runner.code = "none" /\ runner.pc \notin {"persist", "get", "create"}
    BY <2>1
  <2> QED
    BY <1>0, <2>1, <2>2
<1>5. CASE FinishExecute
  <2>1. UNCHANGED <<command, lock, lockMap, faulted>> /\ command.state = "ended"
          /\ runner.pc = "execute"
    BY <1>5 DEF FinishExecute, api
  <2>2. CASE command.code = "zero" /\ spec.updatesLockFile
    BY <1>0, <1>5, <2>1, <2>2 DEF FinishExecute
  <2>3. CASE ~(command.code = "zero" /\ spec.updatesLockFile)
    <3>1. runner' = [pc |-> "exited", code |-> command.code]
      BY <1>5, <2>3 DEF FinishExecute, Exit
    <3> QED
      BY <1>0, <2>1, <2>3, <3>1
  <2> QED
    BY <2>2, <2>3
<1>6. CASE ReadLockFile
  <2>1. UNCHANGED <<command, lock, lockMap>> /\ runner.code = "none"
          /\ command.state = "ended" /\ command.code = "zero" /\ runner.pc = "persist"
    BY <1>6 DEF ReadLockFile, api
  <2>2. client.pc \notin {"lock", "ok"}
    BY <2>1
  <2>3. CASE lock = "none"
    <3>1. runner' = [pc |-> "exited", code |-> "zero"]
      BY <1>6, <2>3 DEF ReadLockFile, Exit
    <3> QED
      BY <1>0, <2>1, <2>2, <2>3, <3>1
  <2>4. CASE lock # "none"
    <3>1. runner'.pc = "get" /\ runner'.code = "none"
      BY <1>6, <2>1, <2>4 DEF ReadLockFile
    <3> QED
      BY <1>0, <2>1, <2>2, <3>1
  <2> QED
    BY <2>3, <2>4
<1>7. CASE GetRun
  BY <1>0, <1>7 DEF GetRun, Exit, api
<1>8. CASE CreateLockMap
  BY <1>0, <1>8 DEF CreateLockMap, Exit
<1> QED
  BY <1>1, <1>2, <1>3, <1>4, <1>5, <1>6, <1>7, <1>8 DEF Main

\* Every step keeps the lock file.
LEMMA LockNext == TypeOK /\ Prepared /\ LockInv /\ [Next]_vars => LockInv'
<1> SUFFICES ASSUME TypeOK, Prepared, LockInv, [Next]_vars PROVE LockInv'
  OBVIOUS
<1> USE DEF TypeOK, LockInv, Alive, Stored, Delivered
<1>1. CASE UNCHANGED vars
  BY <1>1 DEF vars
<1>2. CASE Unpack \/ ReceiveHandshake
  <2>1. UNCHANGED <<spec, run, lockMap, client, runner, command, lock, faulted>>
    BY <1>2 DEF Unpack, ReceiveHandshake, MakeRaw, Read, CheckHandshake,
                HandshakeTimesOut, ReadFails, others, world, api
  <2> QED
    BY <2>1
<1>3. CASE Main
  BY <1>3, MainKeepsLock
<1>4. CASE Cluster
  <2>1. CASE Kill
    BY <2>1 DEF Kill, Exit, rest, api
  <2>2. CASE ReportExit
    BY <2>2 DEF ReportExit, rest
  <2>3. CASE DeleteRun
    BY <2>3 DEF DeleteRun, rest
  <2>4. CASE CollectLockMap
    BY <2>4 DEF CollectLockMap, rest
  <2> QED
    BY <1>4, <2>1, <2>2, <2>3, <2>4 DEF Cluster
<1>5. CASE Client
  <2>1. UNCHANGED <<spec, run, lockMap, runner, command, lock, faulted>>
    BY <1>5 DEF Client, Connect, Send, SendStray, Disconnect, AwaitExit, FetchLockFile,
                container, api
  <2>2. CASE Connect \/ Send \/ SendStray \/ Disconnect
    BY <2>1, <2>2 DEF Connect, Send, SendStray, Disconnect, ToClient
  <2>3. CASE AwaitExit
    BY <2>1, <2>3 DEF AwaitExit, ToClient
  <2>4. CASE FetchLockFile
    BY <2>1, <2>4 DEF FetchLockFile, ToClient
  <2> QED
    BY <1>5, <2>2, <2>3, <2>4 DEF Client
<1> QED
  BY <1>1, <1>2, <1>3, <1>4, <1>5 DEF Next

\* A launch that went well has run its command, and its lock file has arrived.
THEOREM LockFileArrival == Spec => []LockFileArrives
<1>1. LockInv => LockFileArrives
  BY DEF LockInv, LockFileArrives, Delivered
<1> QED
  BY <1>1, TypeInit, TypeNext, LockInit, LockNext, PreparedNext, PTL DEF Spec

-----------------------------------------------------------------------------
(* The stream of bytes from the client.                                    *)

Typed == Handshake \o Pressed

\* What has been read for the handshake, what the command has read and what is
\* not read yet are what the client has sent, in this order.
Clean ==
  /\ Len(hs.buf) + Len(command.read) + Len(stdin) = client.sent
  /\ \A i \in 1..Len(hs.buf) : hs.buf[i] = Typed[i]
  /\ \A i \in 1..Len(command.read) :
       command.read[i] = Typed[Len(hs.buf) + i]
  /\ \A i \in 1..Len(stdin) :
       stdin[i] = Typed[Len(hs.buf) + Len(command.read) + i]

\* Somebody else has typed before the client.
Dirty ==
  \/ Len(hs.buf) > 0 /\ hs.buf[1] = Stray
  \/ Len(hs.buf) = 0 /\ Len(stdin) > 0 /\ stdin[1] = Stray

StreamInv ==
  /\ spec.handshake => Clean \/ Dirty
  /\ hs.state = "ok" => Clean /\ Len(hs.buf) = Length
  /\ hs.state # "ok" => (spec.handshake => command.read = <<>>)
  /\ hs.state = "off" => ~spec.handshake
  /\ hs.state = "ok" => spec.handshake
  /\ ~spec.handshake => hs.state = "off"

\* Nothing has been sent to begin with.
LEMMA StreamInit == Init => StreamInv
BY EmptySeq DEF Init, StreamInv, Clean

\* Only a buffer without foreign bytes matches.
LEMMA MatchIsClean ==
  ASSUME TypeOK, Matches(hs.buf)
  PROVE  ~Dirty
<1>1. hs.buf[1] = 0 /\ Len(hs.buf) = Length
  BY SentBytes, RunnerAssumption DEF Matches, Handshake
<1> QED
  BY <1>1, RunnerAssumption DEF Dirty, Stray

\* Reading moves bytes from the terminal into the buffer.
LEMMA ReadStep ==
  ASSUME TypeOK, StreamInv, Read
  PROVE  StreamInv'
<1> DEFINE n == Lesser(Len(stdin), Length - Len(hs.buf))
           buf == hs.buf \o SubSeq(stdin, 1, n)
           left == SubSeq(stdin, n + 1, Len(stdin))
<1>0. /\ hs \in [state: Goroutine, buf: Seq(Bytes)] /\ stdin \in Seq(Bytes)
      /\ Len(hs.buf) \in Nat /\ Len(stdin) \in Nat /\ Len(hs.buf) <= Length
      /\ hs.state = "running" /\ command.read \in Seq(Bytes) /\ client.sent \in Nat
  BY LenProperties DEF Read, Receiving, TypeOK, Bytes
<1>1. n \in Nat /\ n > 0 /\ n <= Len(stdin)
  <2>1. n > 0
    BY DEF Read
  <2> QED
    BY <1>0, <2>1, RunnerAssumption DEF Lesser
<1>2. \A i \in 1..Len(stdin) : stdin[i] \in Bytes
  BY <1>0, ElementOfSeq
<1>3. /\ SubSeq(stdin, 1, n) \in Seq(Bytes) /\ Len(SubSeq(stdin, 1, n)) = n
      /\ \A i \in 1..n : SubSeq(stdin, 1, n)[i] = stdin[i]
  <2>1. \A i \in 1..n : stdin[i] \in Bytes
    BY <1>0, <1>1, <1>2
  <2> QED
    BY <1>1, <2>1, SubSeqProperties
<1>4. /\ left \in Seq(Bytes) /\ Len(left) = Len(stdin) - n
      /\ \A i \in 1..Len(left) : left[i] = stdin[n + i]
  <2>1. \A i \in (n + 1)..Len(stdin) : stdin[i] \in Bytes
    BY <1>0, <1>1, <1>2
  <2>2. /\ left \in Seq(Bytes)
        /\ Len(left) = IF n + 1 <= Len(stdin) THEN Len(stdin) - (n + 1) + 1 ELSE 0
        /\ \A i \in 1..(Len(stdin) - (n + 1) + 1) : left[i] = stdin[(n + 1) + i - 1]
    BY <1>0, <1>1, <2>1, SubSeqProperties
  <2>3. Len(left) = Len(stdin) - n
    BY <1>0, <1>1, <2>2
  <2>4. Len(stdin) - (n + 1) + 1 = Len(stdin) - n /\ \A i \in Nat : (n + 1) + i - 1 = n + i
    BY <1>0, <1>1
  <2>5. \A i \in 1..(Len(stdin) - n) : i \in Nat
    BY <1>0, <1>1
  <2> HIDE DEF n, left
  <2> QED
    BY <2>2, <2>3, <2>4, <2>5
<1>5. /\ buf \in Seq(Bytes) /\ Len(buf) = Len(hs.buf) + n
      /\ \A i \in 1..(Len(hs.buf) + n) :
           buf[i] = IF i <= Len(hs.buf) THEN hs.buf[i] ELSE stdin[i - Len(hs.buf)]
  <2>1. /\ buf \in Seq(Bytes) /\ Len(buf) = Len(hs.buf) + n
        /\ \A i \in 1..(Len(hs.buf) + n) :
             buf[i] = IF i <= Len(hs.buf) THEN hs.buf[i]
                      ELSE SubSeq(stdin, 1, n)[i - Len(hs.buf)]
    BY <1>0, <1>3, ConcatProperties
  <2>2. \A i \in 1..(Len(hs.buf) + n) :
          i <= Len(hs.buf) \/ i - Len(hs.buf) \in 1..n
    BY <1>0, <1>1
  <2> QED
    BY <1>3, <2>1, <2>2
<1>6. /\ hs'.buf = buf /\ hs'.state = "running" /\ stdin' = left
      /\ UNCHANGED <<spec, command, client>>
  BY <1>0 DEF Read, others, world
<1> HIDE DEF buf, left
<1>7. CASE ~spec.handshake
  BY <1>0, <1>6, <1>7 DEF StreamInv
<1>8. CASE spec.handshake /\ Clean
  <2>1. command.read = <<>> /\ Len(command.read) = 0
    BY <1>0, <1>8, EmptySeq DEF StreamInv
  <2>2. Len(buf) + Len(command.read) + Len(left) = client.sent
    BY <1>0, <1>1, <1>4, <1>5, <1>8, <2>1 DEF Clean
  <2>3. \A i \in 1..Len(buf) : buf[i] = Typed[i]
    <3>1. \A i \in 1..Len(stdin) : stdin[i] = Typed[Len(hs.buf) + i]
      BY <1>0, <1>8, <2>1 DEF Clean
    <3>2. SUFFICES ASSUME NEW i \in 1..Len(buf) PROVE buf[i] = Typed[i]
      OBVIOUS
    <3>3. CASE i <= Len(hs.buf)
      <4>1. i \in 1..Len(hs.buf) /\ i \in 1..(Len(hs.buf) + n)
        BY <1>0, <1>1, <1>5, <3>3
      <4>2. hs.buf[i] = Typed[i]
        BY <1>8, <4>1 DEF Clean
      <4> QED
        BY <1>5, <3>3, <4>1, <4>2
    <3>4. CASE ~(i <= Len(hs.buf))
      <4>1. i - Len(hs.buf) \in 1..Len(stdin) /\ Len(hs.buf) + (i - Len(hs.buf)) = i
        BY <1>0, <1>1, <1>5, <3>4
      <4> QED
        BY <1>5, <3>1, <3>4, <4>1
    <3> QED
      BY <3>3, <3>4
  <2>4. \A i \in 1..Len(left) : left[i] = Typed[Len(buf) + Len(command.read) + i]
    <3>1. SUFFICES ASSUME NEW i \in 1..Len(left)
                   PROVE left[i] = Typed[Len(buf) + Len(command.read) + i]
      OBVIOUS
    <3>2. n + i \in 1..Len(stdin)
            /\ Len(hs.buf) + Len(command.read) + (n + i) = Len(buf) + Len(command.read) + i
      BY <1>0, <1>1, <1>4, <1>5, <2>1
    <3> QED
      BY <1>4, <1>8, <3>2 DEF Clean
  <2>5. Clean'
    <3>1. Len(hs'.buf) + Len(command'.read) + Len(stdin') = client'.sent
      BY <1>6, <2>2
    <3>2. \A i \in 1..Len(hs'.buf) : hs'.buf[i] = Typed[i]
      BY <1>6, <2>3
    <3>3. \A i \in 1..Len(command'.read) : command'.read[i] = Typed[Len(hs'.buf) + i]
      BY <1>6, <2>1
    <3>4. \A i \in 1..Len(stdin') :
            stdin'[i] = Typed[Len(hs'.buf) + Len(command'.read) + i]
      BY <1>6, <2>4
    <3> QED
      BY <3>1, <3>2, <3>3, <3>4 DEF Clean
  <2> QED
    BY <1>0, <1>6, <1>8, <2>1, <2>5 DEF StreamInv
<1>9. CASE spec.handshake /\ Dirty
  <2>1. Len(buf) > 0 /\ buf[1] = Stray
    <3>1. 1 \in 1..(Len(hs.buf) + n) /\ Len(buf) > 0
      BY <1>0, <1>1, <1>5
    <3>2. CASE Len(hs.buf) > 0 /\ hs.buf[1] = Stray
      BY <1>0, <1>5, <3>1, <3>2
    <3>3. CASE Len(hs.buf) = 0 /\ Len(stdin) > 0 /\ stdin[1] = Stray
      BY <1>0, <1>5, <3>1, <3>3
    <3> QED
      BY <1>9, <3>2, <3>3 DEF Dirty
  <2>2. Dirty'
    BY <1>6, <2>1 DEF Dirty, Stray
  <2> QED
    BY <1>0, <1>6, <1>9, <2>2 DEF StreamInv
<1> QED
  BY <1>7, <1>8, <1>9 DEF StreamInv

\* The rest of the handshake takes no byte.
LEMMA HandshakeStep ==
  ASSUME TypeOK, StreamInv, ReceiveHandshake
  PROVE  StreamInv'
<1>1. CASE Read
  BY <1>1, ReadStep
<1>2. CASE MakeRaw \/ HandshakeTimesOut \/ ReadFails
  <2>1. /\ hs.state = "running" /\ hs'.state \in {"running", "failed"} /\ hs'.buf = hs.buf
        /\ UNCHANGED <<spec, command, client, stdin>>
    BY <1>2 DEF MakeRaw, HandshakeTimesOut, ReadFails, Receiving, EndHandshake, TypeOK,
                others, world
  <2>2. (Clean => Clean') /\ (Dirty => Dirty')
    BY <2>1 DEF Clean, Dirty
  <2> QED
    BY <2>1, <2>2 DEF StreamInv
<1>3. CASE CheckHandshake
  <2>1. /\ hs.state = "running" /\ hs'.buf = hs.buf /\ Len(hs.buf) = Length
        /\ hs'.state = IF Matches(hs.buf) THEN "ok" ELSE "failed"
        /\ UNCHANGED <<spec, command, client, stdin>>
    BY <1>3 DEF CheckHandshake, Receiving, EndHandshake, TypeOK, others, world
  <2>2. spec.handshake
    BY <2>1 DEF StreamInv, TypeOK
  <2>3. Matches(hs.buf) => Clean
    BY <2>2, MatchIsClean DEF StreamInv
  <2>4. (Clean => Clean') /\ (Dirty => Dirty')
    BY <2>1 DEF Clean, Dirty
  <2> QED
    BY <2>1, <2>2, <2>3, <2>4 DEF StreamInv
<1> QED
  BY <1>1, <1>2, <1>3 DEF ReceiveHandshake

\* The command takes the next byte.
LEMMA CommandReadsStep ==
  ASSUME TypeOK, Prepared, StreamInv, CommandReads
  PROVE  StreamInv'
<1>0. /\ command.state = "running" /\ stdin # <<>>
      /\ command' = [command EXCEPT !.read = Append(command.read, Head(stdin))]
      /\ stdin' = Tail(stdin) /\ UNCHANGED <<spec, hs, client>>
  BY DEF CommandReads, world
<1>1. hs.state \in {"off", "ok"}
  BY <1>0 DEF Prepared, PastGroup
<1>2. CASE hs.state = "off"
  BY <1>0, <1>2 DEF StreamInv
<1>3. CASE hs.state = "ok"
  <2> DEFINE b == Len(hs.buf)  r == Len(command.read)  s == Len(stdin)
  <2>1. /\ command.read \in Seq(Bytes) /\ stdin \in Seq(Bytes) /\ Clean
        /\ b \in Nat /\ r \in Nat /\ s \in Nat /\ s > 0 /\ b = Length
    BY <1>0, <1>3, LenProperties, EmptySeq DEF TypeOK, StreamInv, Bytes
  <2>2. /\ Head(stdin) = stdin[1] /\ Head(stdin) \in Bytes /\ Len(stdin') = s - 1
        /\ \A i \in 1..(s - 1) : stdin'[i] = stdin[i + 1]
    BY <1>0, <2>1, HeadTailProperties
  <2>3. /\ Len(command'.read) = r + 1
        /\ \A i \in 1..r : command'.read[i] = command.read[i]
        /\ command'.read[r + 1] = Head(stdin)
    <3>1. command'.read = Append(command.read, Head(stdin))
      BY <1>0 DEF TypeOK
    <3> QED
      BY <2>1, <2>2, <3>1, AppendProperties
  <2>4. b + (r + 1) + (s - 1) = client.sent
    <3>1. b + r + s = client.sent
      BY <2>1 DEF Clean
    <3> QED
      BY <2>1, <3>1
  <2>5. \A i \in 1..(r + 1) : command'.read[i] = Typed[b + i]
    <3>1. Head(stdin) = Typed[b + (r + 1)]
      <4>1. 1 \in 1..Len(stdin) /\ Len(hs.buf) + Len(command.read) + 1 = b + (r + 1)
        BY <2>1
      <4> QED
        BY <2>1, <2>2, <4>1 DEF Clean
    <3>2. \A i \in 1..r : command.read[i] = Typed[b + i]
      BY <2>1 DEF Clean
    <3>3. \A i \in 1..(r + 1) : i \in 1..r \/ i = r + 1
      BY <2>1
    <3> QED
      BY <2>3, <3>1, <3>2, <3>3
  <2>6. \A i \in 1..(s - 1) : stdin'[i] = Typed[b + (r + 1) + i]
    <3>1. SUFFICES ASSUME NEW i \in 1..(s - 1)
                   PROVE  stdin'[i] = Typed[b + (r + 1) + i]
      OBVIOUS
    <3>2. i \in Nat /\ i + 1 \in 1..s /\ b + r + (i + 1) = b + (r + 1) + i
      <4>1. b \in Nat /\ r \in Nat /\ s \in Nat /\ i \in 1..(s - 1)
        BY <2>1
      <4> HIDE DEF b, r, s
      <4> QED
        BY <4>1
    <3> QED
      BY <2>1, <2>2, <3>2 DEF Clean
  <2>7. hs' = hs /\ client' = client /\ spec' = spec
    BY <1>0
  <2>8. \A i \in 1..Len(hs.buf) : hs.buf[i] = Typed[i]
    BY <2>1 DEF Clean
  <2> HIDE DEF b, r, s
  <2>9. Clean'
    <3>1. Len(hs'.buf) = b /\ Len(hs.buf) = b
      BY <2>7 DEF b
    <3> QED
      BY <2>2, <2>3, <2>4, <2>5, <2>6, <2>7, <2>8, <3>1 DEF Clean
  <2> QED
    BY <1>3, <2>1, <2>7, <2>9 DEF StreamInv, b
<1> QED
  BY <1>1, <1>2, <1>3

\* The client sends the next byte of the handshake or of what the user types.
LEMMA SendStep ==
  ASSUME TypeOK, StreamInv, Send
  PROVE  StreamInv'
<1> DEFINE b == Len(hs.buf)  r == Len(command.read)  s == Len(stdin)
           next == Typed[client.sent + 1]
<1>0. /\ client.sent < Length + Keys /\ client.sent \in Nat /\ spec.handshake
      /\ client'.sent = client.sent + 1 /\ stdin' = Append(stdin, next)
      /\ UNCHANGED <<spec, hs, command>>
      /\ stdin \in Seq(Bytes) /\ b \in Nat /\ r \in Nat /\ s \in Nat
  BY LenProperties DEF Send, TypeOK, container, Typed, Bytes
<1>1. next \in Bytes
  <2>1. client.sent + 1 \in 1..(Length + Keys)
    BY <1>0, RunnerAssumption
  <2> QED
    BY <2>1, SentBytes DEF Typed
<1>2. /\ Len(stdin') = s + 1 /\ stdin'[s + 1] = next
      /\ \A i \in 1..s : stdin'[i] = stdin[i]
  BY <1>0, <1>1, AppendProperties
<1>3. CASE Clean
  <2>1. b + r + (s + 1) = client.sent + 1
    <3>1. b + r + s = client.sent
      BY <1>3 DEF Clean
    <3>2. b \in Nat /\ r \in Nat /\ s \in Nat /\ client.sent \in Nat
      BY <1>0
    <3> HIDE DEF b, r, s
    <3> QED
      BY <3>1, <3>2
  <2>2. \A i \in 1..(s + 1) : stdin'[i] = Typed[b + r + i]
    <3>1. \A i \in 1..s : stdin[i] = Typed[b + r + i]
      BY <1>3 DEF Clean
    <3>2. \A i \in 1..(s + 1) : i \in 1..s \/ i = s + 1
      BY <1>0
    <3> QED
      BY <1>2, <2>1, <3>1, <3>2
  <2>3. Clean'
    BY <1>0, <1>2, <1>3, <2>1, <2>2 DEF Clean
  <2> QED
    BY <1>0, <2>3 DEF StreamInv
<1>4. CASE Dirty /\ ~Clean
  <2>1. Dirty'
    <3>1. s > 0 => stdin'[1] = stdin[1]
      BY <1>0, <1>2
    <3> QED
      BY <1>0, <1>2, <1>4, <3>1 DEF Dirty, Stray
  <2> QED
    BY <1>0, <1>4, <2>1 DEF StreamInv
<1> QED
  BY <1>0, <1>3, <1>4 DEF StreamInv

\* Every step keeps the stream.
LEMMA StreamNext == TypeOK /\ Prepared /\ StreamInv /\ [Next]_vars => StreamInv'
<1> SUFFICES ASSUME TypeOK, Prepared, StreamInv, [Next]_vars PROVE StreamInv'
  OBVIOUS
<1>0. ASSUME UNCHANGED <<spec, hs, stdin>>, client'.sent = client.sent,
             command'.read = command.read
      PROVE  StreamInv'
  BY <1>0 DEF StreamInv, Clean, Dirty
<1>1. CASE UNCHANGED vars
  BY <1>0, <1>1 DEF vars
<1>2. CASE Unpack
  BY <1>0, <1>2 DEF Unpack, world
<1>3. CASE ReceiveHandshake
  BY <1>3, HandshakeStep
<1>4. CASE Main
  <2>1. CASE CommandReads
    BY <2>1, CommandReadsStep
  <2>2. CASE FinishPreparing \/ FinishExecute \/ ReadLockFile \/ GetRun \/ CreateLockMap
    BY <1>0, <2>2 DEF FinishPreparing, FinishExecute, ReadLockFile, GetRun,
                      CreateLockMap, rest
  <2>3. CASE Execute \/ CommandEnds
    <3>1. command'.read = command.read
      BY <2>3 DEF Execute, CommandEnds, TypeOK
    <3> QED
      BY <1>0, <2>3, <3>1 DEF Execute, CommandEnds, rest
  <2> QED
    BY <1>4, <2>1, <2>2, <2>3 DEF Main
<1>5. CASE Cluster
  BY <1>0, <1>5 DEF Cluster, Kill, ReportExit, DeleteRun, CollectLockMap, rest
<1>6. CASE Client
  <2>1. CASE Send
    BY <2>1, SendStep
  <2>2. CASE SendStray
    <3>1. /\ hs.buf = <<>> /\ UNCHANGED <<spec, hs, command, client>> /\ Len(stdin') = Length
          /\ stdin'[1] = Stray
      BY <2>2, RunnerAssumption DEF SendStray, container
    <3>2. Dirty'
      BY <3>1, EmptySeq, RunnerAssumption DEF Dirty, Stray
    <3>3. hs.state # "ok"
      BY <3>1, EmptySeq, RunnerAssumption DEF StreamInv
    <3> QED
      BY <3>1, <3>2, <3>3 DEF StreamInv
  <2>3. CASE Connect \/ Disconnect \/ AwaitExit \/ FetchLockFile
    <3>1. client'.sent = client.sent
      BY <2>3 DEF Connect, Disconnect, AwaitExit, FetchLockFile, ToClient, TypeOK
    <3> QED
      BY <1>0, <2>3, <3>1 DEF Connect, Disconnect, AwaitExit, FetchLockFile, container
  <2> QED
    BY <1>6, <2>1, <2>2, <2>3 DEF Client
<1> QED
  BY <1>1, <1>2, <1>3, <1>4, <1>5, <1>6 DEF Next

\* The runner takes the handshake out of the stream and nothing else.
THEOREM NothingLost == Spec => []NothingTypedIsLost
<1>1. TypeOK /\ StreamInv => NothingTypedIsLost
  <2>1. SUFFICES ASSUME TypeOK, StreamInv, hs.state = "ok"
                 PROVE  command.read \o stdin = SubSeq(Typed, Length + 1, client.sent)
    BY DEF NothingTypedIsLost, Typed
  <2> DEFINE got == command.read \o stdin
             due == SubSeq(Typed, Length + 1, client.sent)
             r == Len(command.read)  s == Len(stdin)
  <2>2. /\ command.read \in Seq(Bytes) /\ stdin \in Seq(Bytes) /\ Clean
        /\ r \in Nat /\ s \in Nat /\ Len(hs.buf) = Length /\ Length \in Nat
        /\ client.sent \in 0..(Length + Keys)
    BY <2>1, LenProperties, RunnerAssumption DEF TypeOK, StreamInv, Bytes
  <2>3. Length + r + s = client.sent
    BY <2>2 DEF Clean
  <2>4. /\ got \in Seq(Bytes) /\ Len(got) = r + s
        /\ \A i \in 1..(r + s) : got[i] = IF i <= r THEN command.read[i] ELSE stdin[i - r]
    BY <2>2, ConcatProperties
  <2>5. /\ due \in Seq(Bytes)
        /\ Len(due) = IF Length + 1 <= client.sent THEN client.sent - (Length + 1) + 1 ELSE 0
        /\ \A i \in 1..(client.sent - (Length + 1) + 1) : due[i] = Typed[(Length + 1) + i - 1]
    <3>1. \A i \in (Length + 1)..client.sent : Typed[i] \in Bytes
      <4>1. \A i \in (Length + 1)..client.sent : i \in 1..(Length + Keys)
        BY <2>2, RunnerAssumption
      <4> QED
        BY <4>1, SentBytes DEF Typed
    <3>2. Length + 1 \in Int /\ client.sent \in Int
      BY <2>2
    <3> QED
      BY <3>1, <3>2, SubSeqProperties
  <2>6. Len(due) = Len(got)
    <3>1. Len(got) = r + s /\ r \in Nat /\ s \in Nat /\ Length \in Nat
      BY <2>2, <2>4
    <3> HIDE DEF r, s, got, due
    <3> QED
      BY <2>3, <2>5, <3>1
  <2>7. ASSUME NEW i \in 1..Len(got) PROVE got[i] = due[i]
    <3>1. r \in Nat /\ s \in Nat /\ Length \in Nat /\ i \in 1..(r + s) /\ i \in Nat
      BY <2>2, <2>4
    <3>2. /\ \A j \in 1..r : command.read[j] = Typed[Length + j]
          /\ \A j \in 1..s : stdin[j] = Typed[Length + r + j]
      BY <2>2 DEF Clean
    <3> HIDE DEF r, s, got, due
    <3>3. due[i] = Typed[Length + i]
      <4>1. i \in 1..(client.sent - (Length + 1) + 1) /\ (Length + 1) + i - 1 = Length + i
        BY <2>3, <3>1
      <4> QED
        BY <2>5, <4>1
    <3>4. CASE i <= r
      <4>1. i \in 1..r
        BY <3>1, <3>4
      <4> QED
        BY <2>4, <3>1, <3>2, <3>3, <3>4, <4>1
    <3>5. CASE ~(i <= r)
      <4>1. i - r \in 1..s /\ Length + r + (i - r) = Length + i
        BY <3>1, <3>5
      <4> QED
        BY <2>4, <3>1, <3>2, <3>3, <3>5, <4>1
    <3> QED
      BY <3>4, <3>5
  <2> HIDE DEF got, due
  <2>8. got = due
    BY <2>4, <2>5, <2>6, <2>7, SeqEqual
  <2> QED
    BY <2>8 DEF got, due
<1> QED
  BY <1>1, TypeInit, TypeNext, LockInit, LockNext, PreparedNext, StreamInit, StreamNext,
     PTL DEF Spec

\* The command starts once all is unpacked and the client has attached.
THEOREM StartsPrepared == Spec => []CommandStartsPrepared
<1>1. TypeOK /\ Prepared /\ StreamInv => CommandStartsPrepared
  <2>1. SUFFICES ASSUME TypeOK, Prepared, StreamInv, command.state # "none"
                 PROVE  unpacked = "ok" /\ ~raw /\ (spec.handshake => client.sent >= Length)
    BY DEF CommandStartsPrepared
  <2>2. unpacked = "ok" /\ hs.state \in {"off", "ok"} /\ ~raw
    BY <2>1 DEF Prepared, PastGroup
  <2>3. ASSUME spec.handshake PROVE client.sent >= Length
    <3>1. Clean /\ Len(hs.buf) = Length
      BY <2>1, <2>2, <2>3 DEF StreamInv
    <3>2. Len(hs.buf) + Len(command.read) + Len(stdin) = client.sent
      BY <3>1 DEF Clean
    <3>3. Len(hs.buf) \in Nat /\ Len(command.read) \in Nat /\ Len(stdin) \in Nat
      BY <2>1, LenProperties DEF TypeOK
    <3> QED
      BY <3>1, <3>2, <3>3
  <2> QED
    BY <2>2, <2>3
<1> QED
  BY <1>1, TypeInit, TypeNext, LockInit, LockNext, PreparedNext, StreamInit, StreamNext,
     PTL DEF Spec

=============================================================================
