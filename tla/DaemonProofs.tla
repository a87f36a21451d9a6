---------------------------- MODULE DaemonProofs ----------------------------
(***************************************************************************)
(* Proofs about the life cycle of the daemon, for any number of starts,    *)
(* crashes and log entries, any capacities and any of the faults.          *)
(***************************************************************************)
EXTENDS LogSystem, TLAPS

\* Where the controlling thread is while each resource or thread can exist.
WithFileManager ==
    {"queue", "recvThread", "writeThread", "remote", "flag", "up", "failed",
     "joinRecv", "joinWrite", "stopRemote", "joinRemote", "release"}
WithQueue == WithFileManager \ {"queue"}
WithRecv == {"writeThread", "remote", "flag", "up", "failed", "joinRecv"}
WithWrite == {"remote", "flag", "up", "joinRecv", "joinWrite"}
WithRemote == {"flag", "up", "joinRecv", "joinWrite", "stopRemote", "joinRemote"}

(***************************************************************************)
(* The inductive invariant.  ResourcesAlive alone says nothing about which *)
(* threads exist when the controlling thread releases something; this ties *)
(* every thread and every resource to its place in Init and Deinit, and    *)
(* the socket to the receive thread.                                       *)
(***************************************************************************)
LifeInv ==
    /\ starts \in Nat /\ crashes \in Nat
    /\ mpc \in WithFileManager \cup {"down"}
    /\ mpc # "down" => starts # 0
    /\ rpc \in {"none", "bind", "check", "recv", "exited"}
    /\ wpc \in {"none", "check", "pop", "write", "broadcast", "exited"}
    /\ tpc \in {"none", "loop", "exited"}
    /\ mpc \in WithFileManager => fileManager = TRUE
    /\ mpc \notin WithFileManager => fileManager = FALSE
    /\ mpc \in WithQueue => queueAlive = TRUE
    /\ mpc \notin WithQueue => queueAlive = FALSE
    /\ rpc # "none" => mpc \in WithRecv
    /\ wpc # "none" => mpc \in WithWrite
    /\ tpc # "none" => mpc \in WithRemote
    /\ tpc # "none" => remote = TRUE /\ remoteEnabled = TRUE
    /\ tpc = "none" => remote = FALSE /\ remoteEnabled = FALSE
    /\ server # NoSocket <=> rpc \in {"check", "recv"}
    /\ server = NoSocket /\ crashes = 0 => path = NoSocket

LEMMA LifeStart == Init => LifeInv
  BY DEF Init, IpcInit, DaemonInit, LifeInv, WithFileManager, WithQueue, NoSocket

lifeVars == <<starts, crashes, mpc, rpc, wpc, tpc, fileManager, queueAlive, remote, remoteEnabled,
              server, path>>

\* Nothing in the logger, and no data on its way, matters for the life cycle.
LEMMA LifeUnchanged == LifeInv /\ UNCHANGED lifeVars => LifeInv'
  BY DEF LifeInv, lifeVars

LEMMA LoggerKeepsLife ==
    ASSUME LoggerNext, UNCHANGED daemonVars
    PROVE  UNCHANGED lifeVars
  BY DEF LoggerNext, OnceFails, OnceSucceeds, Log, SenderStep, SenderPops, SendNotConnected,
         SendWouldBlock, SendDelivers, SendRefused, ReconnectFails, Reconnects, RetryDelivers,
         RetryFails, GiveUp, Sent, Deliver, ipcVars, daemonVars, threadVars, resourceVars, lifeVars

\* SilogDaemonInit
LEMMA StartKeepsLife ==
    ASSUME LifeInv, StartStep
    PROVE  LifeInv'
<1> USE DEF LifeInv, WithFileManager, WithQueue, WithRecv, WithWrite, WithRemote,
            threadVars, resourceVars, dataVars, ipcVars
<1>1. CASE StartFileManager
  BY <1>1 DEF StartFileManager
<1>2. CASE StartQueue
  BY <1>2 DEF StartQueue
<1>3. CASE StartRecvThread
  BY <1>3 DEF StartRecvThread
<1>4. CASE StartWriteThread
  BY <1>4 DEF StartWriteThread
<1>5. CASE StartRemote
  BY <1>5 DEF StartRemote
<1>6. CASE StartDone
  BY <1>6 DEF StartDone
<1> QED
  BY <1>1, <1>2, <1>3, <1>4, <1>5, <1>6 DEF StartStep

\* SilogDaemonDeinit, and the death of the process
LEMMA StopKeepsLife ==
    ASSUME LifeInv, StopFlag \/ StopStep \/ Die
    PROVE  LifeInv'
<1> USE DEF LifeInv, WithFileManager, WithQueue, WithRecv, WithWrite, WithRemote,
            threadVars, resourceVars, dataVars, ipcVars
<1>1. CASE StopFlag
  BY <1>1 DEF StopFlag
<1>2. CASE JoinRecv
  BY <1>2 DEF JoinRecv
<1>3. CASE JoinWrite
  BY <1>3 DEF JoinWrite
<1>4. CASE StopRemote
  BY <1>4 DEF StopRemote
<1>5. CASE JoinRemote
  BY <1>5 DEF JoinRemote
<1>6. CASE Release
  BY <1>6 DEF Release
<1>7. CASE Die
  BY <1>7 DEF Die, ServerDies, NoSocket
<1> QED
  BY <1>1, <1>2, <1>3, <1>4, <1>5, <1>6, <1>7 DEF StopStep

\* The threads
LEMMA ThreadsKeepLife ==
    ASSUME LifeInv, RecvStep \/ WriteStep \/ RemoteExits
    PROVE  LifeInv'
<1> USE DEF LifeInv, WithFileManager, WithQueue, WithRecv, WithWrite, WithRemote,
            threadVars, resourceVars, dataVars, ipcVars
<1>1. CASE RecvBinds
  BY <1>1 DEF RecvBinds, ServerInit, ServerClose, NoSocket
<1>2. CASE RecvExits
  BY <1>2 DEF RecvExits, ServerClose, NoSocket
<1>3. CASE RecvLoops \/ RecvNothing
  BY <1>3 DEF RecvLoops, RecvNothing
<1>4. CASE RecvPushes
  BY <1>4 DEF RecvPushes, ServerRecv
<1>5. CASE WriteChecks
  BY <1>5 DEF WriteChecks
<1>6. CASE WritePops
  BY <1>6 DEF WritePops
<1>7. CASE WriteWrites \/ WriteBroadcasts
  BY <1>7 DEF WriteWrites, WriteBroadcasts
<1>8. CASE RemoteExits
  BY <1>8 DEF RemoteExits
<1> QED
  BY <1>1, <1>2, <1>3, <1>4, <1>5, <1>6, <1>7, <1>8 DEF RecvStep, WriteStep

LEMMA LifeStep == LifeInv /\ [Next]_vars => LifeInv'
<1> SUFFICES ASSUME LifeInv, [Next]_vars PROVE LifeInv'
  OBVIOUS
<1>1. CASE LoggerNext /\ UNCHANGED daemonVars
  BY <1>1, LoggerKeepsLife, LifeUnchanged
<1>2. CASE DaemonNext
  BY <1>2, StartKeepsLife, StopKeepsLife, ThreadsKeepLife DEF DaemonNext
<1>3. CASE UNCHANGED vars
  BY <1>3, LifeUnchanged DEF vars, daemonVars, threadVars, resourceVars, ipcVars, lifeVars
<1> QED
  BY <1>1, <1>2, <1>3 DEF Next

LEMMA LifeCorrect == Spec => []LifeInv
  BY LifeStart, LifeStep, PTL DEF Spec

(***************************************************************************)
(* However starts, stops, crashes and failures interleave with the         *)
(* threads, no thread uses the queue, the file manager or the remote       *)
(* service before SilogDaemonInit has created it or after SilogDaemonDeinit*)
(* has destroyed it.                                                       *)
(***************************************************************************)
THEOREM ThreadsUseLiveResources == Spec => []ResourcesAlive
<1>1. LifeInv => ResourcesAlive
  BY DEF LifeInv, ResourcesAlive, WithFileManager, WithQueue, WithRecv, WithWrite
<1> QED
  BY <1>1, LifeCorrect, PTL

(***************************************************************************)
(* After SilogDaemonDeinit no thread, queue, file manager, remote service  *)
(* or socket is left, and no socket file either unless a process died.     *)
(***************************************************************************)
THEOREM DeinitReleasesEverything == Spec => []StoppedIsClean
<1>1. LifeInv => StoppedIsClean
  BY DEF LifeInv, StoppedIsClean, WithFileManager, WithQueue, WithRecv, WithWrite, WithRemote
<1> QED
  BY <1>1, LifeCorrect, PTL
=============================================================================
