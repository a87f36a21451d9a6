------------------------------- MODULE Daemon -------------------------------
(***************************************************************************)
(* The daemon of silog_dae/src/silog_daemon.c: the thread that calls       *)
(* SilogDaemonInit and SilogDaemonDeinit, and the receive, write and       *)
(* remote threads they create and join.  The file manager, the queue and   *)
(* the remote service are here alive or not alive; modules FileManager,    *)
(* Mpsc and Remote model them.                                             *)
(***************************************************************************)
EXTENDS Ipc, FiniteSets

CONSTANTS DaemonCapacity,   \* DAEMON_LOG_QUEUE_CAPACITY
          MaxCrashes,       \* bound: deaths of the daemon, failed starts not limited
          DaemonFaults      \* calls that may fail: "file", "queue", "thread", "bind", "remote", "disk"

VARIABLES starts,           \* calls of SilogDaemonInit
          crashes,          \* deaths of its process
          mpc,              \* next step of the controlling thread
          running,          \* g_daemonRunning
          rpc, wpc, tpc,    \* receive, write and remote threads; "exited" until joined
          fileManager,      \* the file manager is initialised
          queueAlive,       \* the queue has its buffer
          daemonQueue,
          writing,          \* << >> or the entry the write thread has popped
          remote,           \* SilogRemoteInit has succeeded
          remoteEnabled,    \* g_remoteEnabled
          remoteRunning,    \* g_remoteRunning
          \* History:
          written,          \* the log file
          broadcast,        \* entries given to SilogRemoteBroadcast
          discarded         \* entries the daemon or its socket had and lost

threadVars == <<rpc, wpc, tpc>>
resourceVars == <<fileManager, queueAlive, remote, remoteEnabled, remoteRunning>>
dataVars == <<daemonQueue, writing, written, broadcast, discarded>>
daemonVars == <<starts, crashes, mpc, running, threadVars, resourceVars, dataVars>>

SetOf(s) == {s[i] : i \in DOMAIN s}

DaemonInit ==
    /\ starts = 0 /\ crashes = 0
    /\ mpc = "down" /\ running = FALSE
    /\ rpc = "none" /\ wpc = "none" /\ tpc = "none"
    /\ fileManager = FALSE /\ queueAlive = FALSE
    /\ remote = FALSE /\ remoteEnabled = FALSE /\ remoteRunning = FALSE
    /\ daemonQueue = << >> /\ writing = << >>
    /\ written = << >> /\ broadcast = << >> /\ discarded = {}

-----------------------------------------------------------------------------
(* SilogDaemonInit.                                                        *)

StartFileManager ==
    /\ mpc = "down" /\ starts < MaxStarts
    /\ starts' = starts + 1
    /\ \/ mpc' = "queue" /\ fileManager' = TRUE
       \/ "file" \in DaemonFaults /\ UNCHANGED <<mpc, fileManager>>
    /\ UNCHANGED <<crashes, running, threadVars, queueAlive, remote, remoteEnabled, remoteRunning,
                   dataVars, ipcVars>>

StartQueue ==
    /\ mpc = "queue"
    /\ \/ /\ mpc' = "recvThread"
          /\ queueAlive' = TRUE /\ daemonQueue' = << >>
          /\ UNCHANGED fileManager
       \/ /\ "queue" \in DaemonFaults
          /\ mpc' = "down"
          /\ fileManager' = FALSE
          /\ UNCHANGED <<queueAlive, daemonQueue>>
    /\ UNCHANGED <<starts, crashes, running, threadVars, remote, remoteEnabled, remoteRunning,
                   writing, written, broadcast, discarded, ipcVars>>

\* Failing to create a thread returns without undoing the steps before.
StartRecvThread ==
    /\ mpc = "recvThread"
    /\ \/ mpc' = "writeThread" /\ rpc' = "bind"
       \/ "thread" \in DaemonFaults /\ mpc' = "failed" /\ UNCHANGED rpc
    /\ UNCHANGED <<starts, crashes, running, wpc, tpc, resourceVars, dataVars, ipcVars>>

StartWriteThread ==
    /\ mpc = "writeThread"
    /\ \/ mpc' = "remote" /\ wpc' = "check"
       \/ "thread" \in DaemonFaults /\ mpc' = "failed" /\ UNCHANGED wpc
    /\ UNCHANGED <<starts, crashes, running, rpc, tpc, resourceVars, dataVars, ipcVars>>

\* SilogDaemonRemoteInit: the daemon goes on without a remote service.
StartRemote ==
    /\ mpc = "remote"
    /\ mpc' = "flag"
    /\ \/ /\ remote' = TRUE /\ remoteRunning' = TRUE /\ remoteEnabled' = TRUE
          /\ tpc' = "loop"
       \/ "remote" \in DaemonFaults /\ UNCHANGED <<remote, remoteRunning, remoteEnabled, tpc>>
       \/ /\ "thread" \in DaemonFaults
          /\ remoteRunning' = TRUE
          /\ UNCHANGED <<remote, remoteEnabled, tpc>>
    /\ UNCHANGED <<starts, crashes, running, rpc, wpc, fileManager, queueAlive, dataVars, ipcVars>>

StartDone ==
    /\ mpc = "flag"
    /\ mpc' = "up"
    /\ running' = TRUE
    /\ UNCHANGED <<starts, crashes, threadVars, resourceVars, dataVars, ipcVars>>

-----------------------------------------------------------------------------
(* SilogDaemonDeinit, also called after a failed start.                    *)

StopFlag ==
    /\ mpc \in {"up", "failed"}
    /\ mpc' = "joinRecv"
    /\ running' = FALSE
    /\ UNCHANGED <<starts, crashes, threadVars, resourceVars, dataVars, ipcVars>>

JoinRecv ==
    /\ mpc = "joinRecv" /\ rpc \in {"none", "exited"}
    /\ mpc' = "joinWrite"
    /\ rpc' = "none"
    /\ UNCHANGED <<starts, crashes, running, wpc, tpc, resourceVars, dataVars, ipcVars>>

\* Fault: the write thread is not waited for.
JoinWriteNot ==
    /\ mpc = "joinWrite"
    /\ mpc' = "stopRemote"
    /\ UNCHANGED <<starts, crashes, running, threadVars, resourceVars, dataVars, ipcVars>>

JoinWrite ==
    /\ mpc = "joinWrite" /\ wpc \in {"none", "exited"}
    /\ mpc' = "stopRemote"
    /\ wpc' = "none"
    /\ UNCHANGED <<starts, crashes, running, rpc, tpc, resourceVars, dataVars, ipcVars>>

\* Fault: the remote thread is joined without being told to stop.
StopRemoteNot ==
    /\ mpc = "stopRemote"
    /\ mpc' = IF remoteEnabled THEN "joinRemote" ELSE "release"
    /\ UNCHANGED <<starts, crashes, running, threadVars, resourceVars, dataVars, ipcVars>>

\* SilogDaemonRemoteDeinit, up to the join.
StopRemote ==
    /\ mpc = "stopRemote"
    /\ IF remoteEnabled
       THEN mpc' = "joinRemote" /\ remoteRunning' = FALSE
       ELSE mpc' = "release" /\ UNCHANGED remoteRunning
    /\ UNCHANGED <<starts, crashes, running, threadVars, fileManager, queueAlive, remote, remoteEnabled,
                   dataVars, ipcVars>>

JoinRemote ==
    /\ mpc = "joinRemote" /\ tpc = "exited"
    /\ mpc' = "release"
    /\ tpc' = "none"
    /\ remote' = FALSE /\ remoteEnabled' = FALSE
    /\ UNCHANGED <<starts, crashes, running, rpc, wpc, fileManager, queueAlive, remoteRunning, dataVars, ipcVars>>

\* The file manager, then the queue with what is still in it.
Release ==
    /\ mpc = "release"
    /\ mpc' = "down"
    /\ fileManager' = FALSE
    /\ queueAlive' = FALSE
    /\ discarded' = discarded \cup SetOf(daemonQueue)
    /\ daemonQueue' = << >>
    /\ UNCHANGED <<starts, crashes, running, threadVars, remote, remoteEnabled, remoteRunning,
                   writing, written, broadcast, ipcVars>>

\* The process dies, or exits after a failed start: only the files stay.
Die ==
    /\ mpc # "down"
    /\ mpc = "failed" \/ crashes < MaxCrashes
    /\ crashes' = crashes + 1
    /\ mpc' = "down" /\ running' = FALSE
    /\ rpc' = "none" /\ wpc' = "none" /\ tpc' = "none"
    /\ fileManager' = FALSE /\ queueAlive' = FALSE
    /\ remote' = FALSE /\ remoteEnabled' = FALSE /\ remoteRunning' = FALSE
    /\ discarded' = discarded \cup SetOf(daemonQueue) \cup SetOf(writing) \cup SetOf(inbox)
    /\ daemonQueue' = << >> /\ writing' = << >>
    /\ ServerDies
    /\ UNCHANGED <<starts, written, broadcast>>

-----------------------------------------------------------------------------
(* SilogDaemonRecvThreadFunc.                                              *)

RecvBinds ==
    /\ rpc = "bind"
    /\ \/ ServerInit(starts) /\ rpc' = "check"
       \/ "bind" \in DaemonFaults /\ ServerClose /\ rpc' = "exited"
    /\ UNCHANGED <<starts, crashes, mpc, running, wpc, tpc, resourceVars, dataVars>>

RecvLoops ==
    /\ rpc = "check" /\ running
    /\ rpc' = "recv"
    /\ UNCHANGED <<starts, crashes, mpc, running, wpc, tpc, resourceVars, dataVars, ipcVars>>

\* Fault: the thread returns without SilogIpcServerClose.
RecvExitsOpen ==
    /\ rpc = "check" /\ ~running
    /\ rpc' = "exited"
    /\ UNCHANGED <<starts, crashes, mpc, running, wpc, tpc, resourceVars, dataVars, ipcVars>>

RecvExits ==
    /\ rpc = "check" /\ ~running
    /\ rpc' = "exited"
    /\ discarded' = discarded \cup SetOf(inbox)
    /\ ServerClose
    /\ UNCHANGED <<starts, crashes, mpc, running, wpc, tpc, resourceVars,
                   daemonQueue, writing, written, broadcast>>

\* Nothing to receive: sleep and look again.
RecvNothing ==
    /\ rpc = "recv" /\ inbox = << >>
    /\ rpc' = "check"
    /\ UNCHANGED <<starts, crashes, mpc, running, wpc, tpc, resourceVars, dataVars, ipcVars>>

RecvPushes ==
    /\ rpc = "recv" /\ inbox # << >>
    /\ rpc' = "check"
    /\ ServerRecv
    /\ IF Len(daemonQueue) < DaemonCapacity
       THEN daemonQueue' = Append(daemonQueue, Head(inbox)) /\ UNCHANGED discarded
       ELSE discarded' = discarded \cup {Head(inbox)} /\ UNCHANGED daemonQueue
    /\ UNCHANGED <<starts, crashes, mpc, running, wpc, tpc, resourceVars, writing, written, broadcast>>

RecvStep == RecvBinds \/ RecvLoops \/ RecvExits \/ RecvNothing \/ RecvPushes

-----------------------------------------------------------------------------
(* SilogDaemonWriteThreadFunc.                                             *)

WriteChecks ==
    /\ wpc = "check"
    /\ wpc' = IF running THEN "pop" ELSE "exited"
    /\ UNCHANGED <<starts, crashes, mpc, running, rpc, tpc, resourceVars, dataVars, ipcVars>>

\* Fault: the test for an empty queue is off by one.
WritePopsLate ==
    /\ wpc = "pop"
    /\ IF Len(daemonQueue) <= 1
       THEN wpc' = "check" /\ UNCHANGED <<daemonQueue, writing>>
       ELSE /\ wpc' = "write"
            /\ writing' = <<Head(daemonQueue)>>
            /\ daemonQueue' = Tail(daemonQueue)
    /\ UNCHANGED <<starts, crashes, mpc, running, rpc, tpc, resourceVars,
                   written, broadcast, discarded, ipcVars>>

WritePops ==
    /\ wpc = "pop"
    /\ IF daemonQueue = << >>
       THEN wpc' = "check" /\ UNCHANGED <<daemonQueue, writing>>
       ELSE /\ wpc' = "write"
            /\ writing' = <<Head(daemonQueue)>>
            /\ daemonQueue' = Tail(daemonQueue)
    /\ UNCHANGED <<starts, crashes, mpc, running, rpc, tpc, resourceVars,
                   written, broadcast, discarded, ipcVars>>

\* SilogFileManagerWriteRaw; its result is ignored.
WriteWrites ==
    /\ wpc = "write"
    /\ wpc' = "broadcast"
    /\ \/ written' = Append(written, writing[1]) /\ UNCHANGED discarded
       \/ "disk" \in DaemonFaults /\ discarded' = discarded \cup {writing[1]} /\ UNCHANGED written
    /\ UNCHANGED <<starts, crashes, mpc, running, rpc, tpc, resourceVars,
                   daemonQueue, writing, broadcast, ipcVars>>

WriteBroadcasts ==
    /\ wpc = "broadcast"
    /\ wpc' = "check"
    /\ writing' = << >>
    /\ broadcast' = IF remoteEnabled THEN Append(broadcast, writing[1]) ELSE broadcast
    /\ UNCHANGED <<starts, crashes, mpc, running, rpc, tpc, resourceVars,
                   daemonQueue, written, discarded, ipcVars>>

WriteStep == WriteChecks \/ WritePops \/ WriteWrites \/ WriteBroadcasts

\* SilogDaemonRemoteThreadFunc leaves its accept loop.
RemoteExits ==
    /\ tpc = "loop" /\ ~remoteRunning
    /\ tpc' = "exited"
    /\ UNCHANGED <<starts, crashes, mpc, running, rpc, wpc, resourceVars, dataVars, ipcVars>>

StartStep ==
    StartFileManager \/ StartQueue \/ StartRecvThread \/ StartWriteThread \/ StartRemote \/ StartDone
StopStep == JoinRecv \/ JoinWrite \/ StopRemote \/ JoinRemote \/ Release
DaemonNext == StartStep \/ StopFlag \/ StopStep \/ Die \/ RecvStep \/ WriteStep \/ RemoteExits
=============================================================================
