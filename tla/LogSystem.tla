------------------------------ MODULE LogSystem ------------------------------
(***************************************************************************)
(* An application that logs and the daemon that stores: modules Logger and *)
(* Daemon over the socket of module Ipc.                                   *)
(***************************************************************************)
EXTENDS Logger, Daemon

vars == <<ipcVars, loggerVars, daemonVars>>

Init == IpcInit /\ LoggerInit /\ DaemonInit

Next ==
    \/ LoggerNext /\ UNCHANGED daemonVars
    \/ DaemonNext /\ UNCHANGED loggerVars

Spec == Init /\ [][Next]_vars

(***************************************************************************)
(* Every thread runs: the sleeps in their loops are bounded.  Nobody has   *)
(* to log, start, stop or kill the daemon.                                 *)
(***************************************************************************)
Fairness ==
    /\ WF_vars(SenderStep /\ UNCHANGED daemonVars)
    /\ WF_vars(RecvStep /\ UNCHANGED loggerVars)
    /\ WF_vars(WriteStep /\ UNCHANGED loggerVars)
    /\ WF_vars(RemoteExits /\ UNCHANGED loggerVars)
    /\ WF_vars(StopStep /\ UNCHANGED loggerVars)

LiveSpec == Spec /\ Fairness

-----------------------------------------------------------------------------
(* Properties.                                                             *)

Increasing(s) == \A i, j \in DOMAIN s : i < j => s[i] < s[j]

\* The entries on their way, the one nearest to the log file first.  An entry
\* that has been written is not counted again while it is broadcast.
InFlight ==
    (IF wpc = "write" THEN writing ELSE << >>) \o daemonQueue \o inbox \o sending \o logQueue

\* The log file has the entries in the order in which the application logged
\* them, none of them twice, and whatever is in a queue, in the socket or in
\* a thread's hands comes after all of it: queues, the retry after a
\* reconnection, restarts and crashes of the daemon never reorder or
\* duplicate an entry.  Remote clients are given them in that order too.
PipelineOrder == Increasing(written \o InFlight) /\ Increasing(broadcast)

\* No entry vanishes silently: one that silogLog has taken is in the log
\* file, on its way, or was given up at a place that knows it did so (a full
\* queue or socket, an unreachable daemon, a daemon that stopped).
PipelineConserves ==
    1 .. logged = SetOf(written) \cup SetOf(InFlight) \cup unsent \cup discarded

\* A thread of the daemon touches the queue, the file manager and the remote
\* service only while they exist: SilogDaemonDeinit joins the threads before
\* it releases what they use, and SilogDaemonInit creates it before them.
ResourcesAlive ==
    /\ rpc = "recv" => queueAlive /\ server # NoSocket
    /\ wpc = "pop" => queueAlive
    /\ wpc = "write" => fileManager
    /\ wpc = "broadcast" /\ remoteEnabled => remote
    /\ tpc = "loop" => remote

\* When SilogDaemonDeinit has returned, or SilogDaemonInit has failed and the
\* process is gone, nothing is left over for the next start to trip over but
\* the socket file of a daemon that died.
StoppedIsClean ==
    mpc = "down" =>
        /\ rpc = "none" /\ wpc = "none" /\ tpc = "none"
        /\ ~fileManager /\ ~queueAlive /\ ~remote /\ ~remoteEnabled
        /\ server = NoSocket
        /\ crashes = 0 => path = NoSocket

\* SilogDaemonDeinit returns: no thread it joins waits for anything.
DeinitReturns == mpc = "joinRecv" ~> mpc = "down"

\* An entry the daemon has queued is written or discarded, unless the write
\* thread has gone: the receive thread can not starve it.
QueueDrains ==
    \A e \in 1 .. MaxLogs :
        (e \in SetOf(daemonQueue)) ~> (e \notin SetOf(daemonQueue) \/ wpc = "exited")

\* silog_ipc.c: "if sending failed (the server may have restarted), try to
\* connect again".  An entry is not given up for want of a connection while a
\* daemon is listening.
RestartIsNoticed == spc = "send" /\ sendFd = NoSocket => ~Reachable
=============================================================================
