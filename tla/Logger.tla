------------------------------- MODULE Logger -------------------------------
(***************************************************************************)
(* The client library: silogLog of silog_logger/src/silog_logger.c, its    *)
(* one-time initialisation, its queue and the thread that sends the queue  *)
(* to the daemon, with the client half of silog_comm/src/silog_ipc.c.      *)
(* Log entries are numbered in the order in which silogLog queues them.    *)
(***************************************************************************)
EXTENDS Ipc, FiniteSets

CONSTANTS MaxLogs,       \* bound: calls of silogLog
          LogCapacity,   \* LOG_ENTRY_QUEUE_CAPACITY
          LoggerFaults   \* calls that may fail: "alloc", "socket", "thread"

VARIABLES once,      \* pthread_once: "new", then "ok" or "failed" for good
          logQueue,
          sendFd,    \* the server socket it is connected to
          spc,       \* next step of the sender thread
          sending,   \* << >> or the entry it has popped
          \* History:
          logged,    \* calls of silogLog after initialisation
          unsent     \* entries the logger gave up

loggerVars == <<once, logQueue, sendFd, spc, sending, logged, unsent>>

LoggerInit ==
    /\ once = "new"
    /\ logQueue = << >>
    /\ sendFd = NoSocket
    /\ spc = "none" /\ sending = << >>
    /\ logged = 0 /\ unsent = {}

\* silogEntryMngInit: queue, connection and thread, in this order.
OnceFails ==
    /\ once = "new"
    /\ \/ LoggerFaults \cap {"alloc", "socket"} # {} /\ UNCHANGED sendFd
       \/ ~Reachable /\ UNCHANGED sendFd
       \/ Reachable /\ "thread" \in LoggerFaults /\ sendFd' = path
    /\ once' = "failed"
    /\ UNCHANGED <<logQueue, spc, sending, logged, unsent, ipcVars>>

OnceSucceeds ==
    /\ once = "new" /\ Reachable
    /\ sendFd' = path
    /\ once' = "ok"
    /\ spc' = "pop"
    /\ UNCHANGED <<logQueue, sending, logged, unsent, ipcVars>>

\* silogLog of an entry that passes the level filter.  The full queue refuses
\* it, and a logger that failed to initialise ignores it.
Log ==
    /\ once # "new" /\ logged < MaxLogs
    /\ logged' = logged + 1
    /\ IF once = "ok" /\ Len(logQueue) < LogCapacity
       THEN logQueue' = Append(logQueue, logged + 1) /\ UNCHANGED unsent
       ELSE unsent' = unsent \cup {logged + 1} /\ UNCHANGED logQueue
    /\ UNCHANGED <<once, sendFd, spc, sending, ipcVars>>

-----------------------------------------------------------------------------
(* silogEntrySendHandle and SilogIpcDgramClientSend.                       *)

SenderPops ==
    /\ spc = "pop" /\ logQueue # << >>
    /\ sending' = <<Head(logQueue)>>
    /\ logQueue' = Tail(logQueue)
    /\ spc' = "send"
    /\ UNCHANGED <<once, sendFd, logged, unsent, ipcVars>>

\* Fault: an entry that could not be sent goes back to the queue.
GiveUpRequeues ==
    /\ logQueue' = Append(logQueue, sending[1])
    /\ sending' = << >>
    /\ spc' = "pop"
    /\ UNCHANGED <<once, logged, unsent, ipcVars>>

GiveUp ==
    /\ unsent' = unsent \cup {sending[1]}
    /\ sending' = << >>
    /\ spc' = "pop"
    /\ UNCHANGED <<once, logQueue, logged, ipcVars>>

Sent ==
    /\ Deliver(sendFd, sending[1])
    /\ sending' = << >>
    /\ spc' = "pop"
    /\ UNCHANGED <<once, logQueue, sendFd, logged, unsent>>

SendNotConnected == spc = "send" /\ sendFd = NoSocket /\ GiveUp /\ UNCHANGED sendFd
SendWouldBlock == spc = "send" /\ sendFd # NoSocket /\ WouldBlock(sendFd) /\ GiveUp /\ UNCHANGED sendFd
SendDelivers == spc = "send" /\ sendFd # NoSocket /\ Sent

\* ECONNREFUSED: the socket is closed before a new one is tried.
SendRefused ==
    /\ spc = "send" /\ sendFd # NoSocket /\ Refused(sendFd)
    /\ sendFd' = NoSocket
    /\ spc' = "reconnect"
    /\ UNCHANGED <<once, logQueue, sending, logged, unsent, ipcVars>>

ReconnectFails ==
    /\ spc = "reconnect"
    /\ ~Reachable \/ "socket" \in LoggerFaults
    /\ GiveUp /\ UNCHANGED sendFd

\* Fault: the new connection is made but the entry is not sent again.
ReconnectsOnly ==
    /\ spc = "reconnect" /\ Reachable
    /\ sendFd' = path
    /\ sending' = << >>
    /\ spc' = "pop"
    /\ UNCHANGED <<once, logQueue, logged, unsent, ipcVars>>

Reconnects ==
    /\ spc = "reconnect" /\ Reachable
    /\ sendFd' = path
    /\ spc' = "retry"
    /\ UNCHANGED <<once, logQueue, sending, logged, unsent, ipcVars>>

RetryDelivers == spc = "retry" /\ Sent
RetryFails ==
    /\ spc = "retry"
    /\ Refused(sendFd) \/ WouldBlock(sendFd)
    /\ GiveUp /\ UNCHANGED sendFd

SenderStep ==
    \/ SenderPops
    \/ SendNotConnected \/ SendWouldBlock \/ SendDelivers \/ SendRefused
    \/ ReconnectFails \/ Reconnects \/ RetryDelivers \/ RetryFails

LoggerNext == OnceFails \/ OnceSucceeds \/ Log \/ SenderStep
=============================================================================
