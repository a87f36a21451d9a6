--------------------------------- MODULE Exe ---------------------------------
(***************************************************************************)
(* The silog executable, silog_exe/src/silog_exe.c: the commands start,    *)
(* start -d, stop, status and test, given in any number of shells at the   *)
(* same time, and the daemon processes they start and end.  They share two *)
(* files: the daemon's socket, which tells whether a daemon is running,    *)
(* and the PID file, which tells stop what to kill.                        *)
(*                                                                         *)
(* A daemon process is modelled as far as the commands can see it: when it *)
(* opens its socket, when it loses it, and that SIGTERM ends it without    *)
(* any cleaning up.  PIDs are used again.  One user gives all commands, so *)
(* that kill fails only when there is no such process.                     *)
(***************************************************************************)
EXTENDS Naturals

CONSTANTS Shells,
          Pids,
          None,          \* no file, or no process
          Void,          \* a socket file without a socket, an empty PID file
          Polls,         \* how often start and stop look before they give up (30)
          MaxCommands    \* bound: commands given

ASSUME ExeAssumption ==
    /\ None \notin Pids /\ Void \notin Pids /\ None # Void
    /\ Polls \in Nat \ {0} /\ MaxCommands \in Nat

VARIABLES proc,       \* what runs under each PID
          path,       \* the process whose socket LOGD_SOCKET_PATH names
          pidFile,    \* the content of PID_FILE
          signalled,  \* processes with a SIGTERM or SIGKILL to take effect
          cmd,        \* each shell's command: step, PID it holds, counter
          commands,   \* number of commands given
          stray       \* history: a daemon may have escaped the PID file

vars == <<proc, path, pidFile, signalled, cmd, commands, stray>>
processVars == <<proc, path, signalled>>

Idle == [pc |-> "idle", pid |-> None, count |-> 0]

Init ==
    /\ proc = [p \in Pids |-> "free"]
    /\ path = None /\ pidFile = None
    /\ signalled = {}
    /\ cmd = [s \in Shells |-> Idle]
    /\ commands = 0 /\ stray = FALSE

DaemonStates == {"init", "unlinked", "bound", "serving", "deaf"}
IsDaemon(p) == proc[p] \in DaemonStates
SocketOpen(p) == proc[p] \in {"bound", "serving"}
NoDaemon == \A p \in Pids : ~IsDaemon(p)
Starting(s) == cmd[s].pc \in {"poll", "open", "write"}

\* SilogExeDaemonIsRunning: connect succeeds when the file names an open socket.
IsRunning == path \in Pids

\* PIDs are handed out in turn: one that a command has just looked at is not
\* given to another process before the command is over.
Fresh(p) == proc[p] = "free" /\ \A s \in Shells : cmd[s].pid # p /\ cmd[s].pc # "read"

-----------------------------------------------------------------------------
(* Processes.                                                              *)

\* SilogIpcDgramServerInit on the receive thread, as seen from outside:
\* unlink, then socket and bind.
DaemonUnlinks(p) ==
    /\ proc[p] = "init"
    /\ proc' = [proc EXCEPT ![p] = "unlinked"]
    /\ path' = None
    /\ UNCHANGED <<pidFile, signalled, cmd, commands, stray>>

DaemonBinds(p) ==
    /\ proc[p] = "unlinked" /\ path = None
    /\ proc' = [proc EXCEPT ![p] = "bound"]
    /\ path' = p
    /\ UNCHANGED <<pidFile, signalled, cmd, commands, stray>>

\* Another daemon was faster, or the socket can not be made: SilogDaemonInit
\* does not notice, and the process stays.
DaemonBindFails(p) ==
    /\ proc[p] = "unlinked"
    /\ proc' = [proc EXCEPT ![p] = "deaf"]
    /\ UNCHANGED <<path, pidFile, signalled, cmd, commands, stray>>

\* The receive thread finds g_daemonRunning set, and stays.
DaemonServes(p) ==
    /\ proc[p] = "bound"
    /\ proc' = [proc EXCEPT ![p] = "serving"]
    /\ UNCHANGED <<path, pidFile, signalled, cmd, commands, stray>>

\* It looks before SilogDaemonInit has set g_daemonRunning, closes the socket
\* and removes the file; the process stays.
DaemonGoesDeaf(p) ==
    /\ proc[p] = "bound"
    /\ proc' = [proc EXCEPT ![p] = "deaf"]
    /\ path' = None
    /\ stray' = TRUE
    /\ UNCHANGED <<pidFile, signalled, cmd, commands>>

\* A signal takes effect, SilogDaemonInit fails, or the process crashes.
\* There is no signal handler: the socket file stays.
Die(p) ==
    /\ proc[p] # "free"
    /\ proc' = [proc EXCEPT ![p] = "free"]
    /\ path' = IF path = p THEN Void ELSE path
    /\ signalled' = signalled \ {p}
    /\ cmd' = [s \in Shells |-> IF cmd[s].pc = "fg" /\ cmd[s].pid = p THEN Idle ELSE cmd[s]]
    /\ UNCHANGED <<pidFile, commands, stray>>

\* A program that has nothing to do with SiLog is given the PID.
OtherStarts(p) ==
    /\ Fresh(p)
    /\ proc' = [proc EXCEPT ![p] = "other"]
    /\ UNCHANGED <<path, pidFile, signalled, cmd, commands, stray>>

-----------------------------------------------------------------------------
(* Commands.                                                               *)

\* A command given while another one has not returned may upset its bookkeeping.
Begin(s) ==
    /\ cmd[s] = Idle /\ commands < MaxCommands
    /\ commands' = commands + 1
    /\ stray' = (stray \/ \E t \in Shells : cmd[t].pc # "idle")

Goto(s, pc, pid, n) == cmd' = [cmd EXCEPT ![s] = [pc |-> pc, pid |-> pid, count |-> n]]
Return(s) == cmd' = [cmd EXCEPT ![s] = Idle]

\* SilogExeStartForeground neither looks for a daemon nor writes the PID file.
StartForeground(s) ==
    /\ cmd[s] = Idle /\ commands < MaxCommands
    /\ \E p \in Pids :
        /\ Fresh(p)
        /\ proc' = [proc EXCEPT ![p] = "init"]
        /\ Goto(s, "fg", p, 0)
    /\ commands' = commands + 1 /\ stray' = TRUE
    /\ UNCHANGED <<path, pidFile, signalled>>

\* Fault: the parent does not look for a daemon that is running.
StartDaemonUnasked(s) ==
    /\ Begin(s)
    /\ \E p \in Pids :
        /\ Fresh(p)
        /\ proc' = [proc EXCEPT ![p] = "init"]
        /\ Goto(s, "poll", p, 0)
    /\ UNCHANGED <<path, pidFile, signalled>>

\* SilogExeStartDaemon up to the fork, which may fail
StartDaemon(s) ==
    /\ Begin(s)
    /\ \/ UNCHANGED <<proc, cmd>>
       \/ /\ ~IsRunning
          /\ \E p \in Pids :
              /\ Fresh(p)
              /\ proc' = [proc EXCEPT ![p] = "init"]
              /\ Goto(s, "poll", p, 0)
    /\ UNCHANGED <<path, pidFile, signalled>>

\* The parent's loop.  It gives up after Polls looks, whatever the child does.
StartPoll(s) ==
    LET c == cmd[s] IN
    /\ c.pc = "poll"
    /\ \/ /\ IsRunning
          /\ Goto(s, "open", c.pid, 0)
          /\ UNCHANGED stray
       \/ /\ ~IsRunning /\ c.count + 1 < Polls
          /\ Goto(s, "poll", c.pid, c.count + 1)
          /\ UNCHANGED stray
       \/ /\ ~IsRunning /\ c.count + 1 = Polls
          /\ Return(s)
          /\ stray' = (stray \/ IsDaemon(c.pid))
    /\ UNCHANGED <<processVars, pidFile, commands>>

\* SilogExeWritePidFile: fopen empties the file, or fails ...
OpenPidFile(s) ==
    /\ cmd[s].pc = "open"
    /\ \/ /\ pidFile' = Void
          /\ Goto(s, "write", cmd[s].pid, 0)
          /\ UNCHANGED stray
       \/ /\ Return(s)
          /\ stray' = TRUE
          /\ UNCHANGED pidFile
    /\ UNCHANGED <<processVars, commands>>

\* ... and fclose writes it, or fails, which is not looked at and leaves it empty.
WritePidFile(s) ==
    /\ cmd[s].pc = "write"
    /\ \/ pidFile' = cmd[s].pid /\ UNCHANGED stray
       \/ stray' = TRUE /\ UNCHANGED pidFile
    /\ Return(s)
    /\ UNCHANGED <<processVars, commands>>

\* Fault: the PID file is used without having asked whether a daemon runs.
StopDaemonUnasked(s) ==
    /\ Begin(s)
    /\ Goto(s, "read", None, 0)
    /\ UNCHANGED <<processVars, pidFile>>

\* SilogExeStopDaemon
StopDaemon(s) ==
    /\ Begin(s)
    /\ Goto(s, IF IsRunning THEN "read" ELSE "remove", None, 0)
    /\ UNCHANGED <<processVars, pidFile>>

ReadPidFile(s) ==
    /\ cmd[s].pc = "read"
    /\ IF pidFile \in Pids THEN Goto(s, "kill", pidFile, 0) ELSE Goto(s, "remove", None, 0)
    /\ UNCHANGED <<processVars, pidFile, commands, stray>>

\* kill fails when there is no such process.
StopKills(s) ==
    LET p == cmd[s].pid IN
    /\ cmd[s].pc = "kill"
    /\ IF proc[p] # "free"
       THEN signalled' = signalled \cup {p} /\ Goto(s, "wait", p, 0)
       ELSE Goto(s, "remove", None, 0) /\ UNCHANGED signalled
    /\ UNCHANGED <<proc, path, pidFile, commands, stray>>

\* Fault: the loop waits until no daemon runs, however long that takes.
StopWaitsForever(s) ==
    LET c == cmd[s] IN
    /\ c.pc = "wait"
    /\ ~IsRunning /\ Goto(s, "remove", None, 0)
    /\ UNCHANGED <<processVars, pidFile, commands, stray>>

\* Fault: the loop is left without looking.
StopWaitsNot(s) ==
    /\ cmd[s].pc = "wait"
    /\ Goto(s, "remove", None, 0)
    /\ UNCHANGED <<processVars, pidFile, commands, stray>>

\* The loop after SIGTERM.  When it is over, SIGKILL follows, and stop goes
\* on without having seen the daemon end.
StopWaits(s) ==
    LET c == cmd[s] IN
    /\ c.pc = "wait"
    /\ \/ /\ ~IsRunning
          /\ Goto(s, "remove", None, 0)
          /\ UNCHANGED <<signalled, stray>>
       \/ /\ IsRunning /\ c.count + 1 < Polls
          /\ Goto(s, "wait", c.pid, c.count + 1)
          /\ UNCHANGED <<signalled, stray>>
       \/ /\ IsRunning /\ c.count + 1 = Polls
          /\ Goto(s, "remove", None, 0)
          /\ signalled' = IF proc[c.pid] # "free" THEN signalled \cup {c.pid} ELSE signalled
          /\ stray' = TRUE
    /\ UNCHANGED <<proc, path, pidFile, commands>>

\* SilogExeRemovePidFile, and the report that the daemon has stopped or was
\* not running.  When that is true, the bookkeeping is in order again.
RemovePidFile(s) ==
    /\ cmd[s].pc = "remove"
    /\ pidFile' = None
    /\ Return(s)
    /\ stray' = (stray /\ (~NoDaemon \/ \E t \in Shells \ {s} : cmd[t].pc # "idle"))
    /\ UNCHANGED <<processVars, commands>>

\* SilogExeShowStatus and SilogExeSendTestLogs ask whether a daemon runs.  Then
\* the one reads the PID file for its report ...
Status(s) ==
    /\ Begin(s)
    /\ IF IsRunning THEN Goto(s, "status", None, 0) ELSE UNCHANGED cmd
    /\ UNCHANGED <<processVars, pidFile>>

StatusReports(s) ==
    /\ cmd[s].pc = "status"
    /\ Return(s)
    /\ UNCHANGED <<processVars, pidFile, commands, stray>>

\* ... and the other connects and sends, without looking at the results.
Test(s) ==
    /\ Begin(s)
    /\ IF IsRunning THEN Goto(s, "send", None, 0) ELSE UNCHANGED cmd
    /\ UNCHANGED <<processVars, pidFile>>

TestSends(s) ==
    /\ cmd[s].pc = "send"
    /\ Return(s)
    /\ UNCHANGED <<processVars, pidFile, commands, stray>>

\* A command is killed half way, between fork and the PID file for one.
Interrupted(s) ==
    /\ cmd[s].pc \notin {"idle", "fg"}
    /\ Return(s)
    /\ stray' = (stray \/ (Starting(s) /\ IsDaemon(cmd[s].pid)))
    /\ UNCHANGED <<processVars, pidFile, commands>>

-----------------------------------------------------------------------------
ProcessStep(p) ==
    \/ DaemonUnlinks(p) \/ DaemonBinds(p) \/ DaemonBindFails(p)
    \/ DaemonServes(p) \/ DaemonGoesDeaf(p)
    \/ Die(p) \/ OtherStarts(p)

Give(s) == StartForeground(s) \/ StartDaemon(s) \/ StopDaemon(s) \/ Status(s) \/ Test(s)

CommandStep(s) ==
    \/ StartPoll(s) \/ OpenPidFile(s) \/ WritePidFile(s)
    \/ ReadPidFile(s) \/ StopKills(s) \/ StopWaits(s) \/ RemovePidFile(s)
    \/ StatusReports(s) \/ TestSends(s)

Next ==
    \/ \E p \in Pids : ProcessStep(p)
    \/ \E s \in Shells : Give(s) \/ CommandStep(s) \/ Interrupted(s)

Spec == Init /\ [][Next]_vars

(***************************************************************************)
(* A command runs to its end.  Nothing is assumed of the daemons: they may *)
(* stay in any state, and need not obey SIGTERM in time.                   *)
(***************************************************************************)
LiveSpec == Spec /\ \A s \in Shells : WF_vars(CommandStep(s))

-----------------------------------------------------------------------------
(* Properties.  A daemon goes stray when it is started in the foreground,  *)
(* when commands overlap, when start gives up on a child that is alive,    *)
(* when it is killed before the PID file is written, when that can not be  *)
(* written, when a receive thread ends right after its start, and when     *)
(* stop gives up on a daemon that is alive.                                *)
(* Without that, and again after a stop that finds everything gone, the    *)
(* bookkeeping is right, whatever crashes and whichever PID is used again. *)

\* There is at most one daemon; the PID file names it, or the start command
\* that will write the file is still at work.
OneDaemonRecorded ==
    ~stray =>
        /\ \A p, q \in Pids : IsDaemon(p) /\ IsDaemon(q) => p = q
        /\ \A p \in Pids : IsDaemon(p) =>
               pidFile = p \/ \E s \in Shells : Starting(s) /\ cmd[s].pid = p

\* When stop reports that the daemon has stopped or is not running
\* (SilogExeStopDaemon), no daemon process is left.
StopStops == ~stray => \A s \in Shells : cmd[s].pc = "remove" => NoDaemon

\* The PID that stop sends its signals to is the daemon's or nobody's, never
\* that of a program which has been given a dead daemon's PID.
AimsAtDaemon ==
    ~stray => \A s \in Shells :
        cmd[s].pc \in {"kill", "wait"} => proc[cmd[s].pid] \in DaemonStates \cup {"free"}

\* Every command but a foreground start returns, also when the daemon does not
\* come up or does not obey.
CommandsReturn ==
    \A s \in Shells : cmd[s].pc \notin {"idle", "fg"} ~> cmd[s].pc = "idle"
=============================================================================
