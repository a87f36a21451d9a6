------------------------------ MODULE ExeProofs ------------------------------
(***************************************************************************)
(* Proofs about Exe, for any number of shells and PIDs and any number of   *)
(* polls: as long as no daemon has gone stray, the PID file names the only *)
(* daemon, stop ends it, and nothing else is sent a signal.                *)
(*                                                                         *)
(* None of the three is inductive.  Together they need to know where a     *)
(* daemon can be while its socket is not open (only under a start command  *)
(* that polls), that the PID a stop command holds is still the one in the  *)
(* file, and that at most one command is at work.                          *)
(***************************************************************************)
EXTENDS Exe, TLAPS

Steps == {"idle", "fg", "poll", "open", "write", "read", "kill", "wait", "remove",
          "status", "send"}
Holding == {"fg", "poll", "open", "write", "kill", "wait"}

TypeOK ==
    /\ proc \in [Pids -> DaemonStates \cup {"free", "other"}]
    /\ path \in Pids \cup {None, Void}
    /\ pidFile \in Pids \cup {None, Void}
    /\ signalled \in SUBSET Pids
    /\ cmd \in [Shells -> [pc : Steps, pid : Pids \cup {None}, count : Nat]]
    /\ commands \in Nat
    /\ stray \in BOOLEAN
    /\ \A s \in Shells : cmd[s].pc \in Holding => cmd[s].pid \in Pids

\* The socket file names a process only while its socket is open.
PathOpen == \A p \in Pids : path = p => SocketOpen(p)

Harmless(p) == proc[p] \in DaemonStates \cup {"free"}

\* The state of the bookkeeping while nothing has gone stray.
Bookkeeping ==
    /\ \A s, t \in Shells : cmd[s].pc # "idle" /\ cmd[t].pc # "idle" => s = t
    /\ \A s \in Shells : cmd[s].pc # "fg"
    /\ \A p \in Pids : IsDaemon(p) =>
           path = p \/ \E s \in Shells : cmd[s].pc = "poll" /\ cmd[s].pid = p
    /\ \A s \in Shells : Starting(s) => \A p \in Pids : IsDaemon(p) => p = cmd[s].pid
    /\ \A p \in Pids : IsDaemon(p) =>
           pidFile = p \/ \E s \in Shells : Starting(s) /\ cmd[s].pid = p
    /\ \A s \in Shells : cmd[s].pc = "read" /\ pidFile \in Pids => Harmless(pidFile)
    /\ \A s \in Shells : cmd[s].pc \in {"kill", "wait"} =>
           pidFile = cmd[s].pid /\ Harmless(cmd[s].pid)
    /\ \A s \in Shells : cmd[s].pc = "remove" => NoDaemon

IndInv == TypeOK /\ PathOpen /\ (stray = FALSE => Bookkeeping)

-----------------------------------------------------------------------------
(* Types, and the socket file.                                             *)

LEMMA InitHolds == Init => IndInv
  <1> SUFFICES ASSUME Init PROVE IndInv
    OBVIOUS
  <1>1. TypeOK
    BY ExeAssumption DEF Init, TypeOK, Idle, Steps, Holding
  <1>2. PathOpen
    BY ExeAssumption DEF Init, PathOpen
  <1>3. Bookkeeping
    BY DEF Init, Bookkeeping, Idle, IsDaemon, DaemonStates, Starting, NoDaemon
  <1> QED
    BY <1>1, <1>2, <1>3 DEF IndInv

\* A command's record after a step of the shell
LEMMA GotoType ==
    ASSUME TypeOK, NEW s \in Shells, NEW pc \in Steps, NEW pid \in Pids \cup {None}, NEW n \in Nat,
           Goto(s, pc, pid, n), pc \in Holding => pid \in Pids
    PROVE  /\ cmd' \in [Shells -> [pc : Steps, pid : Pids \cup {None}, count : Nat]]
           /\ \A t \in Shells : cmd'[t].pc \in Holding => cmd'[t].pid \in Pids
  BY DEF TypeOK, Goto

LEMMA ReturnType ==
    ASSUME TypeOK, NEW s \in Shells, Return(s)
    PROVE  /\ cmd' \in [Shells -> [pc : Steps, pid : Pids \cup {None}, count : Nat]]
           /\ \A t \in Shells : cmd'[t].pc \in Holding => cmd'[t].pid \in Pids
  BY DEF TypeOK, Return, Idle, Steps, Holding

LEMMA ProcessType == ASSUME TypeOK, NEW p \in Pids, ProcessStep(p) PROVE TypeOK'
  <1>1. CASE DaemonUnlinks(p)
    BY <1>1 DEF TypeOK, DaemonUnlinks, DaemonStates
  <1>2. CASE DaemonBinds(p)
    BY <1>2 DEF TypeOK, DaemonBinds, DaemonStates
  <1>3. CASE DaemonBindFails(p)
    BY <1>3 DEF TypeOK, DaemonBindFails, DaemonStates
  <1>4. CASE DaemonServes(p)
    BY <1>4 DEF TypeOK, DaemonServes, DaemonStates
  <1>5. CASE DaemonGoesDeaf(p)
    BY <1>5 DEF TypeOK, DaemonGoesDeaf, DaemonStates
  <1>6. CASE Die(p)
    BY <1>6 DEF TypeOK, Die, Idle, Steps, Holding
  <1>7. CASE OtherStarts(p)
    BY <1>7 DEF TypeOK, OtherStarts
  <1> QED
    BY <1>1, <1>2, <1>3, <1>4, <1>5, <1>6, <1>7 DEF ProcessStep

LEMMA GiveType == ASSUME TypeOK, NEW s \in Shells, Give(s) PROVE TypeOK'
  <1>1. CASE StartForeground(s)
    <2>1. PICK p \in Pids : proc' = [proc EXCEPT ![p] = "init"] /\ Goto(s, "fg", p, 0)
      BY <1>1 DEF StartForeground
    <2> QED
      BY <1>1, <2>1, GotoType DEF TypeOK, StartForeground, DaemonStates, Steps
  <1>2. CASE StartDaemon(s)
    <2>1. CASE UNCHANGED <<proc, cmd>>
      BY <1>2, <2>1 DEF TypeOK, StartDaemon, Begin
    <2>2. CASE ~UNCHANGED <<proc, cmd>>
      <3>1. PICK p \in Pids : proc' = [proc EXCEPT ![p] = "init"] /\ Goto(s, "poll", p, 0)
        BY <1>2, <2>2 DEF StartDaemon
      <3> QED
        BY <1>2, <3>1, GotoType DEF TypeOK, StartDaemon, Begin, DaemonStates, Steps
    <2> QED
      BY <2>1, <2>2
  <1>b. Begin(s) => stray' \in BOOLEAN /\ commands' \in Nat
    BY DEF TypeOK, Begin
  <1>c. ASSUME NEW pc \in Steps \ Holding, Goto(s, pc, None, 0)
        PROVE  /\ cmd' \in [Shells -> [pc : Steps, pid : Pids \cup {None}, count : Nat]]
               /\ \A t \in Shells : cmd'[t].pc \in Holding => cmd'[t].pid \in Pids
    BY <1>c, GotoType
  <1>d. {"read", "remove", "status", "send"} \subseteq Steps \ Holding
    BY DEF Steps, Holding
  <1>3. CASE StopDaemon(s)
    BY <1>3, <1>b, <1>c, <1>d DEF TypeOK, StopDaemon, processVars
  <1>4. CASE Status(s)
    BY <1>4, <1>b, <1>c, <1>d DEF TypeOK, Status, processVars
  <1>5. CASE Test(s)
    BY <1>5, <1>b, <1>c, <1>d DEF TypeOK, Test, processVars
  <1> QED
    BY <1>1, <1>2, <1>3, <1>4, <1>5 DEF Give

LEMMA CommandType == ASSUME TypeOK, NEW s \in Shells, CommandStep(s) PROVE TypeOK'
  <1> USE DEF processVars
  <1>0. /\ cmd[s] \in [pc : Steps, pid : Pids \cup {None}, count : Nat]
        /\ cmd[s].count + 1 \in Nat
        /\ cmd[s].pc \in Holding => cmd[s].pid \in Pids
    BY DEF TypeOK
  <1>1. CASE StartPoll(s)
    BY <1>0, <1>1, GotoType, ReturnType DEF TypeOK, StartPoll, Steps, Holding
  <1>2. CASE OpenPidFile(s)
    BY <1>0, <1>2, GotoType, ReturnType DEF TypeOK, OpenPidFile, Steps, Holding
  <1>3. CASE WritePidFile(s)
    BY <1>0, <1>3, ReturnType DEF TypeOK, WritePidFile, Holding
  <1>4. CASE ReadPidFile(s)
    BY <1>0, <1>4, GotoType DEF TypeOK, ReadPidFile, Steps, Holding
  <1>5. CASE StopKills(s)
    BY <1>0, <1>5, GotoType DEF TypeOK, StopKills, Steps, Holding
  <1>6. CASE StopWaits(s)
    BY <1>0, <1>6, GotoType DEF TypeOK, StopWaits, Steps, Holding
  <1>7. CASE RemovePidFile(s)
    BY <1>0, <1>7, ReturnType DEF TypeOK, RemovePidFile
  <1>8. CASE StatusReports(s)
    BY <1>0, <1>8, ReturnType DEF TypeOK, StatusReports
  <1>9. CASE TestSends(s)
    BY <1>0, <1>9, ReturnType DEF TypeOK, TestSends
  <1> QED
    BY <1>1, <1>2, <1>3, <1>4, <1>5, <1>6, <1>7, <1>8, <1>9 DEF CommandStep

LEMMA InterruptedType == ASSUME TypeOK, NEW s \in Shells, Interrupted(s) PROVE TypeOK'
  BY ReturnType DEF TypeOK, Interrupted, processVars

LEMMA PathStep == ASSUME TypeOK, PathOpen, Next PROVE PathOpen'
  <1>1. ASSUME NEW p \in Pids, ProcessStep(p) PROVE PathOpen'
    BY <1>1, ExeAssumption DEF TypeOK, PathOpen, SocketOpen, ProcessStep, DaemonUnlinks, DaemonBinds,
       DaemonBindFails, DaemonServes, DaemonGoesDeaf, Die, OtherStarts, Fresh
  <1>2. ASSUME NEW s \in Shells, Give(s) PROVE PathOpen'
    BY <1>2 DEF TypeOK, PathOpen, SocketOpen, Give, StartForeground, StartDaemon, StopDaemon,
       Status, Test, Fresh, processVars
  <1>3. ASSUME NEW s \in Shells, CommandStep(s) PROVE PathOpen'
    BY <1>3 DEF PathOpen, SocketOpen, CommandStep, StartPoll, OpenPidFile, WritePidFile, ReadPidFile,
       StopKills, StopWaits, RemovePidFile, StatusReports, TestSends, processVars
  <1>4. ASSUME NEW s \in Shells, Interrupted(s) PROVE PathOpen'
    BY <1>4 DEF PathOpen, SocketOpen, Interrupted, processVars
  <1> QED
    BY <1>1, <1>2, <1>3, <1>4 DEF Next

-----------------------------------------------------------------------------
(* The bookkeeping.                                                        *)

\* While a command polls, the only daemon there can be is its child; otherwise
\* a daemon has its socket open.
LEMMA OnlyOne ==
    ASSUME TypeOK, Bookkeeping
    PROVE  \A p, q \in Pids : IsDaemon(p) /\ IsDaemon(q) => p = q
  BY DEF Bookkeeping, Starting

LEMMA ProcessKeeps ==
    ASSUME TypeOK, PathOpen, Bookkeeping, stray = FALSE, stray' = FALSE,
           NEW p \in Pids, ProcessStep(p)
    PROVE  Bookkeeping'
  <1> USE DEF Bookkeeping, Starting, IsDaemon, DaemonStates, NoDaemon, Harmless
  <1>0. \A q \in Pids : IsDaemon(p) /\ IsDaemon(q) => q = p
    BY OnlyOne
  <1>1. CASE DaemonUnlinks(p)
    BY <1>0, <1>1 DEF TypeOK, PathOpen, SocketOpen, DaemonUnlinks
  <1>2. CASE DaemonBinds(p)
    BY <1>0, <1>2 DEF TypeOK, PathOpen, SocketOpen, DaemonBinds
  <1>3. CASE DaemonBindFails(p)
    BY <1>0, <1>3 DEF TypeOK, PathOpen, SocketOpen, DaemonBindFails
  <1>4. CASE DaemonServes(p)
    BY <1>0, <1>4 DEF TypeOK, DaemonServes
  <1>5. CASE DaemonGoesDeaf(p)
    BY <1>5 DEF DaemonGoesDeaf
  <1>6. CASE Die(p)
    <2>1. cmd' = cmd
      BY <1>6 DEF Die, TypeOK
    <2> QED
      BY <1>6, <2>1 DEF TypeOK, Die
  <1>7. CASE OtherStarts(p)
    BY <1>7 DEF TypeOK, OtherStarts, Fresh
  <1> QED
    BY <1>1, <1>2, <1>3, <1>4, <1>5, <1>6, <1>7 DEF ProcessStep

\* A command that begins without disturbing another one is alone, and finds a
\* daemon exactly if one is running.
LEMMA BeginsAlone ==
    ASSUME TypeOK, PathOpen, Bookkeeping, stray = FALSE, stray' = FALSE, NEW s \in Shells, Begin(s)
    PROVE  /\ \A t \in Shells : cmd[t].pc = "idle"
           /\ ~IsRunning => NoDaemon
           /\ IsRunning => IsDaemon(path) /\ pidFile = path
  <1>1. \A t \in Shells : cmd[t].pc = "idle"
    BY DEF Begin
  <1>2. ~IsRunning => NoDaemon
    BY <1>1 DEF Bookkeeping, IsRunning, NoDaemon
  <1>3. ASSUME IsRunning PROVE IsDaemon(path) /\ pidFile = path
    <2>1. IsDaemon(path)
      BY <1>3 DEF IsRunning, PathOpen, SocketOpen, IsDaemon, DaemonStates
    <2> QED
      BY <1>1, <1>3, <2>1 DEF Bookkeeping, Starting, IsRunning
  <1> QED
    BY <1>1, <1>2, <1>3

LEMMA GiveKeeps ==
    ASSUME TypeOK, PathOpen, Bookkeeping, stray = FALSE, stray' = FALSE, NEW s \in Shells, Give(s)
    PROVE  Bookkeeping'
  <1> USE DEF Bookkeeping, Starting, IsDaemon, DaemonStates, NoDaemon, Harmless
  <1>1. CASE StartForeground(s)
    BY <1>1 DEF StartForeground
  <1>2. CASE StartDaemon(s)
    <2>0. Begin(s)
      BY <1>2 DEF StartDaemon
    <2>1. CASE UNCHANGED <<proc, cmd>>
      BY <1>2, <2>1 DEF StartDaemon
    <2>2. CASE ~UNCHANGED <<proc, cmd>>
      <3>1. PICK p \in Pids : Fresh(p) /\ proc' = [proc EXCEPT ![p] = "init"] /\ Goto(s, "poll", p, 0)
        BY <1>2, <2>2 DEF StartDaemon
      <3>2. NoDaemon /\ \A t \in Shells : cmd[t].pc = "idle"
        BY <1>2, <2>0, <2>2, BeginsAlone DEF StartDaemon
      <3> QED
        BY <1>2, <3>1, <3>2 DEF StartDaemon, Goto, TypeOK
    <2> QED
      BY <2>1, <2>2
  <1>3. CASE StopDaemon(s)
    <2>0. Begin(s)
      BY <1>3 DEF StopDaemon
    <2>1. \A t \in Shells : cmd[t].pc = "idle"
      BY <2>0, BeginsAlone
    <2>2. \A t \in Shells : t # s => cmd'[t].pc = "idle"
      BY <1>3, <2>1 DEF StopDaemon, Goto, TypeOK
    <2>3. UNCHANGED <<proc, path, pidFile>>
      BY <1>3 DEF StopDaemon, processVars
    <2>4. CASE IsRunning
      <3>1. cmd'[s].pc = "read" /\ IsDaemon(path) /\ pidFile = path
        BY <1>3, <2>0, <2>4, BeginsAlone DEF StopDaemon, Goto, TypeOK
      <3> QED
        BY <2>1, <2>2, <2>3, <3>1
    <2>5. CASE ~IsRunning
      <3>1. cmd'[s].pc = "remove" /\ NoDaemon
        BY <1>3, <2>0, <2>5, BeginsAlone DEF StopDaemon, Goto, TypeOK
      <3>2. NoDaemon'
        BY <2>3, <3>1
      <3> QED
        BY <2>2, <3>1, <3>2
    <2> QED
      BY <2>4, <2>5
  <1>4. CASE Status(s)
    <2>0. Begin(s)
      BY <1>4 DEF Status
    <2>1. \A t \in Shells : cmd[t].pc = "idle"
      BY <2>0, BeginsAlone
    <2>2. \A t \in Shells : cmd'[t].pc \in {"idle", "status"} /\ (t # s => cmd'[t].pc = "idle")
      BY <1>4, <2>1 DEF Status, Goto, TypeOK
    <2>3. UNCHANGED <<proc, path, pidFile>>
      BY <1>4 DEF Status, processVars
    <2> HIDE DEF IsDaemon, NoDaemon
    <2>4. \A p \in Pids : IsDaemon(p)' <=> IsDaemon(p)
      BY <2>3 DEF IsDaemon
    <2> QED
      BY <2>1, <2>2, <2>3, <2>4
  <1>5. CASE Test(s)
    <2>0. Begin(s)
      BY <1>5 DEF Test
    <2>1. \A t \in Shells : cmd[t].pc = "idle"
      BY <2>0, BeginsAlone
    <2>2. \A t \in Shells : cmd'[t].pc \in {"idle", "send"} /\ (t # s => cmd'[t].pc = "idle")
      BY <1>5, <2>1 DEF Test, Goto, TypeOK
    <2>3. UNCHANGED <<proc, path, pidFile>>
      BY <1>5 DEF Test, processVars
    <2> HIDE DEF IsDaemon, NoDaemon
    <2>4. \A p \in Pids : IsDaemon(p)' <=> IsDaemon(p)
      BY <2>3 DEF IsDaemon
    <2> QED
      BY <2>1, <2>2, <2>3, <2>4
  <1> QED
    BY <1>1, <1>2, <1>3, <1>4, <1>5 DEF Give

LEMMA CommandKeeps ==
    ASSUME TypeOK, PathOpen, Bookkeeping, stray = FALSE, stray' = FALSE,
           NEW s \in Shells, CommandStep(s)
    PROVE  Bookkeeping'
  <1> USE DEF Bookkeeping, Starting, IsDaemon, DaemonStates, NoDaemon, Harmless, processVars
  <1>0. \A p \in Pids : path = p => IsDaemon(p)
    BY DEF PathOpen, SocketOpen
  <1>1. CASE StartPoll(s)
    <2> USE DEF TypeOK
    <2>0. UNCHANGED <<proc, path, pidFile>> /\ cmd[s].pc = "poll"
      BY <1>1 DEF StartPoll
    <2>1. CASE IsRunning /\ Goto(s, "open", cmd[s].pid, 0)
      BY <1>0, <2>0, <2>1 DEF Goto, IsRunning
    <2>2. CASE Goto(s, "poll", cmd[s].pid, cmd[s].count + 1)
      BY <2>0, <2>2 DEF Goto
    <2>3. CASE Return(s) /\ stray' = (stray \/ IsDaemon(cmd[s].pid))
      <3>1. NoDaemon
        BY <2>0, <2>3
      <3>2. NoDaemon'
        BY <2>0, <3>1
      <3>3. \A t \in Shells : cmd'[t].pc = "idle"
        BY <2>0, <2>3 DEF Return, Idle
      <3> QED
        BY <3>2, <3>3
    <2> QED
      BY <1>1, <2>1, <2>2, <2>3 DEF StartPoll
  <1>2. CASE OpenPidFile(s)
    BY <1>2 DEF OpenPidFile, Goto, Return, TypeOK
  <1>3. CASE WritePidFile(s)
    BY <1>3 DEF WritePidFile, Return, Idle, TypeOK
  <1>4. CASE ReadPidFile(s)
    BY <1>4 DEF ReadPidFile, Goto, TypeOK
  <1>5. CASE StopKills(s)
    BY <1>5 DEF StopKills, Goto, TypeOK, Holding
  <1>6. CASE StopWaits(s)
    <2> USE DEF TypeOK
    <2>0. UNCHANGED <<proc, path, pidFile>> /\ cmd[s].pc = "wait"
      BY <1>6 DEF StopWaits
    <2>1. CASE ~IsRunning /\ Goto(s, "remove", None, 0)
      <3>1. NoDaemon
        BY <2>0, <2>1 DEF IsRunning
      <3>2. NoDaemon'
        BY <2>0, <3>1
      <3>3. \A t \in Shells : cmd'[t].pc = IF t = s THEN "remove" ELSE "idle"
        BY <2>0, <2>1 DEF Goto
      <3> QED
        BY <3>2, <3>3
    <2>2. CASE Goto(s, "wait", cmd[s].pid, cmd[s].count + 1)
      BY <2>0, <2>2 DEF Goto
    <2> QED
      BY <1>6, <2>1, <2>2 DEF StopWaits
  <1>7. CASE RemovePidFile(s)
    BY <1>7 DEF RemovePidFile, Return, Idle, TypeOK
  <1>8. CASE StatusReports(s)
    BY <1>8 DEF StatusReports, Return, Idle, TypeOK
  <1>9. CASE TestSends(s)
    BY <1>9 DEF TestSends, Return, Idle, TypeOK
  <1> QED
    BY <1>1, <1>2, <1>3, <1>4, <1>5, <1>6, <1>7, <1>8, <1>9 DEF CommandStep

\* A start command that is killed without anything going stray had lost its
\* child, and so there is no daemon; any other has left everything in place.
LEMMA InterruptedKeeps ==
    ASSUME TypeOK, PathOpen, Bookkeeping, stray = FALSE, stray' = FALSE,
           NEW s \in Shells, Interrupted(s)
    PROVE  Bookkeeping'
  <1> USE DEF Bookkeeping, Starting, IsDaemon, DaemonStates, NoDaemon, Harmless
  <1>1. UNCHANGED <<proc, path, pidFile>> /\ cmd[s].pc # "idle"
    BY DEF Interrupted, processVars
  <1>2. \A t \in Shells : cmd'[t].pc = "idle"
    BY <1>1 DEF Interrupted, Return, Idle, TypeOK
  <1>3. CASE Starting(s)
    <2>1. NoDaemon
      BY <1>3 DEF Interrupted
    <2> QED
      BY <1>1, <1>2, <2>1
  <1>4. CASE ~Starting(s)
    <2>1. \A t \in Shells : ~Starting(t)
      BY <1>1, <1>4
    <2> QED
      BY <1>1, <1>2, <2>1
  <1> QED
    BY <1>3, <1>4

\* Only a stop that finds no daemon and no other command puts things in order
\* again.
LEMMA OrderRestored ==
    ASSUME TypeOK, stray = TRUE, stray' = FALSE, Next
    PROVE  Bookkeeping'
  <1>1. PICK s \in Shells : RemovePidFile(s)
    BY DEF Next, ProcessStep, Give, CommandStep, DaemonUnlinks, DaemonBinds, DaemonBindFails, DaemonServes,
       DaemonGoesDeaf, Die, OtherStarts, Begin, StartForeground, StartDaemon, StopDaemon, Status, Test,
       StartPoll, OpenPidFile, WritePidFile, ReadPidFile, StopKills, StopWaits, StatusReports,
       TestSends, Interrupted
  <1>2. NoDaemon /\ \A t \in Shells \ {s} : cmd[t].pc = "idle"
    BY <1>1 DEF RemovePidFile
  <1> QED
    BY <1>1, <1>2 DEF RemovePidFile, Return, Idle, TypeOK, Bookkeeping, Starting, IsDaemon, NoDaemon,
       DaemonStates, processVars

-----------------------------------------------------------------------------
LEMMA NextKeeps == IndInv /\ [Next]_vars => IndInv'
  <1> SUFFICES ASSUME IndInv, [Next]_vars PROVE IndInv'
    OBVIOUS
  <1> USE DEF IndInv
  <1>1. CASE UNCHANGED vars
    BY <1>1 DEF vars, TypeOK, PathOpen, Bookkeeping, SocketOpen, IsDaemon, NoDaemon, Starting, Harmless
  <1>2. CASE Next
    <2>1. TypeOK'
      BY <1>2, ProcessType, GiveType, CommandType, InterruptedType DEF Next
    <2>2. PathOpen'
      BY <1>2, PathStep
    <2>3. ASSUME stray' = FALSE PROVE Bookkeeping'
      <3>1. CASE stray = TRUE
        BY <1>2, <2>3, <3>1, OrderRestored
      <3>2. CASE stray = FALSE
        BY <1>2, <2>3, <3>2, ProcessKeeps, GiveKeeps, CommandKeeps, InterruptedKeeps DEF Next
      <3> QED
        BY <3>1, <3>2 DEF TypeOK
    <2> QED
      BY <2>1, <2>2, <2>3
  <1> QED
    BY <1>1, <1>2

LEMMA IndInvAlways == Spec => []IndInv
  BY InitHolds, NextKeeps, PTL DEF Spec

\* However the commands start, start -d, stop, status and test of any number of
\* shells interleave with daemons that come up, fail and crash: unless one has
\* gone stray, there is at most one daemon, and the PID file names it or the
\* start command at work is about to write it.
THEOREM PidFileNamesTheDaemon == Spec => []OneDaemonRecorded
  <1>1. IndInv => OneDaemonRecorded
    BY OnlyOne DEF IndInv, TypeOK, Bookkeeping, OneDaemonRecorded
  <1> QED
    BY IndInvAlways, <1>1, PTL

\* SilogExeStopDaemon tells the truth: when it reports, no daemon is left.
THEOREM StopReportsTheTruth == Spec => []StopStops
  <1>1. IndInv => StopStops
    BY DEF IndInv, TypeOK, Bookkeeping, StopStops
  <1> QED
    BY IndInvAlways, <1>1, PTL

\* The signals of SilogExeStopDaemon reach the daemon or nobody, even though
\* the PID of a daemon that has crashed is given to other programs.
THEOREM OnlyTheDaemonIsSignalled == Spec => []AimsAtDaemon
  <1>1. IndInv => AimsAtDaemon
    BY DEF IndInv, TypeOK, Bookkeeping, Harmless, AimsAtDaemon
  <1> QED
    BY IndInvAlways, <1>1, PTL
=============================================================================
