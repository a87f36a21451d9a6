------------------------------- MODULE Remote -------------------------------
(***************************************************************************)
(* The remote log service of silog_comm/src/silog_remote.c.  The daemon's  *)
(* remote thread accepts viewers, its write thread broadcasts each log     *)
(* entry to them, and a viewer (the main loop of silog_cat) connects,      *)
(* receives, shows and connects again.  An entry travels as a frame of a   *)
(* fixed number of bytes without a header; here a frame has FrameSize      *)
(* units, <<entry, 1>> to <<entry, FrameSize>>, and send takes some of     *)
(* them.  The numbers of an entry are in the first unit, its strings in    *)
(* the last.                                                               *)
(*                                                                         *)
(* Every section under the manager's mutex is one action.                  *)
(***************************************************************************)
EXTENDS Codec, SequencesExt, FiniteSetsExt

CONSTANTS Viewers,
          Filtering,        \* viewers started with -l and -t
          MaxClients,       \* maxClients
          FrameSize,        \* SILOG_REMOTE_ENTRY_SIZE, in units
          Window,           \* units a connection holds before send fails with EAGAIN
          MaxEntries,       \* bound: broadcasts
          MaxConnections,   \* bound: connections made
          MaxInits          \* bound: calls of SilogRemoteInit

ASSUME RemoteAssumption ==
    /\ Filtering \subseteq Viewers
    /\ {MaxClients, FrameSize, Window} \subseteq Nat \ {0}
    /\ {MaxEntries, MaxConnections, MaxInits} \subseteq Nat

VARIABLES isInit, inits,
          slots,         \* clients[]: fd of an active slot, NoFd of a free one
          clientCount,
          fds,           \* what each descriptor of the daemon refers to
          accepted,      \* descriptor between accept and the mutex, or NoFd
          backlog,       \* connections not accepted yet
          bcast,         \* SilogRemoteBroadcast: pc, slot, fd captured, units sent
          entry,         \* number of the last entry broadcast
          connections,   \* number of connections made
          pipe,          \* units sent and not yet received, for each connection
          peer,          \* a viewer's connection, or NoConn
          recvBuf,       \* units of an incomplete frame, for each viewer
          shown,         \* what each viewer has printed: connection and frame
          cut            \* history: connections with a frame that was not sent to its end

vars == <<isInit, inits, slots, clientCount, fds, accepted, backlog, bcast, entry, connections,
          pipe, peer, recvBuf, shown, cut>>
tableVars == <<slots, clientCount, fds>>
viewerVars == <<connections, peer, recvBuf, shown>>

NoFd == 0
NoConn == 0
Slots == 0 .. MaxClients - 1
Fds == 1 .. MaxClients + 1
Conns == 1 .. MaxConnections
Idle == [pc |-> "idle", slot |-> 0, fd |-> NoFd, sent |-> 0]

Init ==
    /\ isInit = FALSE /\ inits = 0
    /\ slots = [s \in Slots |-> NoFd] /\ clientCount = 0
    /\ fds = [f \in Fds |-> NoConn]
    /\ accepted = NoFd /\ backlog = << >>
    /\ bcast = Idle /\ entry = 0
    /\ connections = 0
    /\ pipe = [c \in Conns |-> << >>]
    /\ peer = [v \in Viewers |-> NoConn]
    /\ recvBuf = [v \in Viewers |-> << >>]
    /\ shown = [v \in Viewers |-> << >>]
    /\ cut = {}

Active == {s \in Slots : slots[s] # NoFd}
ServerOpen(c) == \E f \in Fds : fds[f] = c
PeerOpen(c) == \E v \in Viewers : peer[v] = c

\* The entries that are logged, by number; they differ in what is printed and
\* in what the viewers filter by.
BitsOf(n) == [i \in 0 .. 8 * ByteBits - 1 |-> (n \div 2^i) % 2]
LogEntry == [e \in 1 .. MaxEntries |->
                [ts |-> BitsOf(e), pid |-> BitsOf(e), level |-> e % 2,
                 tag |-> IF e = 3 THEN <<"b">> ELSE <<"b", "a">>]]

\* The same after the way through SilogRemoteSerializeEntry and
\* SilogRemoteDeserializeEntry
Decoded == [e \in 1 .. MaxEntries |->
                [LogEntry[e] EXCEPT !.ts = DecodeTs(Serialize(@, 8)),
                                    !.pid = DecodePid(Serialize(@, 8))]]

\* What a frame is read as, its units being of one entry or of several
ReadAs(frame) == [Decoded[frame[1][1]] EXCEPT !.tag = Decoded[frame[FrameSize][1]].tag]

\* The options of silog_cat
Options(v) == IF v \in Filtering THEN [minLevel |-> 1, filterTag |-> <<"a">>]
              ELSE [minLevel |-> 0, filterTag |-> << >>]

-----------------------------------------------------------------------------
(* The daemon's side: SilogRemoteInit, SilogRemoteDeinit.                  *)

RemoteInit ==
    /\ ~isInit /\ inits < MaxInits
    /\ isInit' = TRUE /\ inits' = inits + 1
    /\ slots' = [s \in Slots |-> NoFd] /\ clientCount' = 0
    /\ UNCHANGED <<fds, accepted, backlog, bcast, entry, pipe, cut, viewerVars>>

\* SilogDaemonRemoteDeinit runs when the write thread and the remote thread
\* have been joined.
RemoteDeinit ==
    /\ isInit
    /\ bcast.pc = "idle" /\ accepted = NoFd
    /\ isInit' = FALSE
    /\ slots' = [s \in Slots |-> NoFd] /\ clientCount' = 0
    /\ fds' = [f \in Fds |-> IF f \in Range(slots) THEN NoConn ELSE fds[f]]
    /\ backlog' = << >>
    /\ UNCHANGED <<inits, accepted, bcast, entry, pipe, cut, viewerVars>>

-----------------------------------------------------------------------------
(* SilogRemoteAccept, on the remote thread.                                *)

Accept ==
    /\ isInit /\ accepted = NoFd /\ backlog # << >>
    /\ LET f == Min({g \in Fds : fds[g] = NoConn}) IN
        /\ fds' = [fds EXCEPT ![f] = Head(backlog)]
        /\ accepted' = f
    /\ backlog' = Tail(backlog)
    /\ UNCHANGED <<isInit, inits, slots, clientCount, bcast, entry, pipe, cut, viewerVars>>

\* The table is full, or the descriptor can not be made non-blocking, which
\* may happen to any of them.
AcceptRejects ==
    /\ accepted # NoFd
    /\ fds' = [fds EXCEPT ![accepted] = NoConn]
    /\ accepted' = NoFd
    /\ UNCHANGED <<isInit, inits, slots, clientCount, backlog, bcast, entry, pipe, cut, viewerVars>>

\* Fault: the slot is chosen by the number of clients, not by being free.
AcceptPlacesAtCount ==
    /\ accepted # NoFd
    /\ clientCount < MaxClients /\ Active # Slots
    /\ slots' = [slots EXCEPT ![clientCount] = accepted]
    /\ clientCount' = clientCount + 1
    /\ accepted' = NoFd
    /\ UNCHANGED <<isInit, inits, fds, backlog, bcast, entry, pipe, cut, viewerVars>>

AcceptPlaces ==
    /\ accepted # NoFd
    /\ clientCount < MaxClients /\ Active # Slots
    /\ slots' = [slots EXCEPT ![Min(Slots \ Active)] = accepted]
    /\ clientCount' = clientCount + 1
    /\ accepted' = NoFd
    /\ UNCHANGED <<isInit, inits, fds, backlog, bcast, entry, pipe, cut, viewerVars>>

-----------------------------------------------------------------------------
(* SilogRemoteBroadcast, on the write thread.                              *)

\* The loop from slot s on, with table t: the mutex is released to send to
\* the next active slot, or the broadcast is over.
AdvanceFrom(s, t) ==
    LET rest == {r \in Slots : r >= s /\ t[r] # NoFd} IN
    bcast' = IF rest = {} THEN Idle
             ELSE [pc |-> "send", slot |-> Min(rest), fd |-> t[Min(rest)], sent |-> 0]

Broadcast ==
    /\ isInit /\ bcast.pc = "idle" /\ entry < MaxEntries
    /\ entry' = entry + 1
    /\ IF clientCount = 0 THEN UNCHANGED bcast ELSE AdvanceFrom(0, slots)
    /\ UNCHANGED <<isInit, inits, tableVars, accepted, backlog, pipe, cut, viewerVars>>

Sending == bcast.pc = "send" /\ bcast.sent < FrameSize
To == fds[bcast.fd]                     \* the connection the descriptor refers to
Room == Window - Len(pipe[To])

\* One call of send takes any part of the frame that fits.  What is sent to a
\* viewer that has gone is lost.
SendSome ==
    /\ Sending
    /\ \E n \in 1 .. FrameSize - bcast.sent :
        /\ n <= Room
        /\ bcast' = [bcast EXCEPT !.sent = @ + n]
        /\ IF PeerOpen(To)
           THEN pipe' = [pipe EXCEPT ![To] = @ \o [i \in 1 .. n |-> <<entry, bcast.sent + i>>]]
           ELSE UNCHANGED pipe
    /\ UNCHANGED <<isInit, inits, tableVars, accepted, backlog, entry, cut, viewerVars>>

\* Fault: SilogRemoteSendFull tries again until the buffer has room.
SendAgainSpins ==
    /\ Sending /\ PeerOpen(To) /\ Room = 0
    /\ UNCHANGED <<isInit, inits, tableVars, accepted, backlog, bcast, entry, pipe, cut, viewerVars>>

\* EAGAIN: this client is skipped, also in the middle of a frame.
SendAgain ==
    /\ Sending /\ PeerOpen(To) /\ Room = 0
    /\ cut' = IF bcast.sent > 0 THEN cut \cup {To} ELSE cut
    /\ AdvanceFrom(bcast.slot + 1, slots)
    /\ UNCHANGED <<isInit, inits, tableVars, accepted, backlog, entry, pipe, viewerVars>>

\* Fault: the slot is freed without adjusting the number of clients.
CloseClientKeepsCount(s) ==
    /\ fds' = [fds EXCEPT ![slots[s]] = NoConn]
    /\ slots' = [slots EXCEPT ![s] = NoFd]
    /\ UNCHANGED clientCount

\* SilogRemoteCloseClientInternal of an active slot
CloseClient(s) ==
    /\ fds' = [fds EXCEPT ![slots[s]] = NoConn]
    /\ slots' = [slots EXCEPT ![s] = NoFd]
    /\ clientCount' = IF clientCount > 0 THEN clientCount - 1 ELSE clientCount

\* send fails in another way, as it does when the viewer has gone, but may do
\* otherwise: the client is closed, also in the middle of a frame.
SendFails ==
    /\ Sending
    /\ CloseClient(bcast.slot)
    /\ AdvanceFrom(bcast.slot + 1, slots)
    /\ UNCHANGED <<isInit, inits, accepted, backlog, entry, pipe, cut, viewerVars>>

\* Fault: the frame is taken to be sent after the first successful send.
SendDoneEarly ==
    /\ bcast.pc = "send" /\ bcast.sent > 0
    /\ AdvanceFrom(bcast.slot + 1, slots)
    /\ UNCHANGED <<isInit, inits, tableVars, accepted, backlog, entry, pipe, cut, viewerVars>>

SendDone ==
    /\ bcast.pc = "send" /\ bcast.sent = FrameSize
    /\ AdvanceFrom(bcast.slot + 1, slots)
    /\ UNCHANGED <<isInit, inits, tableVars, accepted, backlog, entry, pipe, cut, viewerVars>>

BroadcastStep == SendSome \/ SendAgain \/ SendFails \/ SendDone

-----------------------------------------------------------------------------
(* A viewer: the loop of silog_cat's main.                                 *)

Connect(v) ==
    /\ peer[v] = NoConn /\ isInit /\ connections < MaxConnections
    /\ connections' = connections + 1
    /\ peer' = [peer EXCEPT ![v] = connections + 1]
    /\ recvBuf' = [recvBuf EXCEPT ![v] = << >>]
    /\ backlog' = Append(backlog, connections + 1)
    /\ UNCHANGED <<isInit, inits, tableVars, accepted, bcast, entry, pipe, shown, cut>>

\* SilogRemoteClientDisconnect
Disconnect(v) ==
    /\ peer' = [peer EXCEPT ![v] = NoConn]
    /\ recvBuf' = [recvBuf EXCEPT ![v] = << >>]

Needed(v) == FrameSize - Len(recvBuf[v])

\* SilogCatPrintLog
PrintLog(v, c, frame) ==
    shown' = IF Shows(Options(v), ReadAs(frame))
             THEN [shown EXCEPT ![v] = Append(@, [conn |-> c, frame |-> frame])] ELSE shown

\* SilogRemoteClientReceive: one recv, and a complete frame goes to the callback.
Receive(v) ==
    LET c == peer[v]
        n == Min({Needed(v), Len(pipe[c])})
        buf == recvBuf[v] \o SubSeq(pipe[c], 1, n)
    IN
    /\ c # NoConn /\ pipe[c] # << >>
    /\ pipe' = [pipe EXCEPT ![c] = SubSeq(@, n + 1, Len(@))]
    /\ IF Len(buf) >= FrameSize
       THEN /\ PrintLog(v, c, SubSeq(buf, 1, FrameSize))
            /\ recvBuf' = [recvBuf EXCEPT ![v] = SubSeq(buf, FrameSize + 1, Len(buf))]
       ELSE /\ recvBuf' = [recvBuf EXCEPT ![v] = buf]
            /\ UNCHANGED shown
    /\ UNCHANGED <<isInit, inits, tableVars, accepted, backlog, bcast, entry, connections, peer, cut>>

\* The server has closed the connection and everything before that is read.
ReceiveEnd(v) ==
    /\ peer[v] # NoConn /\ pipe[peer[v]] = << >>
    /\ ~ServerOpen(peer[v]) /\ peer[v] \notin Range(backlog)
    /\ Disconnect(v)
    /\ UNCHANGED <<isInit, inits, tableVars, accepted, backlog, bcast, entry, connections, pipe, shown, cut>>

\* select or recv fails: what was under way is lost, and the loop connects again.
ReceiveFails(v) ==
    /\ peer[v] # NoConn
    /\ Disconnect(v)
    /\ pipe' = [pipe EXCEPT ![peer[v]] = << >>]
    /\ UNCHANGED <<isInit, inits, tableVars, accepted, backlog, bcast, entry, connections, shown, cut>>

\* SIGINT, and perhaps another silog_cat later.
Quit(v) ==
    /\ peer[v] # NoConn
    /\ shown' = [shown EXCEPT ![v] = << >>]
    /\ Disconnect(v)
    /\ pipe' = [pipe EXCEPT ![peer[v]] = << >>]
    /\ UNCHANGED <<isInit, inits, tableVars, accepted, backlog, bcast, entry, connections, cut>>

AcceptStep == Accept \/ AcceptRejects \/ AcceptPlaces
ViewerStep(v) == Connect(v) \/ Receive(v) \/ ReceiveEnd(v) \/ ReceiveFails(v) \/ Quit(v)

Next ==
    \/ RemoteInit \/ RemoteDeinit
    \/ AcceptStep
    \/ Broadcast \/ BroadcastStep
    \/ \E v \in Viewers : ViewerStep(v)

Spec == Init /\ [][Next]_vars

(***************************************************************************)
(* The write thread runs, whatever the viewers do.  send need not fail, as *)
(* long as the viewer is there.                                            *)
(***************************************************************************)
BroadcastGoesOn == SendSome \/ SendAgain \/ (SendFails /\ ~PeerOpen(To)) \/ SendDone
LiveSpec == Spec /\ WF_vars(BroadcastGoesOn)

-----------------------------------------------------------------------------
(* Properties.                                                             *)

\* The table of clients agrees with the descriptors, however connections,
\* rejections, failed sends and restarts of the service interleave:
\* clientCount is the number of active slots, an open descriptor belongs to
\* exactly one of them (or to the accept in progress), and none is leaked.
TableConsistent ==
    /\ clientCount = Cardinality(Active)
    /\ \A s, t \in Active : slots[s] = slots[t] => s = t
    /\ {f \in Fds : fds[f] # NoConn} = {slots[s] : s \in Active} \cup ({accepted} \ {NoFd})

\* While the mutex is released for sending, the descriptor that the broadcast
\* has captured stays that of its slot: an entry never goes to a connection
\* that was accepted under a reused descriptor.
SendsToItsSlot == bcast.pc = "send" => slots[bcast.slot] = bcast.fd /\ To # NoConn

Whole(frame) == \E e \in 1 .. entry : frame = [i \in 1 .. FrameSize |-> <<e, i>>]
\* What one silog_cat prints from connections on which no frame was cut short
\* by EAGAIN: whole entries that pass its filter, in the order of the
\* broadcasts, and none twice over the same connection; neither a partial
\* recv nor a new connection shifts the frames.  After a failure, over the
\* next connection, it can be given once more the entry that was being
\* broadcast, but nothing older.
ShownInOrder ==
    \A v \in Viewers : shown[v] # << >> =>
        LET one == Last(shown[v]) IN
        one.conn \notin cut =>
            /\ Whole(one.frame) /\ Shows(Options(v), LogEntry[one.frame[1][1]])
            /\ \A before \in Range(Front(shown[v])) :
                   before.conn \notin cut =>
                       \/ before.frame[1][1] < one.frame[1][1]
                       \/ before.conn < one.conn /\ before.frame = one.frame

\* The numbers of an entry arrive: what silog_cat prints of a whole frame has the
\* process ID that was logged, and the time stamp if that uses no byte but the
\* highest two and the lowest.  (Of the others SilogRemoteDeserializeEntry makes
\* something else, which is not asked for here: a decoder that gets them right
\* has this property too.)
ShownAsLogged ==
    \A v \in Viewers : shown[v] # << >> =>
        LET frame == Last(shown[v]).frame
            logged == LogEntry[frame[1][1]]
            printed == ReadAs(frame)
        IN  Whole(frame) =>
                /\ printed.pid = logged.pid
                /\ TsSurvives(logged.ts) => printed.ts = logged.ts

\* SilogRemoteBroadcast returns: a viewer that does not read can not hold up
\* the thread that writes the log file.
BroadcastReturns == bcast.pc = "send" ~> bcast.pc = "idle"
=============================================================================
