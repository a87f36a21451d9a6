--------------------------------- MODULE Ipc ---------------------------------
(***************************************************************************)
(* The datagram socket /tmp/logd.sock of silog_comm/src/silog_ipc.c, seen  *)
(* by the sender thread of an application and the receive thread of the    *)
(* daemon.  A client is connected to one particular socket: when that one  *)
(* is closed, sending fails until the client connects again, also if a new *)
(* server socket has taken the path over.                                  *)
(***************************************************************************)
EXTENDS Naturals, Sequences

CONSTANTS MaxStarts,    \* bound: starts of the daemon
          SocketDepth   \* datagrams a socket holds

VARIABLES path,     \* start of the daemon whose socket the path names; 0: no file
          server,   \* start whose receive socket is open; 0: none
          inbox     \* datagrams waiting in it

ipcVars == <<path, server, inbox>>
NoSocket == 0

IpcInit ==
    /\ path = NoSocket
    /\ server = NoSocket
    /\ inbox = << >>

\* unlink, socket, bind
ServerInit(start) ==
    /\ path' = start
    /\ server' = start
    /\ inbox' = << >>

ServerClose ==
    /\ path' = NoSocket
    /\ server' = NoSocket
    /\ inbox' = << >>

\* The process that had the socket open is gone; the file stays.
ServerDies ==
    /\ server' = NoSocket
    /\ inbox' = << >>
    /\ UNCHANGED path

ServerRecv ==
    /\ inbox' = Tail(inbox)
    /\ UNCHANGED <<path, server>>

Reachable == path # NoSocket /\ path = server   \* connect would succeed

\* The three outcomes of send on a connected, non-blocking socket.
Refused(fd) == fd # server
WouldBlock(fd) == fd = server /\ Len(inbox) = SocketDepth
Deliver(fd, e) ==
    /\ fd = server /\ Len(inbox) < SocketDepth
    /\ inbox' = Append(inbox, e)
    /\ UNCHANGED <<path, server>>
=============================================================================
