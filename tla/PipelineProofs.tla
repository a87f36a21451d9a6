--------------------------- MODULE PipelineProofs ---------------------------
(***************************************************************************)
(* Proofs about the way of an entry from silogLog to the log file, for any *)
(* number of entries, starts and crashes, any capacities and any of the    *)
(* faults.                                                                 *)
(***************************************************************************)
EXTENDS DaemonProofs

\* Every element of s is before every element of t.
Before(s, t) == \A a \in s, b \in t : a < b

(***************************************************************************)
(* The inductive invariant.  An entry is in one stage at a time; what a    *)
(* thread holds depends on where it is; a queue or a socket that does not  *)
(* exist is empty.                                                         *)
(***************************************************************************)
Shape ==
    /\ logged \in Nat
    /\ {written, broadcast, daemonQueue, inbox, logQueue, writing, sending} \subseteq Seq(Nat)
    /\ IF wpc \in {"write", "broadcast"} THEN Len(writing) = 1 ELSE writing = << >>
    /\ IF spc \in {"send", "reconnect", "retry"} THEN Len(sending) = 1 ELSE sending = << >>
    /\ once = "new" => spc = "none"
    /\ spc = "retry" => sendFd # NoSocket
    /\ queueAlive = FALSE => daemonQueue = << >>
    /\ server = NoSocket => inbox = << >>

\* The stages are in order, each of them and one before the other.  The entry
\* that is broadcast has been written, so it may equal one in the log file.
Order ==
    /\ Increasing(written) /\ Increasing(broadcast)
    /\ Increasing(daemonQueue) /\ Increasing(inbox) /\ Increasing(logQueue)
    /\ Before(SetOf(sending), SetOf(logQueue))
    /\ Before(SetOf(inbox), SetOf(sending) \cup SetOf(logQueue))
    /\ Before(SetOf(daemonQueue), SetOf(inbox) \cup SetOf(sending) \cup SetOf(logQueue))
    /\ Before(SetOf(writing),
              SetOf(daemonQueue) \cup SetOf(inbox) \cup SetOf(sending) \cup SetOf(logQueue))
    /\ Before(SetOf(written),
              SetOf(daemonQueue) \cup SetOf(inbox) \cup SetOf(sending) \cup SetOf(logQueue))
    /\ Before(SetOf(broadcast), SetOf(writing) \cup
              SetOf(daemonQueue) \cup SetOf(inbox) \cup SetOf(sending) \cup SetOf(logQueue))
    /\ wpc = "write" => Before(SetOf(written), SetOf(writing))

Account ==
    /\ 1 .. logged = SetOf(written) \cup SetOf(writing) \cup SetOf(daemonQueue) \cup SetOf(inbox)
                     \cup SetOf(sending) \cup SetOf(logQueue) \cup unsent \cup discarded
    /\ SetOf(broadcast) \subseteq 1 .. logged
    /\ wpc = "broadcast" => SetOf(writing) \subseteq SetOf(written) \cup discarded

FlowInv == Shape /\ Order /\ Account

-----------------------------------------------------------------------------
(* Sequences and the sets of their elements.                               *)

LEMMA EmptySet == SetOf(<< >>) = {}
  BY DEF SetOf

LEMMA OneSet ==
    ASSUME NEW e \in Nat
    PROVE  SetOf(<<e>>) = {e}
  BY DEF SetOf

LEMMA Elements ==
    ASSUME NEW s \in Seq(Nat)
    PROVE  DOMAIN s = 1 .. Len(s) /\ \A i \in 1 .. Len(s) : s[i] \in Nat
  OBVIOUS

LEMMA LoneElement ==
    ASSUME NEW s \in Seq(Nat), Len(s) = 1
    PROVE  s[1] \in Nat /\ SetOf(s) = {s[1]}
<1>1. DOMAIN s = 1 .. Len(s) /\ \A i \in 1 .. Len(s) : s[i] \in Nat
  BY Elements, Zenon
<1>2. 1 \in DOMAIN s /\ \A i \in DOMAIN s : i = 1
  BY <1>1
<1>3. s[1] \in Nat
  BY <1>1, <1>2
<1> QED
  BY <1>2, <1>3, Zenon DEF SetOf

LEMMA AppendFacts ==
    ASSUME NEW s \in Seq(Nat), NEW e \in Nat, Increasing(s), Before(SetOf(s), {e})
    PROVE  /\ Append(s, e) \in Seq(Nat)
           /\ SetOf(Append(s, e)) = SetOf(s) \cup {e}
           /\ Increasing(Append(s, e))
<1>1. /\ Append(s, e) \in Seq(Nat) /\ Len(Append(s, e)) = Len(s) + 1
      /\ DOMAIN Append(s, e) = 1 .. Len(s) + 1 /\ DOMAIN s = 1 .. Len(s)
      /\ \A i \in 1 .. Len(s) : Append(s, e)[i] = s[i]
      /\ Append(s, e)[Len(s) + 1] = e
  OBVIOUS
<1>2. Len(s) \in Nat
  OBVIOUS
<1>3. SetOf(Append(s, e)) = SetOf(s) \cup {e}
  BY <1>1, <1>2 DEF SetOf
<1>4. \A i \in 1 .. Len(s) : s[i] < e
  BY <1>1 DEF SetOf, Before
<1>5. Increasing(Append(s, e))
  BY <1>1, <1>2, <1>4 DEF Increasing
<1> QED
  BY <1>1, <1>3, <1>5

LEMMA HeadTailFacts ==
    ASSUME NEW s \in Seq(Nat), Increasing(s), s # << >>
    PROVE  /\ Head(s) \in Nat /\ Tail(s) \in Seq(Nat)
           /\ SetOf(s) = {Head(s)} \cup SetOf(Tail(s))
           /\ Increasing(Tail(s))
           /\ Before({Head(s)}, SetOf(Tail(s)))
<1>1. /\ Len(s) \in Nat /\ Len(s) >= 1 /\ DOMAIN s = 1 .. Len(s)
      /\ Head(s) = s[1] /\ Tail(s) \in Seq(Nat) /\ Len(Tail(s)) = Len(s) - 1
      /\ DOMAIN Tail(s) = 1 .. Len(s) - 1
      /\ \A i \in 1 .. Len(s) - 1 : Tail(s)[i] = s[i + 1]
  OBVIOUS
<1>2. ASSUME NEW i \in 1 .. Len(s), i # 1 PROVE s[i] \in SetOf(Tail(s))
  <2>1. i - 1 \in 1 .. Len(s) - 1 /\ s[i] = Tail(s)[i - 1]
    BY <1>1, <1>2
  <2> QED
    BY <1>1, <2>1 DEF SetOf
<1>3. SetOf(s) \subseteq {Head(s)} \cup SetOf(Tail(s))
  BY <1>1, <1>2 DEF SetOf
<1>4. {Head(s)} \cup SetOf(Tail(s)) \subseteq SetOf(s)
  BY <1>1 DEF SetOf
<1>5. ASSUME NEW i \in 1 .. Len(s) - 1 PROVE s[1] < Tail(s)[i]
  <2>1. 1 \in DOMAIN s /\ i + 1 \in DOMAIN s /\ 1 < i + 1
    BY <1>1
  <2> QED
    BY <1>1, <2>1 DEF Increasing
<1>6. Before({Head(s)}, SetOf(Tail(s)))
  BY <1>1, <1>5 DEF Before, SetOf
<1>7. Increasing(Tail(s))
  <2> SUFFICES ASSUME NEW i \in 1 .. Len(s) - 1, NEW j \in 1 .. Len(s) - 1, i < j
               PROVE  Tail(s)[i] < Tail(s)[j]
    BY <1>1 DEF Increasing
  <2>1. i + 1 \in DOMAIN s /\ j + 1 \in DOMAIN s /\ i + 1 < j + 1
    BY <1>1
  <2>2. s[i + 1] < s[j + 1]
    BY <2>1 DEF Increasing
  <2> QED
    BY <1>1, <2>2
<1> QED
  BY <1>1, <1>3, <1>4, <1>6, <1>7

LEMMA ConcatFacts ==
    ASSUME NEW s \in Seq(Nat), NEW t \in Seq(Nat), Increasing(s), Increasing(t),
           Before(SetOf(s), SetOf(t))
    PROVE  /\ s \o t \in Seq(Nat)
           /\ SetOf(s \o t) = SetOf(s) \cup SetOf(t)
           /\ Increasing(s \o t)
<1>1. /\ s \o t \in Seq(Nat) /\ Len(s) \in Nat /\ Len(t) \in Nat
      /\ DOMAIN s = 1 .. Len(s) /\ DOMAIN t = 1 .. Len(t)
      /\ DOMAIN (s \o t) = 1 .. Len(s) + Len(t)
      /\ \A i \in 1 .. Len(s) : (s \o t)[i] = s[i]
      /\ \A i \in 1 .. Len(t) : (s \o t)[Len(s) + i] = t[i]
      /\ \A i \in Len(s) + 1 .. Len(s) + Len(t) : (s \o t)[i] = t[i - Len(s)]
  OBVIOUS
<1>2. SetOf(s \o t) \subseteq SetOf(s) \cup SetOf(t)
  BY <1>1 DEF SetOf
<1>3. SetOf(s) \cup SetOf(t) \subseteq SetOf(s \o t)
  <2>1. ASSUME NEW i \in 1 .. Len(s) PROVE s[i] \in SetOf(s \o t)
    <3>1. i \in 1 .. Len(s) + Len(t)
      BY <1>1
    <3> QED
      BY <1>1, <3>1 DEF SetOf
  <2>2. ASSUME NEW i \in 1 .. Len(t) PROVE t[i] \in SetOf(s \o t)
    <3>1. Len(s) + i \in 1 .. Len(s) + Len(t)
      BY <1>1
    <3> QED
      BY <1>1, <3>1 DEF SetOf
  <2> QED
    BY <1>1, <2>1, <2>2 DEF SetOf
<1>4. \A i \in 1 .. Len(s), j \in 1 .. Len(t) : s[i] < t[j]
  BY <1>1 DEF SetOf, Before
<1>5. Increasing(s \o t)
  <2> SUFFICES ASSUME NEW i \in 1 .. Len(s) + Len(t), NEW j \in 1 .. Len(s) + Len(t), i < j
               PROVE  (s \o t)[i] < (s \o t)[j]
    BY <1>1 DEF Increasing
  <2>1. CASE j <= Len(s)
    <3>1. i \in 1 .. Len(s) /\ j \in 1 .. Len(s)
      BY <1>1, <2>1
    <3>2. s[i] < s[j]
      BY <1>1, <3>1 DEF Increasing
    <3> QED
      BY <1>1, <3>1, <3>2
  <2>2. CASE i <= Len(s) /\ j > Len(s)
    BY <1>1, <1>4, <2>2
  <2>3. CASE i > Len(s)
    <3>1. /\ i \in Len(s) + 1 .. Len(s) + Len(t) /\ j \in Len(s) + 1 .. Len(s) + Len(t)
          /\ i - Len(s) \in 1 .. Len(t) /\ j - Len(s) \in 1 .. Len(t)
          /\ i - Len(s) < j - Len(s)
      BY <1>1, <2>3
    <3>2. t[i - Len(s)] < t[j - Len(s)]
      BY <1>1, <3>1 DEF Increasing
    <3> QED
      BY <1>1, <3>1, <3>2
  <2> QED
    BY <1>1, <2>1, <2>2, <2>3
<1> QED
  BY <1>1, <1>2, <1>3, <1>5
-----------------------------------------------------------------------------
(* Every step keeps the invariant.                                         *)

LEMMA FlowStart == Init => FlowInv
<1> SUFFICES ASSUME Init PROVE FlowInv
  OBVIOUS
<1>1. /\ written = << >> /\ broadcast = << >> /\ daemonQueue = << >> /\ inbox = << >>
      /\ logQueue = << >> /\ writing = << >> /\ sending = << >> /\ logged = 0
      /\ unsent = {} /\ discarded = {} /\ wpc = "none" /\ spc = "none"
  BY DEF Init, IpcInit, LoggerInit, DaemonInit
<1>2. Shape
  BY <1>1 DEF Shape
<1>3. Order
  BY <1>1, EmptySet DEF Order, Increasing, Before
<1>4. Account
  BY <1>1, EmptySet DEF Account
<1> QED
  BY <1>2, <1>3, <1>4 DEF FlowInv

flowVars == <<logged, written, broadcast, daemonQueue, inbox, logQueue, writing, sending,
              unsent, discarded>>
placeVars == <<wpc, spc, once, sendFd, queueAlive, server>>

LEMMA FlowUnchanged == FlowInv /\ UNCHANGED <<flowVars, placeVars>> => FlowInv'
  BY DEF FlowInv, Shape, Order, Account, flowVars, placeVars

\* No entry moves, and no thread that holds one, or that may take one, ends.
LEMMA PlacesOnly ==
    ASSUME FlowInv, UNCHANGED flowVars, Shape', wpc' = wpc \/ wpc' \notin {"write", "broadcast"}
    PROVE  FlowInv'
  BY DEF FlowInv, Order, Account, flowVars

\* The number of the next entry.
LEMMA NextNumber ==
    ASSUME NEW n \in Nat
    PROVE  /\ n + 1 \in Nat
           /\ 1 .. n + 1 = (1 .. n) \cup {n + 1}
           /\ \A a \in 1 .. n : a < n + 1
  OBVIOUS

\* silogLog
LEMMA LogKeepsFlow ==
    ASSUME FlowInv, OnceFails \/ OnceSucceeds \/ Log, UNCHANGED daemonVars
    PROVE  FlowInv'
<1> USE DEF daemonVars, threadVars, resourceVars, dataVars, ipcVars
<1>1. CASE OnceFails \/ OnceSucceeds
  <2>1. UNCHANGED flowVars /\ UNCHANGED wpc
    BY <1>1 DEF OnceFails, OnceSucceeds, flowVars
  <2>2. Shape'
    BY <1>1 DEF OnceFails, OnceSucceeds, FlowInv, Shape, Reachable
  <2> QED
    BY <2>1, <2>2, PlacesOnly
<1>2. CASE Log /\ logQueue' = logQueue
  <2>1. /\ logged' = logged + 1 /\ unsent' = unsent \cup {logged + 1}
        /\ UNCHANGED <<written, broadcast, daemonQueue, inbox, logQueue, writing, sending,
                        discarded, placeVars>>
    BY <1>2 DEF Log, placeVars, FlowInv, Shape
  <2> logged \in Nat
    BY DEF FlowInv, Shape
  <2>2. logged' \in Nat /\ 1 .. logged' = (1 .. logged) \cup {logged + 1}
    BY <2>1, NextNumber
  <2>3. Shape' /\ Order'
    BY <2>1, <2>2 DEF FlowInv, Shape, Order, placeVars
  <2>4. Account'
    BY <2>1, <2>2 DEF FlowInv, Account, placeVars
  <2> QED
    BY <2>3, <2>4 DEF FlowInv
<1>3. CASE Log /\ logQueue' = Append(logQueue, logged + 1) /\ unsent' = unsent
  <2>1. /\ logged' = logged + 1 /\ unsent' = unsent
        /\ UNCHANGED <<written, broadcast, daemonQueue, inbox, writing, sending,
                        discarded, placeVars>>
    BY <1>3 DEF Log, placeVars
  <2> logged \in Nat
    BY DEF FlowInv, Shape
  <2>2. logged' \in Nat /\ 1 .. logged' = (1 .. logged) \cup {logged + 1}
    BY <2>1, NextNumber
  <2>3. /\ SetOf(written) \subseteq 1 .. logged /\ SetOf(writing) \subseteq 1 .. logged
        /\ SetOf(daemonQueue) \subseteq 1 .. logged /\ SetOf(inbox) \subseteq 1 .. logged
        /\ SetOf(sending) \subseteq 1 .. logged /\ SetOf(logQueue) \subseteq 1 .. logged
        /\ SetOf(broadcast) \subseteq 1 .. logged
    BY DEF FlowInv, Account
  <2>4. logged + 1 \in Nat /\ \A a \in 1 .. logged : a < logged + 1
    BY NextNumber
  <2>5. /\ logQueue' \in Seq(Nat) /\ Increasing(logQueue')
        /\ SetOf(logQueue') = SetOf(logQueue) \cup {logged + 1}
    <3>1. logQueue \in Seq(Nat) /\ Increasing(logQueue) /\ Before(SetOf(logQueue), {logged + 1})
      BY <2>3, <2>4 DEF FlowInv, Shape, Order, Before
    <3> QED
      BY <1>3, <2>4, <3>1, AppendFacts
  <2>6. Shape'
    BY <2>1, <2>2, <2>5 DEF FlowInv, Shape, placeVars
  <2>7. Order'
    <3>1. \A q \in {written, broadcast, writing, daemonQueue, inbox, sending} :
              \A a \in SetOf(q) : a < logged + 1
      BY <2>3, <2>4
    <3> QED
      BY <2>1, <2>5, <3>1 DEF FlowInv, Order, Before, placeVars
  <2>8. Account'
    BY <2>1, <2>2, <2>5 DEF FlowInv, Account, placeVars
  <2> QED
    BY <2>6, <2>7, <2>8 DEF FlowInv
<1> QED
  BY <1>1, <1>2, <1>3 DEF Log
\* The entry that the sender holds has gone, to unsent or to the socket.
LEMMA SenderHolds ==
    ASSUME FlowInv, spc \in {"send", "reconnect", "retry"}
    PROVE  sending[1] \in Nat /\ SetOf(sending) = {sending[1]}
  BY LoneElement DEF FlowInv, Shape

LEMMA GiveUpKeepsFlow ==
    ASSUME FlowInv, spc \in {"send", "reconnect", "retry"}, GiveUp, sendFd' = sendFd,
           UNCHANGED daemonVars
    PROVE  FlowInv'
<1>1. /\ unsent' = unsent \cup SetOf(sending) /\ sending' = << >> /\ SetOf(sending') = {}
      /\ spc' = "pop"
      /\ UNCHANGED <<logged, written, broadcast, daemonQueue, inbox, logQueue, writing, discarded,
                      wpc, once, queueAlive, server>>
  BY SenderHolds, EmptySet DEF GiveUp, daemonVars, threadVars, resourceVars, dataVars, ipcVars
<1>2. Shape'
  BY <1>1 DEF FlowInv, Shape
<1>3. Order'
  BY <1>1 DEF FlowInv, Order, Before
<1>4. Account'
  BY <1>1 DEF FlowInv, Account
<1> QED
  BY <1>2, <1>3, <1>4 DEF FlowInv

LEMMA SentKeepsFlow ==
    ASSUME FlowInv, spc \in {"send", "retry"}, sendFd # NoSocket, Sent, UNCHANGED daemonVars
    PROVE  FlowInv'
<1>1. /\ inbox' = Append(inbox, sending[1]) /\ sending' = << >> /\ SetOf(sending') = {}
      /\ spc' = "pop" /\ server # NoSocket
      /\ UNCHANGED <<logged, written, broadcast, daemonQueue, logQueue, writing, unsent, discarded,
                      wpc, once, sendFd, queueAlive, server>>
  BY EmptySet DEF Sent, Deliver, daemonVars, threadVars, resourceVars, dataVars
<1>2. inbox \in Seq(Nat) /\ Increasing(inbox) /\ Before(SetOf(inbox), SetOf(sending))
  BY DEF FlowInv, Shape, Order, Before
<1>3. /\ inbox' \in Seq(Nat) /\ Increasing(inbox')
      /\ SetOf(inbox') = SetOf(inbox) \cup SetOf(sending)
  BY <1>1, <1>2, SenderHolds, AppendFacts
<1>4. Shape'
  BY <1>1, <1>3 DEF FlowInv, Shape
<1>5. Order'
  BY <1>1, <1>3 DEF FlowInv, Order, Before
<1>6. Account'
  BY <1>1, <1>3 DEF FlowInv, Account
<1> QED
  BY <1>4, <1>5, <1>6 DEF FlowInv

\* silogEntrySendHandle and SilogIpcDgramClientSend
LEMMA SenderKeepsFlow ==
    ASSUME FlowInv, SenderStep, UNCHANGED daemonVars
    PROVE  FlowInv'
<1>1. CASE SenderPops
  <2>1. /\ sending' = <<Head(logQueue)>> /\ logQueue' = Tail(logQueue) /\ logQueue # << >>
        /\ spc = "pop" /\ spc' = "send"
        /\ UNCHANGED <<logged, written, broadcast, daemonQueue, inbox, writing, unsent, discarded,
                        wpc, once, sendFd, queueAlive, server>>
    BY <1>1 DEF SenderPops, daemonVars, threadVars, resourceVars, dataVars, ipcVars
  <2>2. sending = << >> /\ SetOf(sending) = {}
    BY <2>1, EmptySet DEF FlowInv, Shape
  <2>3. /\ Head(logQueue) \in Nat /\ logQueue' \in Seq(Nat) /\ Increasing(logQueue')
        /\ SetOf(logQueue) = {Head(logQueue)} \cup SetOf(logQueue')
        /\ Before({Head(logQueue)}, SetOf(logQueue'))
    BY <2>1, HeadTailFacts DEF FlowInv, Shape, Order
  <2>4. sending' \in Seq(Nat) /\ Len(sending') = 1 /\ SetOf(sending') = {Head(logQueue)}
    BY <2>1, <2>3, OneSet
  <2>5. Shape'
    BY <2>1, <2>3, <2>4 DEF FlowInv, Shape
  <2>6. Order'
    <3>1. SetOf(sending') \cup SetOf(logQueue') = SetOf(sending) \cup SetOf(logQueue)
      BY <2>2, <2>3, <2>4
    <3>2. Before(SetOf(sending'), SetOf(logQueue'))
      BY <2>3, <2>4
    <3> QED
      BY <2>1, <2>3, <3>1, <3>2 DEF FlowInv, Order, Before
  <2>7. Account'
    BY <2>1, <2>2, <2>3, <2>4 DEF FlowInv, Account
  <2> QED
    BY <2>5, <2>6, <2>7 DEF FlowInv
<1>2. CASE SendNotConnected \/ SendWouldBlock \/ ReconnectFails \/ RetryFails
  BY <1>2, GiveUpKeepsFlow DEF SendNotConnected, SendWouldBlock, ReconnectFails, RetryFails
<1>3. CASE SendDelivers
  BY <1>3, SentKeepsFlow DEF SendDelivers
<1>4. CASE RetryDelivers
  BY <1>4, SentKeepsFlow DEF RetryDelivers, FlowInv, Shape
<1>5. CASE SendRefused \/ Reconnects
  <2>1. UNCHANGED flowVars /\ UNCHANGED wpc
    BY <1>5 DEF SendRefused, Reconnects, flowVars, daemonVars, threadVars, dataVars, ipcVars
  <2>2. Shape'
    BY <1>5 DEF SendRefused, Reconnects, Reachable, FlowInv, Shape, daemonVars, threadVars,
                resourceVars, dataVars, ipcVars
  <2> QED
    BY <2>1, <2>2, PlacesOnly
<1> QED
  BY <1>1, <1>2, <1>3, <1>4, <1>5 DEF SenderStep
\* SilogDaemonInit
LEMMA StartKeepsFlow ==
    ASSUME FlowInv, LifeInv, StartStep, UNCHANGED loggerVars
    PROVE  FlowInv'
<1> USE DEF threadVars, resourceVars, dataVars, ipcVars, loggerVars
<1>1. UNCHANGED flowVars
  <2>1. CASE StartQueue
    <3>1. daemonQueue = << >>
      BY <2>1 DEF StartQueue, LifeInv, WithFileManager, WithQueue, FlowInv, Shape
    <3> QED
      BY <2>1, <3>1 DEF StartQueue, flowVars
  <2> QED
    BY <2>1 DEF StartStep, StartFileManager, StartRecvThread, StartWriteThread, StartRemote,
                StartDone, flowVars
<1>2. UNCHANGED <<spc, once, sendFd, server>>
  BY DEF StartStep, StartFileManager, StartQueue, StartRecvThread, StartWriteThread, StartRemote,
         StartDone
<1>3. queueAlive' = queueAlive \/ queueAlive' = TRUE
  BY DEF StartStep, StartFileManager, StartQueue, StartRecvThread, StartWriteThread, StartRemote,
         StartDone
<1>4. wpc' = wpc \/ (wpc = "none" /\ wpc' = "check")
  BY DEF StartStep, StartFileManager, StartQueue, StartRecvThread, StartWriteThread, StartRemote,
         StartDone, LifeInv, WithWrite
<1>5. Shape'
  BY <1>1, <1>2, <1>3, <1>4 DEF FlowInv, Shape, flowVars
<1> QED
  BY <1>1, <1>4, <1>5, PlacesOnly

\* SilogDaemonDeinit, and the death of the process
LEMMA StopKeepsFlow ==
    ASSUME FlowInv, LifeInv, StopFlag \/ StopStep \/ Die, UNCHANGED loggerVars
    PROVE  FlowInv'
<1> USE DEF threadVars, resourceVars, dataVars, ipcVars, loggerVars
<1>1. CASE StopFlag \/ JoinRecv \/ JoinWrite \/ StopRemote \/ JoinRemote
  <2>1. UNCHANGED flowVars /\ UNCHANGED <<spc, once, sendFd, server, queueAlive>>
    BY <1>1 DEF StopFlag, JoinRecv, JoinWrite, StopRemote, JoinRemote, flowVars
  <2>2. wpc' = wpc \/ (wpc \in {"none", "exited"} /\ wpc' = "none")
    BY <1>1 DEF StopFlag, JoinRecv, JoinWrite, StopRemote, JoinRemote
  <2>3. Shape'
    BY <2>1, <2>2 DEF FlowInv, Shape, flowVars
  <2> QED
    BY <2>1, <2>2, <2>3, PlacesOnly
<1>2. CASE Release
  <2>1. /\ discarded' = discarded \cup SetOf(daemonQueue)
        /\ daemonQueue' = << >> /\ SetOf(daemonQueue') = {}
        /\ UNCHANGED <<logged, written, broadcast, inbox, logQueue, writing, sending, unsent,
                        wpc, spc, once, sendFd, server>>
    BY <1>2, EmptySet DEF Release
  <2>2. Shape'
    BY <2>1 DEF FlowInv, Shape
  <2>3. Order'
    <3>1. Increasing(daemonQueue')
      BY <2>1 DEF Increasing
    <3> QED
      BY <2>1, <3>1 DEF FlowInv, Order, Before
  <2>4. Account'
    BY <2>1 DEF FlowInv, Account
  <2> QED
    BY <2>2, <2>3, <2>4 DEF FlowInv
<1>3. CASE Die
  <2>1. /\ discarded' = discarded \cup SetOf(daemonQueue) \cup SetOf(writing) \cup SetOf(inbox)
        /\ daemonQueue' = << >> /\ writing' = << >> /\ inbox' = << >> /\ wpc' = "none"
        /\ SetOf(daemonQueue') = {} /\ SetOf(writing') = {} /\ SetOf(inbox') = {}
        /\ UNCHANGED <<logged, written, broadcast, logQueue, sending, unsent, spc, once, sendFd>>
    BY <1>3, EmptySet DEF Die, ServerDies
  <2>2. Shape'
    BY <2>1 DEF FlowInv, Shape
  <2>3. Order'
    <3>1. Increasing(daemonQueue') /\ Increasing(inbox')
      BY <2>1 DEF Increasing
    <3> QED
      BY <2>1, <3>1 DEF FlowInv, Order, Before
  <2>4. Account'
    BY <2>1 DEF FlowInv, Account
  <2> QED
    BY <2>2, <2>3, <2>4 DEF FlowInv
<1> QED
  BY <1>1, <1>2, <1>3 DEF StopStep
\* SilogDaemonRecvThreadFunc
LEMMA RecvKeepsFlow ==
    ASSUME FlowInv, LifeInv, RecvStep, UNCHANGED loggerVars
    PROVE  FlowInv'
<1> USE DEF threadVars, resourceVars, dataVars, ipcVars, loggerVars
<1>1. CASE RecvBinds
  <2>1. inbox = << >>
    BY <1>1 DEF RecvBinds, LifeInv, FlowInv, Shape
  <2>2. UNCHANGED flowVars /\ UNCHANGED <<wpc, spc, once, sendFd, queueAlive>>
    BY <1>1, <2>1 DEF RecvBinds, ServerInit, ServerClose, flowVars
  <2>3. Shape'
    BY <2>1, <2>2 DEF FlowInv, Shape, flowVars
  <2> QED
    BY <2>2, <2>3, PlacesOnly
<1>2. CASE RecvLoops \/ RecvNothing
  BY <1>2, FlowUnchanged DEF RecvLoops, RecvNothing, flowVars, placeVars
<1>3. CASE RecvExits
  <2>1. /\ discarded' = discarded \cup SetOf(inbox) /\ inbox' = << >> /\ SetOf(inbox') = {}
        /\ UNCHANGED <<logged, written, broadcast, daemonQueue, logQueue, writing, sending, unsent,
                        wpc, spc, once, sendFd, queueAlive>>
    BY <1>3, EmptySet DEF RecvExits, ServerClose
  <2>2. Shape'
    BY <2>1 DEF FlowInv, Shape
  <2>3. Order'
    <3>1. Increasing(inbox')
      BY <2>1 DEF Increasing
    <3> QED
      BY <2>1, <3>1 DEF FlowInv, Order, Before
  <2>4. Account'
    BY <2>1 DEF FlowInv, Account
  <2> QED
    BY <2>2, <2>3, <2>4 DEF FlowInv
<1>4. CASE RecvPushes
  <2>1. /\ inbox' = Tail(inbox) /\ inbox # << >> /\ queueAlive = TRUE
        /\ UNCHANGED <<logged, written, broadcast, logQueue, writing, sending, unsent,
                        wpc, spc, once, sendFd, queueAlive, server>>
    BY <1>4 DEF RecvPushes, ServerRecv, LifeInv, WithRecv, WithQueue, WithFileManager
  <2>2. /\ Head(inbox) \in Nat /\ inbox' \in Seq(Nat) /\ Increasing(inbox')
        /\ SetOf(inbox) = {Head(inbox)} \cup SetOf(inbox')
        /\ Before({Head(inbox)}, SetOf(inbox'))
    BY <2>1, HeadTailFacts DEF FlowInv, Shape, Order
  <2>3. server # NoSocket
    BY <2>1 DEF FlowInv, Shape
  <2>4. CASE daemonQueue' = Append(daemonQueue, Head(inbox)) /\ discarded' = discarded
    <3>1. /\ daemonQueue \in Seq(Nat) /\ Increasing(daemonQueue)
          /\ Before(SetOf(daemonQueue), {Head(inbox)})
      BY <2>2 DEF FlowInv, Shape, Order, Before
    <3>2. /\ daemonQueue' \in Seq(Nat) /\ Increasing(daemonQueue')
          /\ SetOf(daemonQueue') = SetOf(daemonQueue) \cup {Head(inbox)}
      BY <2>2, <2>4, <3>1, AppendFacts
    <3>3. Shape'
      BY <2>1, <2>2, <2>3, <3>2 DEF FlowInv, Shape
    <3>4. Order'
      BY <2>1, <2>2, <3>2 DEF FlowInv, Order, Before
    <3>5. Account'
      BY <2>1, <2>2, <2>4, <3>2 DEF FlowInv, Account
    <3> QED
      BY <3>3, <3>4, <3>5 DEF FlowInv
  <2>5. CASE daemonQueue' = daemonQueue /\ discarded' = discarded \cup {Head(inbox)}
    <3>1. Shape'
      BY <2>1, <2>2, <2>3, <2>5 DEF FlowInv, Shape
    <3>2. Order'
      BY <2>1, <2>2, <2>5 DEF FlowInv, Order, Before
    <3>3. Account'
      BY <2>1, <2>2, <2>5 DEF FlowInv, Account
    <3> QED
      BY <3>1, <3>2, <3>3 DEF FlowInv
  <2> QED
    BY <1>4, <2>4, <2>5 DEF RecvPushes
<1> QED
  BY <1>1, <1>2, <1>3, <1>4 DEF RecvStep

\* SilogDaemonWriteThreadFunc
LEMMA WriterHolds ==
    ASSUME FlowInv, wpc \in {"write", "broadcast"}
    PROVE  writing[1] \in Nat /\ SetOf(writing) = {writing[1]}
  BY LoneElement DEF FlowInv, Shape

LEMMA WriteKeepsFlow ==
    ASSUME FlowInv, LifeInv, WriteStep, UNCHANGED loggerVars
    PROVE  FlowInv'
<1> USE DEF threadVars, resourceVars, dataVars, ipcVars, loggerVars
<1>1. CASE WriteChecks \/ (WritePops /\ daemonQueue = << >>)
  <2>1. /\ UNCHANGED flowVars /\ UNCHANGED <<spc, once, sendFd, queueAlive, server>>
        /\ wpc \in {"check", "pop"} /\ wpc' \in {"check", "pop", "exited"}
    BY <1>1 DEF WriteChecks, WritePops, flowVars
  <2>2. Shape'
    BY <2>1 DEF FlowInv, Shape, flowVars
  <2> QED
    BY <2>1, <2>2, PlacesOnly
<1>2. CASE WritePops /\ daemonQueue # << >>
  <2>1. /\ writing' = <<Head(daemonQueue)>> /\ daemonQueue' = Tail(daemonQueue)
        /\ wpc = "pop" /\ wpc' = "write"
        /\ UNCHANGED <<logged, written, broadcast, inbox, logQueue, sending, unsent, discarded,
                        spc, once, sendFd, queueAlive, server>>
    BY <1>2 DEF WritePops
  <2>2. writing = << >> /\ SetOf(writing) = {} /\ queueAlive # FALSE
    BY <1>2, <2>1, EmptySet DEF FlowInv, Shape
  <2>3. /\ Head(daemonQueue) \in Nat /\ daemonQueue' \in Seq(Nat) /\ Increasing(daemonQueue')
        /\ SetOf(daemonQueue) = {Head(daemonQueue)} \cup SetOf(daemonQueue')
        /\ Before({Head(daemonQueue)}, SetOf(daemonQueue'))
    BY <1>2, <2>1, HeadTailFacts DEF FlowInv, Shape, Order
  <2>4. writing' \in Seq(Nat) /\ Len(writing') = 1 /\ SetOf(writing') = {Head(daemonQueue)}
    <3>1. PICK h \in Nat : h = Head(daemonQueue)
      BY <2>3
    <3> QED
      BY <2>1, <3>1, OneSet
  <2>5. Shape'
    <3>1. queueAlive' = FALSE => daemonQueue' = << >>
      BY <2>1, <2>2
    <3> QED
      BY <2>1, <2>3, <2>4, <3>1 DEF FlowInv, Shape
  <2>6. Order'
    <3>1. /\ Before(SetOf(written), {Head(daemonQueue)}) /\ Before(SetOf(broadcast), {Head(daemonQueue)})
          /\ Before({Head(daemonQueue)}, SetOf(inbox) \cup SetOf(sending) \cup SetOf(logQueue))
      BY <2>3 DEF FlowInv, Order, Before
    <3>2. /\ Before(SetOf(writing'), SetOf(daemonQueue') \cup SetOf(inbox')
                                     \cup SetOf(sending') \cup SetOf(logQueue'))
          /\ Before(SetOf(written'), SetOf(writing')) /\ Before(SetOf(broadcast'), SetOf(writing'))
      BY <2>1, <2>3, <2>4, <3>1 DEF Before
    <3>3. /\ SetOf(daemonQueue') \subseteq SetOf(daemonQueue)
          /\ SetOf(writing') \cup SetOf(daemonQueue') = SetOf(writing) \cup SetOf(daemonQueue)
      BY <2>2, <2>3, <2>4
    <3>4. Before(SetOf(broadcast'), SetOf(writing') \cup SetOf(daemonQueue') \cup SetOf(inbox')
                                    \cup SetOf(sending') \cup SetOf(logQueue'))
      BY <2>1, <3>3 DEF FlowInv, Order
    <3>5. \A t : Before(SetOf(daemonQueue), t) => Before(SetOf(daemonQueue'), t)
      BY <3>3 DEF Before
    <3>6. Before(SetOf(written'), SetOf(daemonQueue') \cup SetOf(inbox')
                                  \cup SetOf(sending') \cup SetOf(logQueue'))
      BY <2>1, <3>3 DEF FlowInv, Order, Before
    <3> QED
      BY <2>1, <2>3, <3>2, <3>4, <3>5, <3>6 DEF FlowInv, Order
  <2>7. Account'
    BY <2>1, <2>2, <2>3, <2>4 DEF FlowInv, Account
  <2> QED
    BY <2>5, <2>6, <2>7 DEF FlowInv
<1>3. CASE WriteWrites
  <2>1. /\ wpc = "write" /\ wpc' = "broadcast"
        /\ UNCHANGED <<logged, broadcast, daemonQueue, inbox, logQueue, writing, sending, unsent,
                        spc, once, sendFd, queueAlive, server>>
    BY <1>3 DEF WriteWrites
  <2>2. writing[1] \in Nat /\ SetOf(writing) = {writing[1]}
    BY <2>1, WriterHolds
  <2>3. CASE written' = Append(written, writing[1]) /\ discarded' = discarded
    <3>1. written \in Seq(Nat) /\ Increasing(written) /\ Before(SetOf(written), {writing[1]})
      BY <2>1, <2>2 DEF FlowInv, Shape, Order
    <3>2. /\ written' \in Seq(Nat) /\ Increasing(written')
          /\ SetOf(written') = SetOf(written) \cup SetOf(writing)
      BY <2>2, <2>3, <3>1, AppendFacts
    <3>3. Shape'
      BY <2>1, <3>2 DEF FlowInv, Shape
    <3>4. Order'
      BY <2>1, <3>2 DEF FlowInv, Order, Before
    <3>5. Account'
      BY <2>1, <2>3, <3>2 DEF FlowInv, Account
    <3> QED
      BY <3>3, <3>4, <3>5 DEF FlowInv
  <2>4. CASE written' = written /\ discarded' = discarded \cup {writing[1]}
    <3>1. Shape'
      BY <2>1, <2>4 DEF FlowInv, Shape
    <3>2. Order'
      BY <2>1, <2>4 DEF FlowInv, Order
    <3>3. Account'
      BY <2>1, <2>2, <2>4 DEF FlowInv, Account
    <3> QED
      BY <3>1, <3>2, <3>3 DEF FlowInv
  <2> QED
    BY <1>3, <2>3, <2>4 DEF WriteWrites
<1>4. CASE WriteBroadcasts
  <2>1. /\ wpc = "broadcast" /\ wpc' = "check" /\ writing' = << >> /\ SetOf(writing') = {}
        /\ UNCHANGED <<logged, written, daemonQueue, inbox, logQueue, sending, unsent, discarded,
                        spc, once, sendFd, queueAlive, server>>
    BY <1>4, EmptySet DEF WriteBroadcasts
  <2>2. writing[1] \in Nat /\ SetOf(writing) = {writing[1]}
    BY <2>1, WriterHolds
  <2>3. broadcast \in Seq(Nat) /\ Increasing(broadcast) /\ Before(SetOf(broadcast), {writing[1]})
    BY <2>2 DEF FlowInv, Shape, Order, Before
  <2>4. /\ broadcast' \in Seq(Nat) /\ Increasing(broadcast')
        /\ SetOf(broadcast') \subseteq SetOf(broadcast) \cup SetOf(writing)
    BY <1>4, <2>2, <2>3, AppendFacts DEF WriteBroadcasts
  <2>5. Shape'
    BY <2>1, <2>4 DEF FlowInv, Shape
  <2>6. Order'
    BY <2>1, <2>4 DEF FlowInv, Order, Before
  <2>7. Account'
    BY <2>1, <2>4 DEF FlowInv, Account
  <2> QED
    BY <2>5, <2>6, <2>7 DEF FlowInv
<1> QED
  BY <1>1, <1>2, <1>3, <1>4 DEF WriteStep

LEMMA FlowStep == LifeInv /\ FlowInv /\ [Next]_vars => FlowInv'
<1> SUFFICES ASSUME LifeInv, FlowInv, [Next]_vars PROVE FlowInv'
  OBVIOUS
<1>1. CASE LoggerNext /\ UNCHANGED daemonVars
  BY <1>1, LogKeepsFlow, SenderKeepsFlow DEF LoggerNext
<1>2. CASE DaemonNext /\ UNCHANGED loggerVars
  <2>1. CASE RemoteExits
    BY <1>2, <2>1, FlowUnchanged
       DEF RemoteExits, resourceVars, dataVars, ipcVars, loggerVars, flowVars, placeVars
  <2> QED
    BY <1>2, <2>1, StartKeepsFlow, StopKeepsFlow, RecvKeepsFlow, WriteKeepsFlow DEF DaemonNext
<1>3. CASE UNCHANGED vars
  BY <1>3, FlowUnchanged DEF vars, daemonVars, threadVars, resourceVars, dataVars, ipcVars,
                             loggerVars, flowVars, placeVars
<1> QED
  BY <1>1, <1>2, <1>3 DEF Next

LEMMA FlowCorrect == Spec => []FlowInv
<1>1. Spec => [](LifeInv /\ FlowInv)
  BY LifeStart, FlowStart, LifeStep, FlowStep, PTL DEF Spec
<1> QED
  BY <1>1, PTL

-----------------------------------------------------------------------------
\* What the write thread holds and has not written yet.
LEMMA HeldFacts ==
    ASSUME FlowInv, NEW w, w = IF wpc = "write" THEN writing ELSE << >>
    PROVE  /\ w \in Seq(Nat) /\ Increasing(w)
           /\ SetOf(w) \subseteq SetOf(writing)
           /\ wpc = "write" => SetOf(w) = SetOf(writing)
           /\ Before(SetOf(written), SetOf(w))
<1>1. CASE wpc = "write"
  <2>1. w = writing /\ w \in Seq(Nat) /\ Len(w) = 1
    BY <1>1 DEF FlowInv, Shape
  <2>2. Increasing(w)
    BY <2>1 DEF Increasing
  <2> QED
    BY <1>1, <2>1, <2>2 DEF FlowInv, Order
<1>2. CASE wpc # "write"
  BY <1>2, EmptySet DEF Increasing, Before
<1> QED
  BY <1>1, <1>2

\* Stage by stage from the end: the entries in flight are the stages' entries,
\* in order, and after those of the log file.
LEMMA InFlightFacts ==
    ASSUME FlowInv
    PROVE  /\ Increasing(written \o InFlight)
           /\ \E w \in Seq(Nat) :
                  /\ w = IF wpc = "write" THEN writing ELSE << >>
                  /\ SetOf(InFlight) = SetOf(w) \cup SetOf(daemonQueue) \cup SetOf(inbox)
                                        \cup SetOf(sending) \cup SetOf(logQueue)
<1> DEFINE w == IF wpc = "write" THEN writing ELSE << >>
           q == w \o daemonQueue
           r == q \o inbox
           t == r \o sending
<1>1. /\ w \in Seq(Nat) /\ Increasing(w) /\ SetOf(w) \subseteq SetOf(writing)
      /\ Before(SetOf(written), SetOf(w))
  BY HeldFacts
<1> HIDE DEF w
<1>2. q \in Seq(Nat) /\ Increasing(q) /\ SetOf(q) = SetOf(w) \cup SetOf(daemonQueue)
  <2>1. Before(SetOf(w), SetOf(daemonQueue))
    BY <1>1 DEF FlowInv, Order, Before
  <2> QED
    BY <1>1, <2>1, ConcatFacts DEF FlowInv, Shape, Order
<1> HIDE DEF q
<1>3. r \in Seq(Nat) /\ Increasing(r) /\ SetOf(r) = SetOf(q) \cup SetOf(inbox)
  <2>1. Before(SetOf(q), SetOf(inbox))
    BY <1>1, <1>2 DEF FlowInv, Order, Before
  <2> QED
    BY <1>2, <2>1, ConcatFacts DEF FlowInv, Shape, Order
<1> HIDE DEF r
<1>4. t \in Seq(Nat) /\ Increasing(t) /\ SetOf(t) = SetOf(r) \cup SetOf(sending)
  <2>1. Before(SetOf(r), SetOf(sending))
    BY <1>1, <1>2, <1>3 DEF FlowInv, Order, Before
  <2>2. sending \in Seq(Nat) /\ Increasing(sending)
    BY DEF FlowInv, Shape, Increasing
  <2> QED
    BY <1>3, <2>1, <2>2, ConcatFacts
<1> HIDE DEF t
<1>5. InFlight = t \o logQueue
  BY DEF InFlight, t, r, q, w
<1>6. InFlight \in Seq(Nat) /\ Increasing(InFlight) /\ SetOf(InFlight) = SetOf(t) \cup SetOf(logQueue)
  <2>1. Before(SetOf(t), SetOf(logQueue))
    BY <1>1, <1>2, <1>3, <1>4 DEF FlowInv, Order, Before
  <2> QED
    BY <1>4, <1>5, <2>1, ConcatFacts DEF FlowInv, Shape, Order
<1>7. Before(SetOf(written), SetOf(InFlight))
  BY <1>1, <1>2, <1>3, <1>4, <1>6 DEF FlowInv, Order, Before
<1>8. Increasing(written \o InFlight)
  BY <1>6, <1>7, ConcatFacts DEF FlowInv, Shape, Order
<1>9. w = IF wpc = "write" THEN writing ELSE << >>
  BY DEF w
<1> QED
  BY <1>1, <1>2, <1>3, <1>4, <1>6, <1>8, <1>9

(***************************************************************************)
(* Queues, the retry after a reconnection, restarts and deaths of the      *)
(* daemon never reorder or double an entry on its way from silogLog to the *)
(* log file and to SilogRemoteBroadcast.                                   *)
(***************************************************************************)
THEOREM EntriesStayInOrder == Spec => []PipelineOrder
<1>1. FlowInv => PipelineOrder
  BY InFlightFacts DEF PipelineOrder, FlowInv, Order
<1> QED
  BY <1>1, FlowCorrect, PTL

(***************************************************************************)
(* Every entry that silogLog has taken is in the log file, on its way, or  *)
(* was given up at one of the places that count it: none vanishes between  *)
(* two threads, two queues or two starts of the daemon.                    *)
(***************************************************************************)
THEOREM EntriesAreAccountedFor == Spec => []PipelineConserves
<1>1. ASSUME FlowInv PROVE PipelineConserves
  <2>1. PICK w \in Seq(Nat) :
            /\ w = IF wpc = "write" THEN writing ELSE << >>
            /\ SetOf(InFlight) = SetOf(w) \cup SetOf(daemonQueue) \cup SetOf(inbox)
                                  \cup SetOf(sending) \cup SetOf(logQueue)
    BY <1>1, InFlightFacts
  <2>2. /\ SetOf(w) \subseteq SetOf(writing)
        /\ SetOf(writing) \subseteq SetOf(w) \cup SetOf(written) \cup discarded
    <3>1. CASE wpc = "write"
      BY <2>1, <3>1
    <3>2. CASE wpc = "broadcast"
      BY <1>1, <2>1, <3>2, EmptySet DEF FlowInv, Account
    <3>3. CASE wpc \notin {"write", "broadcast"}
      BY <1>1, <2>1, <3>3, EmptySet DEF FlowInv, Shape
    <3> QED
      BY <3>1, <3>2, <3>3
  <2> QED
    BY <1>1, <2>1, <2>2 DEF FlowInv, Account, PipelineConserves
<1> QED
  BY <1>1, FlowCorrect, PTL
=============================================================================
