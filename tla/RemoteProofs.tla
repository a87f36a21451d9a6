---------------------------- MODULE RemoteProofs ----------------------------
(***************************************************************************)
(* Proofs about Remote, for any number of viewers, slots and connections:  *)
(* the table of clients agrees with the daemon's descriptors, and a        *)
(* broadcast sends only to the slot it has chosen, although it works       *)
(* without the mutex.                                                      *)
(*                                                                         *)
(* Both rest on the accepting thread and the broadcast changing different  *)
(* slots: the one fills only free slots, the other frees only its own, and *)
(* between the two a descriptor is open until its owner closes it.         *)
(***************************************************************************)
EXTENDS Remote, FiniteSetTheorems, WellFoundedInduction, TLAPS

Sendings == [pc : {"idle", "send"}, slot : Slots, fd : Fds \cup {NoFd}, sent : Nat]

TypeOK ==
    /\ isInit \in BOOLEAN
    /\ slots \in [Slots -> Fds \cup {NoFd}]
    /\ clientCount \in Nat
    /\ fds \in [Fds -> Nat]
    /\ accepted \in Fds \cup {NoFd}
    /\ backlog \in Seq(Nat \ {0})
    /\ bcast \in Sendings
    /\ connections \in Nat

Taken == {slots[s] : s \in Active}

IndInv ==
    /\ TypeOK
    /\ TableConsistent
    /\ accepted \notin Taken
    /\ isInit = FALSE => Active = {} /\ accepted = NoFd /\ bcast.pc = "idle"
    /\ bcast.pc = "send" => slots[bcast.slot] = bcast.fd /\ bcast.fd # NoFd

-----------------------------------------------------------------------------
(* Smallest elements, and a descriptor to accept with.                     *)

LEMMA MinIsMember ==
    ASSUME NEW S \in SUBSET Nat, S # {}
    PROVE  Min(S) \in S
  <1>1. \E x \in S : \A y \in S : <<y, x>> \notin OpToRel(<, Nat)
    BY NatLessThanWellFounded, WFMin, Zenon
  <1>2. PICK x \in S : \A y \in S : <<y, x>> \notin OpToRel(<, Nat)
    BY <1>1, Zenon
  <1>3. \A y \in S : ~(y < x)
    BY <1>2, Zenon DEF OpToRel
  <1>4. \A y \in S : x <= y
    BY <1>3
  <1> QED
    BY <1>4 DEF Min

LEMMA SlotsFinite ==
    /\ Slots \subseteq Nat /\ IsFiniteSet(Slots) /\ Cardinality(Slots) = MaxClients
    /\ Fds \subseteq Nat \ {0} /\ IsFiniteSet(Fds) /\ Cardinality(Fds) = MaxClients + 1
    /\ 0 \in Slots
  <1>1. MaxClients \in Nat \ {0}
    BY RemoteAssumption
  <1>2. IsFiniteSet(0 .. MaxClients - 1) /\ Cardinality(0 .. MaxClients - 1) = MaxClients
    <2>1. 0 \in Int /\ MaxClients - 1 \in Int /\ ~(0 > MaxClients - 1) /\ (MaxClients - 1) - 0 + 1 = MaxClients
      BY <1>1
    <2>2. IsFiniteSet(0 .. MaxClients - 1)
          /\ Cardinality(0 .. MaxClients - 1) = IF 0 > MaxClients - 1 THEN 0 ELSE (MaxClients - 1) - 0 + 1
      BY <2>1, FS_Interval
    <2> QED
      BY <2>1, <2>2
  <1>3. IsFiniteSet(1 .. MaxClients + 1) /\ Cardinality(1 .. MaxClients + 1) = MaxClients + 1
    <2>1. 1 \in Int /\ MaxClients + 1 \in Int /\ ~(1 > MaxClients + 1) /\ (MaxClients + 1) - 1 + 1 = MaxClients + 1
      BY <1>1
    <2>2. IsFiniteSet(1 .. MaxClients + 1)
          /\ Cardinality(1 .. MaxClients + 1) = IF 1 > MaxClients + 1 THEN 0 ELSE (MaxClients + 1) - 1 + 1
      BY <2>1, FS_Interval
    <2> QED
      BY <2>1, <2>2
  <1> QED
    BY <1>1, <1>2, <1>3 DEF Slots, Fds

\* The remote thread holds no other descriptor: one is left for accept.
LEMMA FdLeft ==
    ASSUME IndInv, accepted = NoFd
    PROVE  {g \in Fds : fds[g] = NoConn} # {}
  <1> SUFFICES ASSUME \A g \in Fds : fds[g] # NoConn PROVE FALSE
    OBVIOUS
  <1>1. Fds = Taken
    BY DEF IndInv, TableConsistent, Taken
  <1>2. \A g \in Fds : \E s \in Slots : slots[s] = g
    BY <1>1 DEF Taken, Active
  <1> DEFINE owner == [g \in Fds |-> CHOOSE s \in Slots : slots[s] = g]
  <1>3. owner \in [Fds -> Slots] /\ \A g \in Fds : slots[owner[g]] = g
    BY <1>2
  <1> HIDE DEF owner
  <1>4. Cardinality(Slots) < Cardinality(Fds)
    BY SlotsFinite, RemoteAssumption
  <1>5. \E g, h \in Fds : g # h /\ owner[g] = owner[h]
    <2>1. IsFiniteSet(Fds) /\ IsFiniteSet(Slots) /\ owner \in [Fds -> Slots]
      BY <1>3, SlotsFinite
    <2> QED
      BY <1>4, <2>1, FS_PigeonHole
  <1> QED
    BY <1>3, <1>5

LEMMA InitHolds == Init => IndInv
  <1> SUFFICES ASSUME Init PROVE IndInv
    OBVIOUS
  <1>1. TypeOK
    <2>1. slots \in [Slots -> Fds \cup {NoFd}] /\ fds \in [Fds -> Nat]
      BY DEF Init, NoConn
    <2>2. bcast \in Sendings
      BY SlotsFinite DEF Init, Sendings, Idle
    <2>3. backlog \in Seq(Nat \ {0})
      BY DEF Init
    <2> QED
      BY <2>1, <2>2, <2>3 DEF Init, TypeOK
  <1>2. Active = {} /\ Taken = {}
    BY DEF Init, Active, Taken
  <1>3. TableConsistent
    BY <1>2, FS_EmptySet DEF Init, TableConsistent
  <1> QED
    BY <1>1, <1>2, <1>3 DEF Init, IndInv, Idle

-----------------------------------------------------------------------------
(* The service, and the accepting thread.                                  *)

LEMMA ServiceKeeps == ASSUME IndInv, RemoteInit \/ RemoteDeinit PROVE IndInv'
  <1>1. /\ slots' = [s \in Slots |-> NoFd] /\ clientCount' = 0 /\ isInit' \in BOOLEAN
        /\ UNCHANGED <<accepted, bcast, connections>> /\ bcast.pc = "idle" /\ accepted = NoFd
    <2>1. ~isInit => isInit = FALSE
      BY DEF IndInv, TypeOK
    <2>2. bcast.pc = "idle" /\ accepted = NoFd
      BY <2>1 DEF RemoteInit, RemoteDeinit, IndInv
    <2> QED
      BY <2>2 DEF RemoteInit, RemoteDeinit, viewerVars
  <1>2. Active' = {} /\ Taken' = {}
    BY <1>1 DEF Active, Taken
  <1>3. /\ fds' \in [Fds -> Nat] /\ backlog' \in Seq(Nat \ {0})
        /\ {f \in Fds : fds'[f] # NoConn} = {accepted} \ {NoFd}
    <2>1. CASE RemoteInit
      <3>1. Taken = {}
        BY <2>1 DEF RemoteInit, IndInv, Taken
      <3>2. {f \in Fds : fds[f] # NoConn} = Taken \cup ({accepted} \ {NoFd})
        BY DEF IndInv, TableConsistent, Taken
      <3> QED
        BY <2>1, <3>1, <3>2 DEF RemoteInit, IndInv, TypeOK
    <2>2. CASE RemoteDeinit
      <3>1. accepted = NoFd /\ fds' = [f \in Fds |-> IF f \in Range(slots) THEN NoConn ELSE fds[f]]
        BY <2>2 DEF RemoteDeinit
      <3>2. \A f \in Fds : fds[f] # NoConn => f \in Range(slots)
        <4>1. \A f \in Fds : fds[f] # NoConn => f \in Taken
          BY <3>1 DEF IndInv, TableConsistent, Taken
        <4>2. DOMAIN slots = Slots
          BY DEF IndInv, TypeOK
        <4> QED
          BY <4>1, <4>2 DEF Taken, Active, Range
      <3>3. backlog' = << >>
        BY <2>2 DEF RemoteDeinit
      <3> QED
        BY <3>1, <3>2, <3>3 DEF IndInv, TypeOK, NoConn
    <2> QED
      BY <2>1, <2>2
  <1>4. TypeOK'
    BY <1>1, <1>3 DEF IndInv, TypeOK
  <1>5. TableConsistent'
    BY <1>1, <1>2, <1>3, FS_EmptySet DEF TableConsistent
  <1> QED
    BY <1>1, <1>2, <1>4, <1>5 DEF IndInv

LEMMA AcceptKeeps == ASSUME IndInv, Accept PROVE IndInv'
  <1> DEFINE free == {g \in Fds : fds[g] = NoConn}
  <1>1. /\ accepted = NoFd /\ backlog # << >> /\ backlog' = Tail(backlog)
        /\ fds' = [fds EXCEPT ![Min(free)] = Head(backlog)] /\ accepted' = Min(free)
        /\ UNCHANGED <<isInit, slots, clientCount, bcast, connections>> /\ isInit # FALSE
    BY DEF Accept, viewerVars
  <1>2. Min(free) \in free
    BY <1>1, FdLeft, MinIsMember, SlotsFinite
  <1>f. PICK f : f = Min(free)
    OBVIOUS
  <1>3. f \in Fds /\ fds[f] = NoConn
    BY <1>2, <1>f
  <1> HIDE DEF free
  <1>4. Head(backlog) \in Nat \ {0} /\ Tail(backlog) \in Seq(Nat \ {0})
    BY <1>1 DEF IndInv, TypeOK
  <1>5. TypeOK'
    BY <1>1, <1>3, <1>4, <1>f DEF IndInv, TypeOK
  <1>6. Active' = Active /\ Taken' = Taken
    BY <1>1 DEF Active, Taken
  <1>7. {g \in Fds : fds[g] # NoConn} = Taken /\ NoFd \notin Fds
    BY <1>1, SlotsFinite DEF IndInv, TableConsistent, Taken, NoFd
  <1>8. {g \in Fds : fds'[g] # NoConn} = Taken \cup ({f} \ {NoFd}) /\ f \notin Taken
    <2>1. \A g \in Fds : fds'[g] = IF g = f THEN Head(backlog) ELSE fds[g]
      BY <1>1, <1>f DEF IndInv, TypeOK
    <2> QED
      BY <1>3, <1>4, <1>7, <2>1 DEF NoConn
  <1>9. TableConsistent'
    BY <1>1, <1>6, <1>8, <1>f DEF IndInv, TableConsistent, Taken
  <1> QED
    BY <1>1, <1>5, <1>6, <1>8, <1>9, <1>f DEF IndInv

LEMMA RejectKeeps == ASSUME IndInv, AcceptRejects PROVE IndInv'
  <1>1. /\ accepted # NoFd /\ fds' = [fds EXCEPT ![accepted] = NoConn] /\ accepted' = NoFd
        /\ UNCHANGED <<isInit, slots, clientCount, backlog, bcast, connections>>
    BY DEF AcceptRejects, viewerVars
  <1>2. accepted \in Fds /\ accepted \notin Taken
    BY <1>1 DEF IndInv, TypeOK
  <1>3. TypeOK'
    BY <1>1, <1>2 DEF IndInv, TypeOK, NoConn
  <1>4. Active' = Active /\ Taken' = Taken /\ NoFd \notin Taken
    BY <1>1 DEF Active, Taken
  <1>5. {g \in Fds : fds[g] # NoConn} = Taken \cup {accepted}
    BY <1>1 DEF IndInv, TableConsistent, Taken
  <1>6. {g \in Fds : fds'[g] # NoConn} = Taken
    <2>1. \A g \in Fds : fds'[g] = IF g = accepted THEN NoConn ELSE fds[g]
      BY <1>1 DEF IndInv, TypeOK
    <2> QED
      BY <1>2, <1>5, <2>1
  <1>7. TableConsistent'
    BY <1>1, <1>4, <1>6 DEF IndInv, TableConsistent, Taken
  <1> QED
    BY <1>1, <1>3, <1>4, <1>7 DEF IndInv

LEMMA PlaceKeeps == ASSUME IndInv, AcceptPlaces PROVE IndInv'
  <1> DEFINE new == Min(Slots \ Active)
  <1>1. /\ accepted # NoFd /\ slots' = [slots EXCEPT ![new] = accepted]
        /\ clientCount' = clientCount + 1 /\ accepted' = NoFd /\ Active # Slots
        /\ UNCHANGED <<isInit, fds, backlog, bcast, connections>>
    BY DEF AcceptPlaces, viewerVars
  <1>2. new \in Slots \ Active
    <2>1. Slots \ Active # {} /\ Slots \ Active \in SUBSET Nat
      BY <1>1, SlotsFinite DEF Active
    <2> QED
      BY <2>1, MinIsMember
  <1>n. PICK n \in Slots : n = new
    BY <1>2
  <1> HIDE DEF new
  <1>3. slots \in [Slots -> Fds \cup {NoFd}] /\ slots[n] = NoFd /\ n \notin Active
        /\ slots' = [slots EXCEPT ![n] = accepted] /\ accepted \in Fds /\ accepted \notin Taken
    BY <1>1, <1>2, <1>n DEF IndInv, TypeOK, Active
  <1>4. TypeOK'
    BY <1>1, <1>3 DEF IndInv, TypeOK
  <1>5. \A s \in Slots : slots'[s] = IF s = n THEN accepted ELSE slots[s]
    BY <1>3
  <1>6. Active' = Active \cup {n}
    BY <1>1, <1>3, <1>5 DEF Active
  <1>7. Taken' = Taken \cup {accepted}
    <2>1. \A s \in Active : slots'[s] = slots[s]
      BY <1>3, <1>5 DEF Active
    <2>2. slots'[n] = accepted
      BY <1>5
    <2> QED
      BY <1>6, <2>1, <2>2 DEF Taken
  <1>8. IsFiniteSet(Active) /\ Cardinality(Active) \in Nat
    BY SlotsFinite, FS_Subset, FS_CardinalityType DEF Active
  <1>9. clientCount' = Cardinality(Active')
    <2>1. Cardinality(Active \cup {n}) = Cardinality(Active) + 1
      BY <1>3, <1>8, FS_AddElement
    <2> QED
      BY <1>1, <1>6, <2>1 DEF IndInv, TableConsistent
  <1>10. \A s, t \in Active' : slots'[s] = slots'[t] => s = t
    <2>1. \A s \in Active : slots[s] \in Taken
      BY DEF Taken
    <2>2. \A s, t \in Active : slots[s] = slots[t] => s = t
      BY DEF IndInv, TableConsistent
    <2>3. Active \subseteq Slots
      BY DEF Active
    <2> QED
      BY <1>3, <1>5, <1>6, <2>1, <2>2, <2>3
  <1>11. {f \in Fds : fds'[f] # NoConn} = Taken' \cup ({accepted'} \ {NoFd})
    <2>1. {f \in Fds : fds[f] # NoConn} = Taken \cup ({accepted} \ {NoFd})
      BY DEF IndInv, TableConsistent, Taken
    <2> QED
      BY <1>1, <1>7, <2>1
  <1>12. TableConsistent'
    BY <1>9, <1>10, <1>11 DEF TableConsistent, Taken
  <1>13. bcast.pc = "send" => slots'[bcast.slot] = bcast.fd
    BY <1>3, <1>5 DEF IndInv, TypeOK, Sendings
  <1>14. NoFd \notin Taken'
    BY DEF Taken, Active
  <1>15. isInit = TRUE
    BY <1>1 DEF IndInv, TypeOK
  <1> QED
    BY <1>1, <1>4, <1>12, <1>13, <1>14, <1>15 DEF IndInv

-----------------------------------------------------------------------------
(* The broadcast.                                                          *)

LEMMA AdvanceFacts ==
    ASSUME TypeOK, NEW n \in Nat, AdvanceFrom(n, slots)
    PROVE  /\ bcast' \in Sendings
           /\ bcast'.pc = "send" => /\ bcast'.slot \in Slots /\ bcast'.slot >= n
                                    /\ slots[bcast'.slot] = bcast'.fd /\ bcast'.fd # NoFd
  <1> DEFINE rest == {r \in Slots : r >= n /\ slots[r] # NoFd}
  <1>1. CASE rest = {}
    <2>1. bcast' = Idle
      BY <1>1 DEF AdvanceFrom
    <2> QED
      BY <2>1, SlotsFinite DEF Idle, Sendings
  <1>2. CASE rest # {}
    <2>1. Min(rest) \in rest
      BY <1>2, MinIsMember, SlotsFinite
    <2>2. bcast' = [pc |-> "send", slot |-> Min(rest), fd |-> slots[Min(rest)], sent |-> 0]
      BY <1>2 DEF AdvanceFrom
    <2>r. PICK r : r = Min(rest)
      OBVIOUS
    <2>3. r \in Slots /\ r >= n /\ slots[r] # NoFd /\ slots[r] \in Fds \cup {NoFd}
      BY <2>1, <2>r DEF TypeOK
    <2> HIDE DEF rest
    <2> QED
      BY <2>2, <2>3, <2>r DEF Sendings
  <1> QED
    BY <1>1, <1>2

\* The next slot is chosen, or the broadcast ends; the table stays.
LEMMA AdvanceKeeps ==
    ASSUME IndInv, NEW n \in Nat, AdvanceFrom(n, slots), isInit # FALSE,
           UNCHANGED <<isInit, tableVars, accepted, backlog, connections>>
    PROVE  IndInv'
  <1>1. UNCHANGED <<slots, clientCount, fds>> /\ Active' = Active /\ Taken' = Taken
    BY DEF tableVars, Active, Taken
  <1>2. TypeOK /\ TableConsistent
    BY DEF IndInv
  <1>3. /\ bcast' \in Sendings
        /\ bcast'.pc = "send" => slots[bcast'.slot] = bcast'.fd /\ bcast'.fd # NoFd
    BY <1>2, AdvanceFacts
  <1>4. TypeOK'
    BY <1>1, <1>2, <1>3 DEF TypeOK
  <1>5. TableConsistent'
    BY <1>1, <1>2 DEF TableConsistent
  <1> QED
    BY <1>1, <1>3, <1>4, <1>5 DEF IndInv

LEMMA FailKeeps == ASSUME IndInv, SendFails PROVE IndInv'
  <1>n. PICK n \in Slots : n = bcast.slot
    BY DEF IndInv, TypeOK, Sendings
  <1>f. PICK f \in Fds : f = bcast.fd /\ slots[n] = f /\ f # NoFd
    BY <1>n DEF SendFails, Sending, IndInv, TypeOK, Sendings
  <1>1. /\ fds' = [fds EXCEPT ![f] = NoConn] /\ slots' = [slots EXCEPT ![n] = NoFd]
        /\ clientCount' = IF clientCount > 0 THEN clientCount - 1 ELSE clientCount
        /\ AdvanceFrom(n + 1, slots)
        /\ UNCHANGED <<isInit, accepted, backlog, connections>>
    BY <1>n, <1>f DEF SendFails, CloseClient, viewerVars
  <1>2. TypeOK /\ TableConsistent /\ accepted \notin Taken /\ n + 1 \in Nat /\ isInit # FALSE
    <2>1. n + 1 \in Nat
      BY SlotsFinite
    <2>2. bcast.pc = "send"
      BY DEF SendFails, Sending
    <2> QED
      BY <2>1, <2>2 DEF IndInv
  <1>3. \A s \in Slots : slots'[s] = IF s = n THEN NoFd ELSE slots[s]
    BY <1>1, <1>2 DEF TypeOK
  <1>4. Active' = Active \ {n} /\ n \in Active /\ Active \subseteq Slots
    BY <1>3, <1>f DEF Active
  <1>5. \A s, t \in Active : slots[s] = slots[t] => s = t
    BY <1>2 DEF TableConsistent
  <1>6. Taken' = Taken \ {f} /\ f \in Taken
    <2>1. \A s \in Active' : s \in Active /\ slots'[s] = slots[s] /\ slots[s] # f
      BY <1>3, <1>4, <1>5, <1>f
    <2>2. \A s \in Active : slots[s] # f => s \in Active' /\ slots'[s] = slots[s]
      BY <1>3, <1>4, <1>f
    <2> QED
      BY <1>4, <1>f, <2>1, <2>2 DEF Taken
  <1>7. clientCount' = Cardinality(Active') /\ clientCount' \in Nat
    <2>1. IsFiniteSet(Active) /\ Cardinality(Active) \in Nat
      BY SlotsFinite, FS_Subset, FS_CardinalityType DEF Active
    <2>2. Cardinality(Active \ {n}) = Cardinality(Active) - 1
      BY <1>4, <2>1, FS_RemoveElement
    <2>3. Cardinality(Active) # 0
      BY <1>4, <2>1, FS_EmptySet
    <2>4. clientCount = Cardinality(Active)
      BY <1>2 DEF TableConsistent
    <2> QED
      BY <1>1, <1>4, <2>1, <2>2, <2>3, <2>4
  <1>8. /\ bcast' \in Sendings
        /\ bcast'.pc = "send" => slots'[bcast'.slot] = bcast'.fd /\ bcast'.fd # NoFd
    <2>1. /\ bcast' \in Sendings
          /\ bcast'.pc = "send" => /\ bcast'.slot \in Slots /\ bcast'.slot >= n + 1
                                   /\ slots[bcast'.slot] = bcast'.fd /\ bcast'.fd # NoFd
      BY <1>1, <1>2, AdvanceFacts
    <2>2. ASSUME bcast'.pc = "send" PROVE slots'[bcast'.slot] = slots[bcast'.slot]
      <3>1. n \in Nat /\ bcast'.slot \in Nat /\ bcast'.slot >= n + 1 /\ bcast'.slot \in Slots
        BY <2>1, <2>2, SlotsFinite
      <3>2. bcast'.slot # n
        BY <3>1
      <3> QED
        BY <1>3, <3>1, <3>2
    <2> QED
      BY <2>1, <2>2
  <1>9. TypeOK'
    BY <1>1, <1>2, <1>7, <1>8 DEF TypeOK, NoConn
  <1>10. {g \in Fds : fds'[g] # NoConn} = Taken' \cup ({accepted'} \ {NoFd})
    <2>1. {g \in Fds : fds[g] # NoConn} = Taken \cup ({accepted} \ {NoFd})
      BY <1>2 DEF TableConsistent, Taken
    <2>2. \A g \in Fds : fds'[g] = IF g = f THEN NoConn ELSE fds[g]
      BY <1>1, <1>2 DEF TypeOK
    <2> QED
      BY <1>1, <1>2, <1>6, <2>1, <2>2
  <1>11. \A s, t \in Active' : slots'[s] = slots'[t] => s = t
    BY <1>3, <1>4, <1>5
  <1>12. TableConsistent'
    BY <1>7, <1>10, <1>11 DEF TableConsistent, Taken
  <1> QED
    BY <1>1, <1>2, <1>6, <1>8, <1>9, <1>12 DEF IndInv

LEMMA BroadcastKeeps == ASSUME IndInv, Broadcast \/ BroadcastStep PROVE IndInv'
  <1>0. /\ bcast.pc = "send" => isInit # FALSE
        /\ isInit => isInit # FALSE
        /\ bcast.slot + 1 \in Nat /\ 0 \in Nat
    <2>1. bcast.pc = "send" => isInit # FALSE
      BY DEF IndInv
    <2>2. isInit => isInit # FALSE
      BY DEF IndInv, TypeOK
    <2>3. bcast.slot + 1 \in Nat
      <3>1. bcast.slot \in Slots
        BY DEF IndInv, TypeOK, Sendings
      <3>2. bcast.slot \in Nat
        BY <3>1, SlotsFinite, Zenon
      <3> QED
        BY <3>2
    <2> QED
      BY <2>1, <2>2, <2>3
  <1>1. CASE Broadcast
    <2>1. CASE clientCount = 0
      <3>1. UNCHANGED <<isInit, slots, clientCount, fds, accepted, backlog, bcast, connections>>
        BY <1>1, <2>1 DEF Broadcast, tableVars, viewerVars
      <3> QED
        BY <3>1 DEF IndInv, TypeOK, TableConsistent, Active, Taken
    <2>2. CASE clientCount # 0
      BY <1>0, <1>1, <2>2, AdvanceKeeps DEF Broadcast, viewerVars
    <2> QED
      BY <2>1, <2>2
  <1>2. CASE SendSome
    <2>1. UNCHANGED <<isInit, slots, clientCount, fds, accepted, backlog, connections>>
      BY <1>2 DEF SendSome, tableVars, viewerVars
    <2>2. PICK n \in 1 .. FrameSize - bcast.sent : bcast' = [bcast EXCEPT !.sent = @ + n]
      BY <1>2 DEF SendSome
    <2>3. n \in Nat /\ bcast \in Sendings
      BY RemoteAssumption DEF IndInv, TypeOK, Sendings
    <2>4. bcast' \in Sendings /\ bcast'.pc = bcast.pc /\ bcast'.slot = bcast.slot /\ bcast'.fd = bcast.fd
      BY <2>2, <2>3 DEF Sendings
    <2>5. TypeOK'
      <3>1. TypeOK
        BY DEF IndInv
      <3> QED
        BY <2>1, <2>4, <3>1 DEF TypeOK
    <2>6. TableConsistent' /\ Active' = Active /\ Taken' = Taken
      BY <2>1 DEF IndInv, TableConsistent, Active, Taken
    <2> QED
      BY <2>1, <2>4, <2>5, <2>6 DEF IndInv
  <1>3. CASE SendAgain \/ SendDone
    <2>1. /\ AdvanceFrom(bcast.slot + 1, slots) /\ bcast.pc = "send"
          /\ UNCHANGED <<isInit, tableVars, accepted, backlog, connections>>
      BY <1>3 DEF SendAgain, SendDone, Sending, viewerVars
    <2> QED
      BY <1>0, <2>1, AdvanceKeeps
  <1> QED
    BY <1>1, <1>2, <1>3, FailKeeps DEF BroadcastStep

LEMMA ViewerKeeps == ASSUME IndInv, NEW v \in Viewers, ViewerStep(v) PROVE IndInv'
  <1>1. UNCHANGED <<isInit, slots, clientCount, fds, accepted, bcast>>
    BY DEF ViewerStep, Connect, Receive, ReceiveEnd, ReceiveFails, Quit, tableVars
  <1>2. connections' \in Nat /\ backlog' \in Seq(Nat \ {0})
    <2>1. CASE Connect(v)
      BY <2>1 DEF Connect, IndInv, TypeOK
    <2>2. CASE ~Connect(v)
      <3>1. UNCHANGED <<connections, backlog>>
        BY <2>2 DEF ViewerStep, Receive, ReceiveEnd, ReceiveFails, Quit
      <3> QED
        BY <3>1 DEF IndInv, TypeOK
    <2> QED
      BY <2>1, <2>2
  <1> QED
    BY <1>1, <1>2 DEF IndInv, TypeOK, TableConsistent, Active, Taken

LEMMA IndInvAlways == Spec => []IndInv
  <1>1. IndInv /\ [Next]_vars => IndInv'
    <2> SUFFICES ASSUME IndInv, [Next]_vars PROVE IndInv'
      OBVIOUS
    <2>1. CASE UNCHANGED vars
      BY <2>1 DEF vars, IndInv, TypeOK, TableConsistent, Active, Taken
    <2>2. CASE Next
      BY <2>2, ServiceKeeps, AcceptKeeps, RejectKeeps, PlaceKeeps, BroadcastKeeps, ViewerKeeps
         DEF Next, AcceptStep
    <2> QED
      BY <2>1, <2>2
  <1> QED
    BY InitHolds, <1>1, PTL DEF Spec

\* SilogRemoteAccept, SilogRemoteBroadcast, SilogRemoteInit and
\* SilogRemoteDeinit, in any order that the threads can bring about, keep the
\* table of clients right: clientCount counts the active slots, no descriptor
\* is in two of them, and none is leaked.
THEOREM TableAlwaysConsistent == Spec => []TableConsistent
  <1>1. IndInv => TableConsistent
    BY DEF IndInv
  <1> QED
    BY IndInvAlways, <1>1, PTL

\* SilogRemoteBroadcast, which sends without the mutex to a descriptor that it
\* has read before, sends to the client it has chosen and to no other.
THEOREM SendsToChosenClient == Spec => []SendsToItsSlot
  <1>1. IndInv => SendsToItsSlot
    <2> SUFFICES ASSUME IndInv, bcast.pc = "send" PROVE slots[bcast.slot] = bcast.fd /\ To # NoConn
      BY DEF SendsToItsSlot
    <2>1. bcast.slot \in Slots /\ slots[bcast.slot] = bcast.fd /\ bcast.fd # NoFd
      BY DEF IndInv, TypeOK, Sendings
    <2>2. bcast.fd \in {slots[s] : s \in Active}
      BY <2>1 DEF Active
    <2>3. bcast.fd \in {f \in Fds : fds[f] # NoConn}
      BY <2>2 DEF IndInv, TableConsistent
    <2> QED
      BY <2>1, <2>3 DEF To
  <1> QED
    BY IndInvAlways, <1>1, PTL
=============================================================================
