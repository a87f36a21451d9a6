--------------------------- MODULE MpscRefinement ---------------------------
(***************************************************************************)
(* Mpsc implements BoundedFifo, for every set of producers, every capacity *)
(* of at least two slots, every word size and every number of pushes: each *)
(* step of the ring is a step of the atomic queue, or none.  A push takes  *)
(* effect when it claims a position with room, or else when it loads       *)
(* readPos; a pop when it advances readPos.                                *)
(***************************************************************************)
EXTENDS MpscProofs, SequenceTheorems

-----------------------------------------------------------------------------
(* Suffixes of a sequence.                                                 *)

LEMMA Suffix ==
    ASSUME NEW S, NEW s \in Seq(S), NEW n \in 0 .. Len(s)
    PROVE  /\ SubSeq(s, n + 1, Len(s)) \in Seq(S)
           /\ Len(SubSeq(s, n + 1, Len(s))) = Len(s) - n
           /\ \A i \in 1 .. Len(s) - n : SubSeq(s, n + 1, Len(s))[i] = s[n + i]
  OBVIOUS

LEMMA SuffixAppend ==
    ASSUME NEW S, NEW s \in Seq(S), NEW e \in S, NEW n \in 0 .. Len(s)
    PROVE  SubSeq(Append(s, e), n + 1, Len(Append(s, e))) = Append(SubSeq(s, n + 1, Len(s)), e)
  <1> DEFINE t == Append(s, e)
             a == SubSeq(t, n + 1, Len(t))
             b == SubSeq(s, n + 1, Len(s))
  <1>1. /\ t \in Seq(S) /\ Len(t) = Len(s) + 1 /\ Len(s) \in Nat
        /\ t[Len(s) + 1] = e /\ \A i \in 1 .. Len(s) : t[i] = s[i]
    BY AppendProperties, LenProperties
  <1> HIDE DEF t
  <1>2. n \in 0 .. Len(t)
    BY <1>1
  <1>3. /\ a \in Seq(S) /\ Len(a) = Len(s) + 1 - n
        /\ \A i \in 1 .. Len(s) + 1 - n : a[i] = t[n + i]
    BY <1>1, <1>2, Suffix
  <1>4. /\ b \in Seq(S) /\ Len(b) = Len(s) - n
        /\ \A i \in 1 .. Len(s) - n : b[i] = s[n + i]
    BY Suffix
  <1> HIDE DEF a, b
  <1>5. /\ Append(b, e) \in Seq(S) /\ Len(Append(b, e)) = Len(s) + 1 - n
        /\ Append(b, e)[Len(s) - n + 1] = e
        /\ \A i \in 1 .. Len(s) - n : Append(b, e)[i] = s[n + i]
    BY <1>1, <1>4, AppendProperties
  <1>6. ASSUME NEW i \in 1 .. Len(a) PROVE a[i] = Append(b, e)[i]
    <2>1. CASE i = Len(s) - n + 1
      BY <1>1, <1>3, <1>5, <2>1
    <2>2. CASE i # Len(s) - n + 1
      <3>1. i \in 1 .. Len(s) - n /\ n + i \in 1 .. Len(s) /\ i \in 1 .. Len(s) + 1 - n
        <4>1. Len(s) \in Nat /\ Len(a) = Len(s) + 1 - n /\ n \in Nat /\ n <= Len(s)
          BY <1>1, <1>3
        <4>2. i \in Int /\ 1 <= i /\ i <= Len(s) + 1 - n
          BY <4>1
        <4> QED
          BY <2>2, <4>1, <4>2
      <3> QED
        BY <1>1, <1>3, <1>5, <3>1
    <2> QED
      BY <2>1, <2>2
  <1>7. a = Append(b, e)
    BY <1>3, <1>5, <1>6, SeqEqual
  <1> QED
    BY <1>7 DEF a, b, t

LEMMA SuffixTail ==
    ASSUME NEW S, NEW s \in Seq(S), NEW n \in 0 .. Len(s) - 1
    PROVE  /\ SubSeq(s, n + 1, Len(s)) # << >>
           /\ Head(SubSeq(s, n + 1, Len(s))) = s[n + 1]
           /\ Tail(SubSeq(s, n + 1, Len(s))) = SubSeq(s, (n + 1) + 1, Len(s))
  <1> DEFINE a == SubSeq(s, n + 1, Len(s))
             b == SubSeq(s, (n + 1) + 1, Len(s))
  <1>1. Len(s) \in Nat /\ n \in 0 .. Len(s) /\ n + 1 \in 0 .. Len(s)
    BY LenProperties
  <1>2. /\ a \in Seq(S) /\ Len(a) = Len(s) - n
        /\ \A i \in 1 .. Len(s) - n : a[i] = s[n + i]
    BY <1>1, Suffix
  <1>3. /\ b \in Seq(S) /\ Len(b) = Len(s) - (n + 1)
        /\ \A i \in 1 .. Len(s) - (n + 1) : b[i] = s[(n + 1) + i]
    BY <1>1, Suffix
  <1> HIDE DEF a, b
  <1>4. a # << >> /\ Head(a) = s[n + 1]
    BY <1>1, <1>2
  <1>5. /\ Tail(a) \in Seq(S) /\ Len(Tail(a)) = Len(a) - 1
        /\ \A i \in 1 .. Len(Tail(a)) : Tail(a)[i] = a[i + 1]
    BY <1>2, <1>4, HeadTailProperties
  <1>6. Len(Tail(a)) = Len(b) /\ \A i \in 1 .. Len(Tail(a)) : Tail(a)[i] = b[i]
    <2>1. Len(Tail(a)) = Len(s) - (n + 1) /\ Len(b) = Len(s) - (n + 1)
      BY <1>1, <1>2, <1>3, <1>5
    <2>2. ASSUME NEW i \in 1 .. Len(s) - (n + 1) PROVE Tail(a)[i] = b[i]
      <3>1. i \in Int /\ i + 1 \in 1 .. Len(s) - n /\ n + (i + 1) = (n + 1) + i
        BY <1>1
      <3> QED
        BY <1>2, <1>3, <1>5, <2>1, <3>1
    <2> QED
      BY <2>1, <2>2
  <1>7. Tail(a) = b
    BY <1>3, <1>5, <1>6, SeqEqual
  <1> QED
    BY <1>4, <1>7 DEF a, b

-----------------------------------------------------------------------------
(* The element of a push that has not taken effect is new to the queue.    *)

Unmet(e) == e \notin refused /\ \A n \in 1 .. Len(accepted) : accepted[n] # e

NewElements ==
    /\ \A p \in Producers, m \in Nat : m > attempts[p] => Unmet(<<p, m>>)
    /\ \A p \in Producers : pc[p] = "claimed" =>
           Elem(p) \notin refused /\ (p \notin granted => Unmet(Elem(p)))

LEMMA NewInit == Init => NewElements
  BY DEF Init, NewElements, Unmet

\* What an element added to the history does to the others
LEMMA UnmetStep ==
    ASSUME TypeInv, NEW e, accepted' = accepted \/ accepted' = Append(accepted, e),
           refused' = refused \/ refused' = refused \cup {e}, NEW f, f # e, Unmet(f)
    PROVE  Unmet(f)'
  <1>1. f \notin refused'
    BY DEF Unmet
  <1>2. \A n \in 1 .. Len(accepted') : accepted'[n] # f
    <2>1. CASE accepted' = accepted
      BY <2>1 DEF Unmet
    <2>2. CASE accepted' = Append(accepted, e)
      <3>1. accepted \in Seq(Elements)
        BY DEF TypeInv, TypeOK
      <3>2. /\ Len(accepted') = Len(accepted) + 1 /\ accepted'[Len(accepted) + 1] = e
            /\ \A n \in 1 .. Len(accepted) : accepted'[n] = accepted[n]
        BY <2>2, <3>1
      <3> QED
        BY <3>1, <3>2 DEF Unmet
    <2> QED
      BY <2>1, <2>2
  <1> QED
    BY <1>1, <1>2 DEF Unmet

LEMMA NewClaim ==
    ASSUME TypeInv, NewElements, NEW p \in Producers, PushClaim(p)
    PROVE  NewElements'
  <1>e. PICK e : e = <<p, attempts[p] + 1>>
    OBVIOUS
  <1>1. /\ attempts \in [Producers -> Nat] /\ pc \in [Producers -> Labels] /\ granted \subseteq Producers
        /\ attempts' = [attempts EXCEPT ![p] = @ + 1] /\ pc' = [pc EXCEPT ![p] = "claimed"]
        /\ refused' = refused
    BY DEF TypeInv, TypeOK, PushClaim, Goto, Labels
  <1>2. /\ accepted' = accepted \/ accepted' = Append(accepted, e)
        /\ p \notin granted' => accepted' = accepted
        /\ \A q \in Producers : q # p => (q \in granted' <=> q \in granted)
    BY <1>e DEF PushClaim
  <1>3. Unmet(e)
    BY <1>1, <1>e DEF NewElements
  <1>4. ASSUME NEW q \in Producers, NEW m \in Nat, m > attempts'[q] PROVE Unmet(<<q, m>>)'
    <2>1. m > attempts[q] /\ <<q, m>> # e
      BY <1>1, <1>4, <1>e
    <2>2. Unmet(<<q, m>>)
      BY <2>1 DEF NewElements
    <2> QED
      BY <1>1, <1>2, <2>1, <2>2, UnmetStep
  <1>5. Elem(p)' = e
    BY <1>1, <1>e DEF Elem
  <1>6. e \notin refused' /\ (p \notin granted' => Unmet(e)')
    BY <1>1, <1>2, <1>3 DEF Unmet
  <1>7. ASSUME NEW q \in Producers, q # p, pc'[q] = "claimed"
        PROVE  Elem(q)' \notin refused' /\ (q \notin granted' => Unmet(Elem(q))')
    <2>1. pc[q] = "claimed" /\ Elem(q)' = Elem(q) /\ Elem(q) # e
      BY <1>1, <1>7, <1>e DEF Elem
    <2>2. Elem(q) \notin refused /\ (q \notin granted => Unmet(Elem(q)))
      BY <2>1 DEF NewElements
    <2>3. ASSUME q \notin granted' PROVE Unmet(Elem(q))'
      <3>1. Unmet(Elem(q))
        BY <1>2, <1>7, <2>2, <2>3
      <3>2. \A f : f = Elem(q) => Unmet(f)'
        BY <1>1, <1>2, <2>1, <3>1, UnmetStep
      <3> QED
        BY <2>1, <3>2 DEF Unmet
    <2> QED
      BY <1>1, <2>1, <2>2, <2>3
  <1>8. Elem(p)' \notin refused' /\ (p \notin granted' => Unmet(Elem(p))')
    BY <1>5, <1>6 DEF Unmet
  <1> QED
    BY <1>4, <1>7, <1>8 DEF NewElements

LEMMA NewSettle ==
    ASSUME TypeInv, NewElements, NEW p \in Producers, PushFull(p) \/ PushAdmit(p)
    PROVE  NewElements'
  <1>e. PICK e : e = Elem(p)
    OBVIOUS
  <1>1. /\ attempts \in [Producers -> Nat] /\ pc \in [Producers -> Labels]
        /\ pc' \in [Producers -> Labels] /\ pc'[p] # "claimed"
        /\ \A q \in Producers : pc'[q] = "claimed" => q # p /\ pc[q] = "claimed"
        /\ attempts' = attempts /\ granted' = granted
    <2>1. attempts \in [Producers -> Nat] /\ pc \in [Producers -> Labels]
      BY DEF TypeInv, TypeOK, Labels
    <2>2. UNCHANGED <<attempts, granted>>
      BY DEF PushFull, PushAdmit
    <2>3. PICK label \in Labels \ {"claimed"} : pc' = [pc EXCEPT ![p] = label]
      BY DEF PushFull, PushAdmit, Goto, Labels
    <2> QED
      BY <2>1, <2>2, <2>3
  <1>2. /\ accepted' = accepted \/ accepted' = Append(accepted, e)
        /\ refused' = refused \/ refused' = refused \cup {e}
    BY <1>e, Zenon DEF PushFull, PushAdmit
  <1>3. ASSUME NEW q \in Producers, NEW m \in Nat, m > attempts'[q] PROVE Unmet(<<q, m>>)'
    <2>1. m > attempts[q] /\ <<q, m>> # e
      BY <1>1, <1>3, <1>e DEF Elem
    <2>2. Unmet(<<q, m>>)
      BY <2>1 DEF NewElements
    <2> QED
      BY <1>2, <2>1, <2>2, UnmetStep
  <1>4. ASSUME NEW q \in Producers, pc'[q] = "claimed"
        PROVE  Elem(q)' \notin refused' /\ (q \notin granted' => Unmet(Elem(q))')
    <2>f. PICK f : f = Elem(q)
      OBVIOUS
    <2>1. pc[q] = "claimed" /\ Elem(q)' = f /\ f # e
      BY <1>1, <1>4, <1>e, <2>f DEF Elem
    <2>2. f \notin refused /\ (q \notin granted => Unmet(f))
      BY <2>1, <2>f DEF NewElements
    <2>3. q \notin granted => Unmet(f)'
      BY <1>2, <2>1, <2>2, UnmetStep
    <2> QED
      BY <1>1, <1>2, <2>1, <2>2, <2>3 DEF Unmet
  <1> QED
    BY <1>3, <1>4 DEF NewElements

LEMMA NewStep ==
    ASSUME TypeInv, NewElements, [Next]_vars
    PROVE  NewElements'
  <1>0. attempts \in [Producers -> Nat] /\ pc \in [Producers -> Labels] /\ accepted \in Seq(Elements)
    BY DEF TypeInv, TypeOK, Labels
  <1>1. CASE QueueInit \/ QueueDestroy
    <2>1. Len(accepted') = 0 /\ UNCHANGED <<refused, attempts, pc>> /\ \A q \in Producers : pc[q] = "idle"
      BY <1>1 DEF QueueInit, QueueDestroy, Idle, local
    <2> QED
      BY <2>1 DEF NewElements, Unmet
  <1>2. ASSUME NEW p \in Producers, PushNotInit(p) PROVE NewElements'
    <2>1. /\ attempts' = [attempts EXCEPT ![p] = @ + 1] /\ pc[p] = "idle"
          /\ UNCHANGED <<refused, accepted, granted, pc>>
      BY <1>2 DEF PushNotInit, history
    <2>2. \A q \in Producers, m \in Nat : m > attempts'[q] => m > attempts[q]
      BY <1>0, <2>1
    <2>3. \A q \in Producers : pc[q] = "claimed" => Elem(q)' = Elem(q)
      BY <1>0, <2>1 DEF Elem
    <2> QED
      BY <2>1, <2>2, <2>3 DEF NewElements, Unmet
  <1>3. CASE /\ UNCHANGED <<refused, accepted, granted, attempts>>
             /\ \A q \in Producers : pc'[q] = "claimed" => pc[q] = "claimed"
    BY <1>3 DEF NewElements, Unmet, Elem
  <1>4. ASSUME NEW p \in Producers, NEW label \in Labels \ {"claimed"}, Goto(p, label)
        PROVE  \A q \in Producers : pc'[q] = "claimed" => pc[q] = "claimed"
    BY <1>0, <1>4 DEF Goto
  <1>5. ASSUME NEW p \in Producers, PushStep(p) PROVE NewElements'
    <2>1. CASE PushFull(p) \/ PushAdmit(p)
      BY <2>1, NewSettle
    <2>2. CASE PushRollback(p) \/ PushReserve(p) \/ PushBreak(p) \/ PushCopyBegin(p) \/ PushCopyEnd(p)
               \/ PushPublish(p)
      <3>1. UNCHANGED <<refused, accepted, granted, attempts>>
        BY <2>2 DEF PushRollback, PushReserve, PushBreak, PushCopyBegin, PushCopyEnd, PushPublish, history
      <3>2. \E label \in Labels \ {"claimed"} : Goto(p, label)
        BY <2>2 DEF PushRollback, PushReserve, PushBreak, PushCopyBegin, PushCopyEnd, PushPublish, Labels
      <3> QED
        BY <1>3, <1>4, <3>1, <3>2
    <2> QED
      BY <1>5, <2>1, <2>2 DEF PushStep
  <1>6. CASE PopStep \/ UNCHANGED vars
    <2>1. UNCHANGED <<refused, accepted, granted, attempts, pc>>
      BY <1>6 DEF PopStep, PopReady, PopCopyBegin, PopCopyEnd, PopRelease, PopAdvance, history, vars, local
    <2> QED
      BY <1>3, <2>1
  <1> QED
    BY <1>1, <1>2, <1>5, <1>6, NewClaim DEF Next

-----------------------------------------------------------------------------
(* Steps of the ring as steps of the bounded FIFO.                         *)

LEMMA PendingFacts ==
    ASSUME TypeInv, FifoDelivery
    PROVE  /\ accepted \in Seq(Elements) /\ Len(accepted) \in Nat
           /\ Len(delivered) \in 0 .. Len(accepted)
           /\ Pending \in Seq(Elements) /\ Len(Pending) = TailPos - HeadPos
           /\ \A i \in 1 .. Len(Pending) : Pending[i] = accepted[HeadPos + i] /\ HeadPos + i \in 1 .. Len(accepted)
  <1>1. accepted \in Seq(Elements) /\ delivered \in Seq(Elements \cup {Torn})
    BY DEF TypeInv, TypeOK
  <1>2. Len(accepted) \in Nat /\ Len(delivered) \in 0 .. Len(accepted)
    BY <1>1 DEF FifoDelivery
  <1>3. /\ Pending \in Seq(Elements) /\ Len(Pending) = Len(accepted) - Len(delivered)
        /\ \A i \in 1 .. Len(accepted) - Len(delivered) : Pending[i] = accepted[Len(delivered) + i]
    BY <1>1, <1>2, Suffix DEF Pending
  <1> QED
    BY <1>1, <1>2, <1>3 DEF HeadPos, TailPos

LEMMA UnmetIsFresh ==
    ASSUME TypeInv, FifoDelivery, NEW e, Unmet(e)
    PROVE  Fifo!Fresh(e)
  <1>1. delivered \in Seq(Elements \cup {Torn})
    BY DEF TypeInv, TypeOK
  <1>2. e \notin Range(delivered)
    <2>1. DOMAIN delivered = 1 .. Len(delivered)
      BY <1>1
    <2>2. \A n \in 1 .. Len(delivered) : delivered[n] = accepted[n] /\ n \in 1 .. Len(accepted)
      BY PendingFacts DEF FifoDelivery
    <2> QED
      BY <2>1, <2>2 DEF Range, Unmet
  <1>3. e \notin Range(Pending)
    <2>1. DOMAIN Pending = 1 .. Len(Pending)
      BY PendingFacts, LenProperties
    <2> HIDE DEF Pending
    <2> QED
      BY <2>1, PendingFacts DEF Range, Unmet
  <1> QED
    BY <1>2, <1>3 DEF Fifo!Fresh, Fifo!Range, Range, Unmet

LEMMA Puts ==
    ASSUME TypeInv, FifoDelivery, NEW e \in Elements, Unmet(e), TailPos - HeadPos < Capacity,
           accepted' = Append(accepted, e), UNCHANGED <<delivered, refused>>
    PROVE  Fifo!Put(e)
  <1>1. Fifo!Fresh(e)
    BY UnmetIsFresh
  <1>2. Len(Pending) < Capacity
    BY PendingFacts
  <1>3. Pending' = Append(Pending, e)
    <2>1. Pending' = SubSeq(Append(accepted, e), Len(delivered) + 1, Len(Append(accepted, e)))
      BY DEF Pending
    <2> QED
      BY <2>1, PendingFacts, SuffixAppend DEF Pending
  <1> QED
    BY <1>1, <1>2, <1>3 DEF Fifo!Put

LEMMA Refuses ==
    ASSUME TypeInv, FifoDelivery, NEW e \in Elements, Unmet(e), TailPos - HeadPos = Capacity,
           refused' = refused \cup {e}, UNCHANGED <<accepted, delivered>>
    PROVE  Fifo!Refuse(e)
  <1>1. Fifo!Fresh(e)
    BY UnmetIsFresh
  <1>2. Len(Pending) = Capacity
    BY PendingFacts
  <1>3. Pending' = Pending
    BY DEF Pending
  <1> QED
    BY <1>1, <1>2, <1>3 DEF Fifo!Refuse

LEMMA Takes ==
    ASSUME TypeInv, RingInv, FifoDelivery, PopAdvance
    PROVE  Fifo!Take
  <1>1. out = accepted[HeadPos + 1] /\ HeadPos < TailPos
    BY DEF PopAdvance, RingInv, ConsumerInv, Idle
  <1>2. /\ delivered' = Append(delivered, out) /\ UNCHANGED <<accepted, refused>>
        /\ delivered \in Seq(Elements \cup {Torn}) /\ out \in Elements \cup {Torn}
    BY DEF PopAdvance, TypeInv, TypeOK
  <1>3. Len(delivered') = Len(delivered) + 1
    BY <1>2
  <1>4. Len(delivered) \in 0 .. Len(accepted) - 1
    BY <1>1, PendingFacts DEF HeadPos, TailPos
  <1>5. /\ Pending # << >> /\ Head(Pending) = accepted[Len(delivered) + 1]
        /\ Tail(Pending) = SubSeq(accepted, (Len(delivered) + 1) + 1, Len(accepted))
    BY <1>4, PendingFacts, SuffixTail DEF Pending
  <1>6. Pending' = SubSeq(accepted, (Len(delivered) + 1) + 1, Len(accepted))
    BY <1>2, <1>3 DEF Pending
  <1> QED
    BY <1>1, <1>2, <1>5, <1>6 DEF Fifo!Take, HeadPos

LEMMA Renews ==
    ASSUME accepted' = << >>, delivered' = << >>, UNCHANGED refused
    PROVE  Fifo!Renew
  <1>1. Pending' = << >>
    BY DEF Pending
  <1> QED
    BY <1>1 DEF Fifo!Renew

LEMMA Rests ==
    ASSUME UNCHANGED <<accepted, delivered, refused>>
    PROVE  UNCHANGED Fifo!vars
  BY DEF Fifo!vars, Pending

\* A claim with room puts the element in; a claim without room does nothing yet.
LEMMA ClaimSimulates ==
    ASSUME Disciplined, TypeInv, RingInv, FifoDelivery, NewElements, NEW p \in Producers, PushClaim(p)
    PROVE  [Fifo!Next]_(Fifo!vars)
  <1> USE Lengths, SizesOK
  <1>1. Core
    BY DEF PushClaim, RingInv, Core
  <1>2. \A q \in Producers : ~Refusing(q)
    BY DEF PushClaim, MayClaim, Refusing, Disciplined
  <1>3. writePos = Wrap(TailPos) /\ readPos = Wrap(HeadPos)
        /\ HeadPos <= TailPos /\ TailPos <= HeadPos + Capacity
    BY <1>1, <1>2 DEF Core, CountsInv
  <1>4. Wrap(writePos - readPos) = TailPos - HeadPos
    BY <1>3, Positions DEF PositionFacts
  <1>e. PICK e : e = <<p, attempts[p] + 1>>
    OBVIOUS
  <1>5. e \in Elements /\ attempts[p] + 1 \in Nat /\ attempts[p] + 1 > attempts[p]
    <2>1. attempts[p] \in 0 .. MaxPush /\ attempts[p] < MaxPush /\ MaxPush \in Nat
      BY MpscAssumption DEF PushClaim, TypeInv, TypeOK
    <2>2. attempts[p] + 1 \in 1 .. MaxPush
      BY <2>1
    <2> QED
      BY <1>e, <2>1, <2>2 DEF Elements
  <1>6. Unmet(e)
    BY <1>e, <1>5 DEF NewElements
  <1>7. CASE TailPos - HeadPos < Capacity
    <2>1. accepted' = Append(accepted, e) /\ UNCHANGED <<delivered, refused>>
      BY <1>4, <1>7, <1>e DEF PushClaim
    <2> QED
      BY <1>5, <1>6, <1>7, <2>1, Puts DEF Fifo!Next
  <1>8. CASE ~(TailPos - HeadPos < Capacity)
    <2>1. UNCHANGED <<accepted, delivered, refused>>
      BY <1>4, <1>8 DEF PushClaim
    <2> QED
      BY <2>1, Rests
  <1> QED
    BY <1>7, <1>8

\* The claim that found no room, at its second look: turned away, or put in
\* because a pop has come between.
LEMMA SettleSimulates ==
    ASSUME Disciplined, TypeInv, RingInv, FifoDelivery, NewElements, NEW p \in Producers,
           PushFull(p) \/ PushAdmit(p)
    PROVE  [Fifo!Next]_(Fifo!vars)
  <1> USE Lengths, SizesOK
  <1>e. PICK e : e = Elem(p)
    OBVIOUS
  <1>0. pc[p] = "claimed" /\ Core /\ e \in Elements
    BY <1>e DEF PushFull, PushAdmit, RingInv, Core, Idle, TypeInv, TypeOK, Numbered, Elem, Elements
  <1>1. CASE p \in granted
    <2>1. Owner(p)
      BY <1>0, <1>1 DEF Owner, Refusing
    <2>2. /\ write[p] = Wrap(ticket[p]) /\ readPos = Wrap(HeadPos)
          /\ HeadPos <= ticket[p] /\ ticket[p] < TailPos /\ TailPos <= HeadPos + Capacity
      BY <1>0, <2>1, OwnedSlot, Zenon DEF Core, CountsInv
    <2>3. ticket[p] < HeadPos + Capacity
      BY <2>2, Intervals, Zenon DEF IntervalFacts
    <2>4. Wrap(write[p] - readPos) = ticket[p] - HeadPos
      BY <2>2, <2>3, Positions DEF PositionFacts
    <2>5. PushAdmit(p)
      BY <2>2, <2>3, <2>4 DEF PushFull, SeesFull
    <2> QED
      BY <1>1, <2>5, Rests DEF PushAdmit
  <1>2. CASE p \notin granted
    <2>1. Refusing(p) /\ Unmet(e)
      BY <1>0, <1>2, <1>e DEF Refusing, NewElements
    <2>2. /\ ticket[p] = TailPos /\ write[p] = Wrap(TailPos) /\ readPos = Wrap(HeadPos)
          /\ HeadPos <= TailPos /\ TailPos <= HeadPos + Capacity
      BY <1>0, <2>1 DEF Core, ProducersInv, CountsInv
    <2>3. Wrap(write[p] - readPos) = TailPos - HeadPos
      BY <2>2, Positions DEF PositionFacts
    <2>4. CASE PushFull(p)
      <3>1. TailPos - HeadPos = Capacity
        BY <2>2, <2>3, <2>4 DEF PushFull, SeesFull
      <3>2. refused' = refused \cup {e} /\ UNCHANGED <<accepted, delivered>>
        BY <1>e, <2>4 DEF PushFull
      <3> QED
        BY <1>0, <2>1, <3>1, <3>2, Refuses DEF Fifo!Next
    <2>5. CASE PushAdmit(p)
      <3>1. TailPos - HeadPos < Capacity
        BY <2>2, <2>3, <2>5 DEF PushAdmit, SeesFull
      <3>2. accepted' = Append(accepted, e) /\ UNCHANGED <<delivered, refused>>
        BY <1>2, <1>e, <2>5 DEF PushAdmit
      <3> QED
        BY <1>0, <2>1, <3>1, <3>2, Puts DEF Fifo!Next
    <2> QED
      BY <2>4, <2>5
  <1> QED
    BY <1>1, <1>2

LEMMA StepSimulates ==
    ASSUME Disciplined, TypeInv, RingInv, FifoDelivery, NewElements, [Next]_vars
    PROVE  [Fifo!Next]_(Fifo!vars)
  <1>1. CASE QueueInit \/ QueueDestroy
    BY <1>1, Renews DEF QueueInit, QueueDestroy, Fifo!Next
  <1>2. CASE UNCHANGED <<accepted, delivered, refused>>
    BY <1>2, Rests
  <1>3. CASE UNCHANGED vars \/ \E p \in Producers : PushNotInit(p)
    BY <1>2, <1>3 DEF vars, history, PushNotInit
  <1>4. ASSUME NEW p \in Producers, PushStep(p) PROVE [Fifo!Next]_(Fifo!vars)
    <2>1. CASE PushFull(p) \/ PushAdmit(p)
      BY <2>1, SettleSimulates
    <2>2. CASE ~(PushFull(p) \/ PushAdmit(p))
      BY <1>2, <1>4, <2>2 DEF PushStep, PushRollback, PushReserve, PushBreak, PushCopyBegin, PushCopyEnd,
         PushPublish, history
    <2> QED
      BY <2>1, <2>2
  <1>5. CASE PopStep
    <2>1. CASE PopAdvance
      BY <2>1, Takes DEF Fifo!Next
    <2>2. CASE ~PopAdvance
      BY <1>2, <1>5, <2>2 DEF PopStep, PopReady, PopCopyBegin, PopCopyEnd, PopRelease, history
    <2> QED
      BY <2>1, <2>2
  <1> QED
    BY <1>1, <1>3, <1>4, <1>5, ClaimSimulates DEF Next

\* SilogMpscQueuePush and SilogMpscQueuePop, called by orderly threads, behave
\* as operations of an atomic bounded FIFO: a push puts its element at the end
\* or is refused at an instant at which all slots are taken, a pop takes the
\* first.
THEOREM RingIsFifo ==
    ASSUME Capacity >= 2, Orderly
    PROVE  Spec => Fifo!Safety
  <1>1. Init => Fifo!Init /\ TypeInv /\ RingInv /\ FifoDelivery /\ NewElements
    <2>1. Init => Fifo!Init
      BY DEF Init, Fifo!Init, Pending
    <2> QED
      BY <2>1, TypeInit, RingInit, NewInit DEF Init, FifoDelivery
  <1>2. TypeInv /\ RingInv /\ FifoDelivery /\ NewElements /\ [Next]_vars =>
            (TypeInv /\ RingInv /\ FifoDelivery /\ NewElements)'
    BY TypeStep, RingStep, FifoStep, NewStep DEF Disciplined
  <1>3. TypeInv /\ RingInv /\ FifoDelivery /\ NewElements /\ [Next]_vars => [Fifo!Next]_(Fifo!vars)
    BY StepSimulates DEF Disciplined
  <1> QED
    BY <1>1, <1>2, <1>3, PTL DEF Spec, Fifo!Safety
=============================================================================
