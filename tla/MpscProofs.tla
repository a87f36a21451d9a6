----------------------------- MODULE MpscProofs -----------------------------
(***************************************************************************)
(* Proofs about module Mpsc for every set of producers, every capacity of  *)
(* at least two slots, every word size and every number of pushes.         *)
(***************************************************************************)
EXTENDS Mpsc, WordArith, TLAPS

-----------------------------------------------------------------------------
(* Facts about positions.  They are all the proofs below use of Wrap and   *)
(* Index.                                                                  *)

LEMMA SizesOK == Capacity \in Nat \ {0} /\ WordSize \in Nat \ {0} /\ Capacity < WordSize
  BY MpscAssumption

LEMMA WordType == ASSUME NEW x \in Int PROVE Wrap(x) \in Words /\ Index(x) \in Slots
  BY DivMod, SizesOK DEF Wrap, Index, Words, Slots

LEMMA IndexOfWord == ASSUME NEW x \in Int PROVE Index(Wrap(x)) = Index(x)
  BY ModNested, SizesOK, MpscAssumption, Zenon DEF Wrap, Index

LEMMA IndexPeriod == ASSUME NEW x \in Int PROVE Index(x + Capacity) = Index(x)
<1>1. \A k \in Int : (x + Capacity * k) % Capacity = x % Capacity
  BY ModMultiple, SizesOK, Zenon
<1>2. Capacity * 1 = Capacity /\ 1 \in Int
  BY SizesOK
<1>3. (x + Capacity * 1) % Capacity = x % Capacity
  BY <1>1, <1>2, Zenon
<1> QED
  BY <1>2, <1>3, Zenon DEF Index

LEMMA IndexDiffer ==
    ASSUME NEW x \in Int, NEW y \in Int, x # y, x - y < Capacity, y - x < Capacity
    PROVE  Index(x) # Index(y)
<1>1. CASE x < y
  BY <1>1, ModDiffer, SizesOK, Zenon DEF Index
<1>2. CASE y < x
  BY <1>2, ModDiffer, SizesOK, Zenon DEF Index
<1> QED
  BY <1>1, <1>2

LEMMA WrapDiffer ==
    ASSUME NEW x \in Int, NEW y \in Int, x < y, y - x < WordSize
    PROVE  Wrap(x) # Wrap(y)
  BY ModDiffer, SizesOK, Zenon DEF Wrap

LEMMA WrapAdd ==
    ASSUME NEW x \in Int, NEW k \in Int
    PROVE  Wrap(Wrap(x) + k) = Wrap(x + k)
  BY ModPlus, SizesOK, Zenon DEF Wrap

LEMMA WrapSub ==
    ASSUME NEW x \in Int, NEW y \in Int, 0 <= x - y, x - y < WordSize
    PROVE  Wrap(Wrap(x) - Wrap(y)) = x - y
<1> DEFINE a == x % WordSize
           b == y % WordSize
<1>1. a \in Int /\ b \in Int
  BY DivMod, SizesOK
<1>2. y = WordSize * (y \div WordSize) + b /\ y \div WordSize \in Int
  BY DivMod, SizesOK
<1>3. (a - b) % WordSize = (x - b) % WordSize
  <2>1. (a + (-b)) % WordSize = (x + (-b)) % WordSize
    <3>1. -b \in Int
      BY <1>1
    <3> QED
      BY <3>1, ModPlus, SizesOK, Zenon
  <2>2. a + (-b) = a - b /\ x + (-b) = x - b
    BY <1>1
  <2> QED
    BY <2>1, <2>2
<1>4. (x - y) + WordSize * (y \div WordSize) = x - b
  <2> DEFINE m == WordSize * (y \div WordSize)
  <2>1. m \in Int /\ y = m + b
    BY <1>2, SizesOK
  <2> HIDE DEF m, b
  <2>2. (x - y) + m = x - b
    BY <2>1, <1>1
  <2> QED
    BY <2>2 DEF m
<1>5. ((x - y) + WordSize * (y \div WordSize)) % WordSize = (x - y) % WordSize
  <2>1. x - y \in Int
    OBVIOUS
  <2> QED
    BY <1>2, <2>1, ModMultiple, SizesOK, Zenon
<1>6. (x - y) % WordSize = x - y
  BY ModSmall, SizesOK
<1> QED
  BY <1>3, <1>4, <1>5, <1>6 DEF Wrap
-----------------------------------------------------------------------------
(* A push under way has a number, so that Elem names an element.           *)
Numbered == \A p \in Producers : pc[p] # "idle" => attempts[p] \in 1..MaxPush

TypeInv == TypeOK /\ Numbered

LEMMA TypeInit == Init => TypeInv
<1>1. 0 \in Words /\ \A i \in Slots : i \in Words
  BY SizesOK DEF Words, Slots
<1>2. <<>> \in Seq(Elements) /\ <<>> \in Seq(Elements \cup {Torn})
  OBVIOUS
<1> SUFFICES ASSUME Init PROVE TypeInv
  OBVIOUS
<1>3. 0 \in 0..MaxPush /\ 0 \in Nat
  BY MpscAssumption
<1>4. /\ live \in BOOLEAN /\ writePos \in Words /\ readPos \in Words
      /\ seq \in [Slots -> Words] /\ buffer \in [Slots -> Elements \cup {Torn}]
      /\ write \in [Producers -> Words] /\ attempts \in [Producers -> 0..MaxPush]
      /\ ticket \in [Producers -> Nat]
  BY <1>1, <1>3, Zenon DEF Init
<1>5. /\ granted \subseteq Producers /\ refused \subseteq Elements
      /\ accepted \in Seq(Elements) /\ delivered \in Seq(Elements \cup {Torn})
      /\ out \in Elements \cup {Torn}
  BY <1>2 DEF Init
<1>6. Numbered
  BY DEF Init, Numbered
<1> QED
  BY <1>4, <1>5, <1>6 DEF Init, TypeInv, TypeOK

LEMMA TypeStep == TypeInv /\ [Next]_vars => TypeInv'
<1> SUFFICES ASSUME TypeInv, [Next]_vars PROVE TypeInv'
  OBVIOUS
<1> USE DEF TypeInv, TypeOK, Numbered
<1>w. /\ \A x \in Words : /\ x \in Int /\ Index(x) \in Slots
                          /\ Wrap(x + 1) \in Words /\ Wrap(x - 1) \in Words
                          /\ Wrap(x + Capacity) \in Words
      /\ \A i \in Slots : i \in Words
      /\ 0 \in Words
  <2>1. ASSUME NEW x \in Words
        PROVE  x \in Int /\ x + 1 \in Int /\ x - 1 \in Int /\ x + Capacity \in Int
    BY SizesOK DEF Words
  <2>2. 0 \in Words /\ \A i \in Slots : i \in Words
    BY SizesOK DEF Words, Slots
  <2> QED
    BY <2>1, <2>2, WordType, Zenon
<1>e. \A p \in Producers : pc[p] # "idle" => Elem(p) \in Elements
  BY DEF Elem, Elements
<1>n. <<>> \in Seq(Elements) /\ <<>> \in Seq(Elements \cup {Torn})
  OBVIOUS
<1>1. CASE QueueInit
  BY <1>1, <1>w, <1>n DEF QueueInit, local
<1>2. CASE QueueDestroy
  BY <1>2, <1>n, Zenon DEF QueueDestroy, local
<1>3. ASSUME NEW p \in Producers, PushNotInit(p) PROVE TypeInv'
  BY <1>3, MpscAssumption DEF PushNotInit, shared, history
<1>4. ASSUME NEW p \in Producers, PushClaim(p) PROVE TypeInv'
  <2>1. <<p, attempts[p] + 1>> \in Elements /\ attempts[p] + 1 \in 1..MaxPush
    BY <1>4, MpscAssumption DEF PushClaim, Elements
  <2>2. accepted' \in Seq(Elements) /\ granted' \subseteq Producers
    <3>1. CASE Wrap(writePos - readPos) < Capacity
      <4> DEFINE e == <<p, attempts[p] + 1>>
      <4>1. accepted' = Append(accepted, e) /\ granted' = granted \cup {p}
        BY <1>4, <3>1 DEF PushClaim
      <4>2. e \in Elements /\ accepted \in Seq(Elements)
        BY <2>1
      <4> HIDE DEF e
      <4> QED
        BY <4>1, <4>2
    <3>2. CASE ~(Wrap(writePos - readPos) < Capacity)
      BY <1>4, <3>2 DEF PushClaim
    <3> QED
      BY <3>1, <3>2
  <2>3. ticket' \in [Producers -> Nat]
    BY <1>4 DEF PushClaim
  <2>4. /\ writePos' \in Words /\ write' \in [Producers -> Words]
        /\ pc' \in [Producers -> {"idle", "claimed", "rollback", "cas", "copy",
                                  "copying", "publish"}]
    BY <1>4, <1>w DEF PushClaim, Goto
  <2>5. /\ attempts' \in [Producers -> 0..MaxPush]
        /\ \A q \in Producers : pc'[q] # "idle" => attempts'[q] >= 1
    BY <1>4, <2>1 DEF PushClaim, Goto
  <2> QED
    BY <1>4, <2>2, <2>3, <2>4, <2>5 DEF PushClaim
<1>5. ASSUME NEW p \in Producers, PushFull(p) PROVE TypeInv'
  BY <1>5, <1>e DEF PushFull, Goto, shared
<1>6. ASSUME NEW p \in Producers, PushAdmit(p) PROVE TypeInv'
  <2>1. accepted' \in Seq(Elements)
    BY <1>6, <1>e DEF PushAdmit
  <2> QED
    BY <1>6, <2>1 DEF PushAdmit, Goto, shared
<1>7. ASSUME NEW p \in Producers, PushRollback(p) PROVE TypeInv'
  BY <1>7, <1>w DEF PushRollback, Goto, history
<1>8. ASSUME NEW p \in Producers, PushReserve(p) PROVE TypeInv'
  BY <1>8, <1>w DEF PushReserve, Goto, history
<1>9. ASSUME NEW p \in Producers, PushBreak(p) PROVE TypeInv'
  BY <1>9 DEF PushBreak, Goto, shared, history
<1>10. ASSUME NEW p \in Producers, PushCopyBegin(p) PROVE TypeInv'
  BY <1>10, Zenon DEF PushCopyBegin, Goto, history
<1>11. ASSUME NEW p \in Producers, PushCopyEnd(p) PROVE TypeInv'
  BY <1>11, <1>e, Zenon DEF PushCopyEnd, Goto, history
<1>12. ASSUME NEW p \in Producers, PushPublish(p) PROVE TypeInv'
  BY <1>12, <1>w DEF PushPublish, Goto, history
<1>13. CASE PopReady
  BY <1>13 DEF PopReady, shared, history
<1>14. CASE PopCopyBegin
  BY <1>14, <1>w DEF PopCopyBegin, shared, history
<1>15. CASE PopCopyEnd
  BY <1>15 DEF PopCopyEnd, shared, history
<1>16. CASE PopRelease
  BY <1>16, <1>w DEF PopRelease, history
<1>17. CASE PopAdvance
  BY <1>17, <1>w DEF PopAdvance
<1>18. CASE UNCHANGED vars
  BY <1>18 DEF vars, shared, local, history
<1> QED
  BY <1>1, <1>2, <1>3, <1>4, <1>5, <1>6, <1>7, <1>8, <1>9, <1>10, <1>11, <1>12,
     <1>13, <1>14, <1>15, <1>16, <1>17, <1>18, Zenon DEF Next, PushStep, PopStep

(* Every variable of silog_mpsc.c keeps its type; in particular positions  *)
(* stay words.  This holds for every discipline.                           *)
THEOREM TypeCorrect == Spec => []TypeOK
<1>1. TypeInv => TypeOK
  BY DEF TypeInv
<1> QED
  BY <1>1, TypeInit, TypeStep, PTL DEF Spec

-----------------------------------------------------------------------------
(* The facts about positions again, as one formula over natural numbers.   *)
PositionFacts ==
    /\ \A x \in Nat : /\ Wrap(x) \in Words /\ Index(x) \in Slots
                      /\ Index(Wrap(x)) = Index(x)
                      /\ Index(x + Capacity) = Index(x)
                      /\ Wrap(Wrap(x) + 1) = Wrap(x + 1)
                      /\ Wrap(Wrap(x) + Capacity) = Wrap(x + Capacity)
                      /\ Wrap(Wrap(x + 1) - 1) = Wrap(x)
    /\ \A x, y \in Nat : x # y /\ x < y + Capacity /\ y < x + Capacity => Index(x) # Index(y)
    /\ \A x, y \in Nat : x < y /\ y < x + WordSize => Wrap(x) # Wrap(y)
    /\ \A x, y \in Nat : y <= x /\ x < y + WordSize => Wrap(Wrap(x) - Wrap(y)) = x - y
    /\ \A k \in Slots : Index(k) = k /\ Wrap(k) = k

LEMMA Positions == PositionFacts
<1>1. ASSUME NEW x \in Nat
      PROVE  /\ Wrap(x) \in Words /\ Index(x) \in Slots
             /\ Index(Wrap(x)) = Index(x)
             /\ Index(x + Capacity) = Index(x)
             /\ Wrap(Wrap(x) + 1) = Wrap(x + 1)
             /\ Wrap(Wrap(x) + Capacity) = Wrap(x + Capacity)
             /\ Wrap(Wrap(x + 1) - 1) = Wrap(x)
  <2>1. x \in Int /\ x + 1 \in Int /\ Capacity \in Int /\ 1 \in Int /\ -1 \in Int
    BY SizesOK
  <2>2. Wrap(Wrap(x + 1) + (-1)) = Wrap((x + 1) + (-1))
    BY <2>1, WrapAdd, Zenon
  <2>3. (x + 1) + (-1) = x
    BY <2>1
  <2>4. Wrap(x + 1) \in Int
    BY <2>1, WordType, SizesOK DEF Words
  <2>5. Wrap(x + 1) + (-1) = Wrap(x + 1) - 1
    BY <2>4
  <2>6. Wrap(Wrap(x + 1) - 1) = Wrap(x)
    BY <2>2, <2>3, <2>5
  <2> QED
    BY <2>1, <2>6, WordType, IndexOfWord, IndexPeriod, WrapAdd
<1>2. ASSUME NEW x \in Nat, NEW y \in Nat, x # y, x < y + Capacity, y < x + Capacity
      PROVE  Index(x) # Index(y)
  BY <1>2, IndexDiffer, SizesOK
<1>3. ASSUME NEW x \in Nat, NEW y \in Nat, x < y, y < x + WordSize
      PROVE  Wrap(x) # Wrap(y)
  BY <1>3, WrapDiffer, SizesOK
<1>4. ASSUME NEW x \in Nat, NEW y \in Nat, y <= x, x < y + WordSize
      PROVE  Wrap(Wrap(x) - Wrap(y)) = x - y
  BY <1>4, WrapSub, SizesOK
<1>5. ASSUME NEW k \in Slots PROVE Index(k) = k /\ Wrap(k) = k
  BY ModSmall, SizesOK DEF Index, Wrap, Slots
<1> QED
  BY <1>1, <1>2, <1>3, <1>4, <1>5 DEF PositionFacts

-----------------------------------------------------------------------------
(* RingInv is inductive when the callers are orderly.                      *)
Labels == {"idle", "claimed", "rollback", "cas", "copy", "copying", "publish"}

Disciplined == Capacity >= 2 /\ Orderly

Core == CountsInv /\ ProducersInv /\ SlotsInv /\ ConsumerInv

LEMMA Lengths ==
    ASSUME TypeInv
    PROVE  HeadPos \in Nat /\ TailPos \in Nat /\ \A p \in Producers : ticket[p] \in Nat
  BY DEF TypeInv, TypeOK, HeadPos, TailPos

(* Intervals of positions, so that a step about the ring needs only an     *)
(* instance of one of these.                                               *)
IntervalFacts ==
    /\ \A h \in Nat : \A k \in h..(h + Capacity - 1) : k \in Nat
    /\ \A h, t, k \in Nat : h <= k /\ k < t /\ t <= h + Capacity =>
          /\ k \in h..(h + Capacity - 1) /\ k < h + Capacity
          /\ k + 1 \in 1..t /\ k < t + 1 /\ k # t
    /\ \A h, t \in Nat : t <= h + Capacity => \A k \in h..(t - 1) : k \in h..(h + Capacity - 1)
    /\ \A h, t \in Nat : \A k \in (t + 1)..(h + Capacity - 1) : k \in t..(h + Capacity - 1)
    /\ \A h, t \in Nat : h <= t /\ ~(t - h >= Capacity) =>
          t < h + Capacity /\ h <= t + 1 /\ t + 1 <= h + Capacity

LEMMA Intervals == IntervalFacts
  BY SizesOK DEF IntervalFacts

LEMMA BeyondTail ==
    ASSUME TypeInv, HeadPos <= TailPos, NEW x \in Nat, x < TailPos,
           NEW k \in TailPos..(HeadPos + Capacity - 1)
    PROVE  k \in HeadPos..(HeadPos + Capacity - 1) /\ k # x
  BY Lengths, SizesOK

LEMMA AcceptedGrows ==
    ASSUME TypeInv, NEW e, accepted' = Append(accepted, e)
    PROVE  /\ TailPos' = TailPos + 1 /\ accepted'[TailPos + 1] = e
           /\ \A n \in 1..TailPos : accepted'[n] = accepted[n]
  BY DEF TypeInv, TypeOK, TailPos

LEMMA RingInit == Init => RingInv
  BY DEF Init, RingInv, Idle

LEMMA OwnedSlot ==
    ASSUME TypeInv, Core, NEW p \in Producers, Owner(p)
    PROVE  /\ write[p] = Wrap(ticket[p]) /\ Index(write[p]) = Index(ticket[p])
           /\ Wrap(write[p] + Capacity) = Wrap(ticket[p] + Capacity)
           /\ Wrap(write[p] + 1) = Wrap(ticket[p] + 1)
           /\ Index(ticket[p]) \in Slots
           /\ HeadPos <= ticket[p] /\ ticket[p] < TailPos /\ TailPos <= HeadPos + Capacity
           /\ Wrap(ticket[p]) # Wrap(ticket[p] + Capacity)
           /\ \A k \in HeadPos..(HeadPos + Capacity - 1) :
                k # ticket[p] => Index(k) # Index(ticket[p])
           /\ \A q \in Producers \ {p} :
                Owner(q) => ticket[q] # ticket[p] /\ Index(ticket[q]) # Index(ticket[p])
<1> USE Lengths, SizesOK
<1>1. /\ write[p] = Wrap(ticket[p])
      /\ HeadPos <= ticket[p] /\ ticket[p] < TailPos /\ TailPos <= HeadPos + Capacity
  BY DEF Core, ProducersInv, CountsInv, Owner
<1>2. \A k \in HeadPos..(HeadPos + Capacity - 1) :
          k # ticket[p] => Index(k) # Index(ticket[p])
  <2> SUFFICES ASSUME NEW k \in HeadPos..(HeadPos + Capacity - 1), k # ticket[p]
               PROVE  Index(k) # Index(ticket[p])
    OBVIOUS
  <2>1. k \in Nat /\ ticket[p] \in Nat /\ k < ticket[p] + Capacity /\ ticket[p] < k + Capacity
    BY <1>1
  <2> QED
    BY <2>1, Positions, Zenon DEF PositionFacts
<1>3. \A q \in Producers \ {p} :
          Owner(q) => ticket[q] # ticket[p] /\ HeadPos <= ticket[q] /\ ticket[q] < TailPos
  BY DEF Core, ProducersInv
<1>4. \A q \in Producers \ {p} : Owner(q) => ticket[q] \in HeadPos..(HeadPos + Capacity - 1)
  BY <1>1, <1>3
<1>5. /\ Index(write[p]) = Index(ticket[p]) /\ Index(ticket[p]) \in Slots
      /\ Wrap(write[p] + Capacity) = Wrap(ticket[p] + Capacity)
      /\ Wrap(write[p] + 1) = Wrap(ticket[p] + 1)
  <2>1. ticket[p] \in Nat
    OBVIOUS
  <2> QED
    BY <1>1, <2>1, Positions, Zenon DEF PositionFacts
<1>6. Wrap(ticket[p]) # Wrap(ticket[p] + Capacity)
  <2>1. /\ ticket[p] \in Nat /\ ticket[p] + Capacity \in Nat
        /\ ticket[p] < ticket[p] + Capacity /\ ticket[p] + Capacity < ticket[p] + WordSize
    OBVIOUS
  <2> QED
    BY <2>1, Positions, Zenon DEF PositionFacts
<1> QED
  BY <1>1, <1>2, <1>3, <1>4, <1>5, <1>6

LEMMA RingQueueInit ==
    ASSUME TypeInv, RingInv, QueueInit
    PROVE  RingInv'
<1>1. live' = TRUE /\ accepted' = <<>> /\ delivered' = <<>> /\ HeadPos' = 0 /\ TailPos' = 0
  BY DEF QueueInit, HeadPos, TailPos
<1>2. cpc' = "idle" /\ \A p \in Producers : pc'[p] = "idle"
  BY DEF QueueInit, Idle, local
<1>3. \A p \in Producers : ~Refusing(p)' /\ ~Owner(p)'
  BY <1>2 DEF Refusing, Owner
<1>4. 0 \in Slots /\ Wrap(0) = 0
  BY Positions, SizesOK DEF PositionFacts, Slots
<1>5. CountsInv'
  BY <1>1, <1>3, <1>4, SizesOK DEF CountsInv, QueueInit
<1>6. ProducersInv'
  BY <1>2, <1>3 DEF ProducersInv
<1>7. SlotsInv'
  <2>1. \A k \in Slots : Index(k) = k /\ Wrap(k) = k
    BY Positions DEF PositionFacts
  <2>2. \A k \in Slots : seq'[Index(k)] = Wrap(k)
    BY <2>1 DEF QueueInit
  <2>3. 0..(0 + Capacity - 1) = Slots
    BY SizesOK DEF Slots
  <2>4. TailPos'..(HeadPos' + Capacity - 1) = Slots /\ HeadPos'..(TailPos' - 1) = {}
    BY <1>1, <2>3
  <2> QED
    BY <2>2, <2>4, Zenon DEF SlotsInv
<1>8. ConsumerInv'
  BY <1>2 DEF ConsumerInv
<1> QED
  BY <1>1, <1>5, <1>6, <1>7, <1>8 DEF RingInv

LEMMA RingClaim ==
    ASSUME Disciplined, TypeInv, RingInv, NEW p \in Producers, PushClaim(p)
    PROVE  RingInv'
<1> USE Lengths, SizesOK
<1>1. Core /\ live'
  BY DEF PushClaim, RingInv, Core
<1>2. \A q \in Producers : ~Refusing(q)
  BY DEF PushClaim, MayClaim, Refusing, Disciplined
<1>3. writePos = Wrap(TailPos) /\ readPos = Wrap(HeadPos)
      /\ HeadPos <= TailPos /\ TailPos <= HeadPos + Capacity
  BY <1>1, <1>2 DEF Core, CountsInv
<1>4. Wrap(writePos - readPos) = TailPos - HeadPos
  BY <1>3, Positions DEF PositionFacts
<1>5. writePos' = Wrap(TailPos + 1)
  BY <1>3, Positions DEF PushClaim, PositionFacts
<1>6. /\ ticket' = [ticket EXCEPT ![p] = TailPos]
      /\ pc' = [pc EXCEPT ![p] = "claimed"]
      /\ attempts' = [attempts EXCEPT ![p] = @ + 1]
      /\ write' = [write EXCEPT ![p] = Wrap(TailPos)]
      /\ HeadPos' = HeadPos
      /\ UNCHANGED <<readPos, seq, buffer, cpc, out, delivered>>
  BY <1>3 DEF PushClaim, Goto, TailPos, HeadPos
<1>7. /\ pc \in [Producers -> Labels] /\ ticket \in [Producers -> Nat]
      /\ write \in [Producers -> Words] /\ attempts \in [Producers -> 0..MaxPush]
      /\ pc[p] = "idle"
  BY DEF TypeInv, TypeOK, PushClaim, Labels
<1>8. CASE TailPos - HeadPos < Capacity
  <2>1. /\ granted' = granted \cup {p}
        /\ accepted' = Append(accepted, <<p, attempts[p] + 1>>)
    BY <1>4, <1>8 DEF PushClaim
  <2>2. /\ TailPos' = TailPos + 1 /\ accepted'[TailPos + 1] = <<p, attempts[p] + 1>>
        /\ \A n \in 1..TailPos : accepted'[n] = accepted[n]
    BY <2>1, AcceptedGrows, Zenon
  <2>3. /\ \A q \in Producers : ~Refusing(q)'
        /\ Owner(p)' /\ ~Writing(p)'
        /\ \A q \in Producers \ {p} : /\ Owner(q)' <=> Owner(q)
                                      /\ Writing(q)' <=> Writing(q)
                                      /\ Elem(q)' = Elem(q) /\ ticket'[q] = ticket[q]
                                      /\ pc'[q] = pc[q] /\ write'[q] = write[q]
    BY <1>2, <1>6, <1>7, <2>1 DEF Refusing, Owner, Writing, Elem
  <2>4. CountsInv'
    <3>1. HeadPos <= TailPos + 1 /\ TailPos + 1 <= HeadPos + Capacity
      BY <1>3, <1>8
    <3> QED
      BY <1>3, <1>5, <1>6, <2>2, <2>3, <3>1, Zenon DEF CountsInv
  <2>5. ProducersInv'
    <3> SUFFICES ASSUME NEW q \in Producers
                 PROVE  /\ write'[q] = Wrap(ticket'[q]) \/ pc'[q] = "idle"
                        /\ Owner(q)' =>
                            /\ HeadPos' <= ticket'[q] /\ ticket'[q] < TailPos'
                            /\ accepted'[ticket'[q] + 1] = Elem(q)'
                            /\ \A r \in Producers \ {q} : Owner(r)' => ticket'[r] # ticket'[q]
                            /\ seq'[Index(ticket'[q])] =
                                 IF Writing(q)' THEN Wrap(ticket'[q] + Capacity)
                                                ELSE Wrap(ticket'[q])
                            /\ pc'[q] = "publish" => buffer'[Index(ticket'[q])] = Elem(q)'
      BY <2>3 DEF ProducersInv
    <3>1. CASE q = p
      <4>1. \A r \in Producers \ {p} : Owner(r)' => ticket'[r] < TailPos
        BY <1>1, <2>3 DEF Core, ProducersInv
      <4>2. seq[Index(TailPos)] = Wrap(TailPos)
        BY <1>1, <1>8, <1>3 DEF Core, SlotsInv
      <4>3. /\ write'[p] = Wrap(TailPos) /\ ticket'[p] = TailPos /\ pc'[p] = "claimed"
            /\ Elem(p)' = <<p, attempts[p] + 1>> /\ seq' = seq
        BY <1>6, <1>7 DEF Elem
      <4>4. HeadPos' <= TailPos /\ TailPos < TailPos'
        BY <1>3, <1>6, <2>2
      <4>5. \A r \in Producers \ {p} : Owner(r)' => ticket'[r] # TailPos
        BY <2>3, <4>1
      <4> QED
        BY <2>2, <2>3, <3>1, <4>2, <4>3, <4>4, <4>5, Zenon
    <3>2. CASE q # p
      <4>1. /\ pc[q] # "idle" => write[q] = Wrap(ticket[q])
            /\ Owner(q) =>
                 /\ HeadPos <= ticket[q] /\ ticket[q] < TailPos
                 /\ accepted[ticket[q] + 1] = Elem(q)
                 /\ \A r \in Producers \ {q} : Owner(r) => ticket[r] # ticket[q]
                 /\ seq[Index(ticket[q])] =
                      IF Writing(q) THEN Wrap(ticket[q] + Capacity) ELSE Wrap(ticket[q])
                 /\ pc[q] = "publish" => buffer[Index(ticket[q])] = Elem(q)
        BY <1>1, Zenon DEF Core, ProducersInv
      <4>2. CASE ~Owner(q)
        BY <2>3, <3>2, <4>1, <4>2
      <4>3. CASE Owner(q)
        <5>1. ticket[q] + 1 \in 1..TailPos /\ ticket[q] < TailPos + 1 /\ ticket[q] # TailPos
          BY <1>3, <4>1, <4>3, Intervals, Zenon DEF IntervalFacts
        <5>2. accepted'[ticket[q] + 1] = Elem(q)
          BY <2>2, <4>1, <4>3, <5>1
        <5>3. \A r \in Producers \ {q} : Owner(r)' => ticket'[r] # ticket[q]
          BY <1>6, <1>7, <2>3, <4>1, <4>3, <5>1, Zenon
        <5>4. /\ HeadPos' <= ticket'[q] /\ ticket'[q] < TailPos'
              /\ write'[q] = Wrap(ticket'[q]) \/ pc'[q] = "idle"
          BY <1>6, <2>2, <2>3, <3>2, <4>1, <4>3, <5>1
        <5> QED
          BY <1>6, <2>3, <3>2, <4>1, <4>3, <5>2, <5>3, <5>4
      <4> QED
        BY <4>2, <4>3
    <3> QED
      BY <3>1, <3>2
  <2>6. SlotsInv'
    <3>1. \A k : Owned(k)' <=> (Owned(k) \/ k = TailPos)
      BY <1>6, <1>7, <2>3 DEF Owned, Owner
    <3>2. \A k \in (TailPos + 1)..(HeadPos + Capacity - 1) : seq[Index(k)] = Wrap(k)
      BY <1>1 DEF Core, SlotsInv
    <3>3. ASSUME NEW k \in HeadPos..TailPos, ~Owned(k)'
          PROVE  /\ buffer[Index(k)] = accepted'[k + 1]
                 /\ seq[Index(k)] = IF k = HeadPos /\ cpc = "advance"
                                    THEN Wrap(k + Capacity) ELSE Wrap(k + 1)
      <4>1. k # TailPos /\ ~Owned(k)
        BY <3>1, <3>3
      <4>2. k \in HeadPos..(TailPos - 1) /\ k + 1 \in 1..TailPos
        BY <4>1
      <4> QED
        BY <1>1, <2>2, <4>1, <4>2 DEF Core, SlotsInv
    <3>4. TailPos' - 1 = TailPos
      BY <2>2
    <3> QED
      BY <1>6, <2>2, <3>2, <3>3, <3>4 DEF SlotsInv
  <2>7. ConsumerInv'
    <3>1. \A k : Owned(k)' <=> (Owned(k) \/ k = TailPos)
      BY <1>6, <1>7, <2>3 DEF Owned, Owner
    <3>2. cpc # "idle" => /\ HeadPos < TailPos /\ ~Owned(HeadPos)
                          /\ cpc # "copy" => out = accepted[HeadPos + 1]
      BY <1>1 DEF Core, ConsumerInv
    <3>3. HeadPos < TailPos => /\ HeadPos + 1 \in 1..TailPos /\ HeadPos < TailPos + 1
                               /\ HeadPos # TailPos
      OBVIOUS
    <3>4. ASSUME cpc # "idle"
          PROVE  /\ HeadPos < TailPos' /\ ~Owned(HeadPos)'
                 /\ cpc # "copy" => out = accepted'[HeadPos + 1]
      <4>1. ~Owned(HeadPos)'
        BY <1>6, <3>1, <3>2, <3>3, <3>4
      <4>2. accepted'[HeadPos + 1] = accepted[HeadPos + 1]
        BY <2>2, <3>2, <3>3, <3>4
      <4> QED
        BY <2>2, <3>2, <3>3, <3>4, <4>1, <4>2
    <3> QED
      BY <1>6, <3>4 DEF ConsumerInv
  <2> QED
    BY <1>1, <2>4, <2>5, <2>6, <2>7 DEF RingInv
<1>9. CASE ~(TailPos - HeadPos < Capacity)
  <2>1. granted' = granted \ {p} /\ accepted' = accepted /\ TailPos' = TailPos
    BY <1>4, <1>9 DEF PushClaim, TailPos
  <2>2. \A q \in Producers \ {p} : pc[q] = "idle" /\ pc'[q] = "idle"
    BY <1>4, <1>6, <1>7, <1>9 DEF PushClaim, MayClaim, Disciplined
  <2>4. Refusing(p)' /\ ~Owner(p)'
    BY <1>6, <1>7, <2>1 DEF Refusing, Owner
  <2>5. \A q \in Producers : (~Owner(q)) /\ (~Owner(q)') /\ (q # p => ~Refusing(q)')
    BY <1>7, <2>2, <2>4 DEF Owner, Refusing
  <2>6. CountsInv'
    BY <1>3, <1>5, <1>6, <2>1, <2>4 DEF CountsInv
  <2>7. ProducersInv'
    BY <1>6, <1>7, <2>1, <2>2, <2>4, <2>5 DEF ProducersInv
  <2>8. \A k : ~Owned(k) /\ ~Owned(k)'
    BY <2>5 DEF Owned
  <2>9. SlotsInv' /\ ConsumerInv'
    BY <1>1, <1>6, <2>1, <2>8 DEF Core, SlotsInv, ConsumerInv
  <2> QED
    BY <1>1, <2>6, <2>7, <2>9 DEF RingInv
<1> QED
  BY <1>8, <1>9

LEMMA RingFull ==
    ASSUME Disciplined, TypeInv, RingInv, NEW p \in Producers, PushFull(p)
    PROVE  RingInv'
<1> USE Lengths, SizesOK
<1>1. Core /\ live /\ live'
  BY DEF PushFull, RingInv, Core, Idle, shared
<1>2. /\ pc' = [pc EXCEPT ![p] = "rollback"] /\ pc[p] = "claimed"
      /\ UNCHANGED <<shared, write, attempts, cpc, out, ticket, granted, accepted, delivered>>
      /\ HeadPos' = HeadPos /\ TailPos' = TailPos
  BY DEF PushFull, Goto, HeadPos, TailPos
<1>3. pc \in [Producers -> Labels]
  BY DEF TypeInv, TypeOK, Labels
<1>4. Refusing(p)
  <2> SUFFICES ASSUME Owner(p) PROVE FALSE
    BY <1>2 DEF Owner
  <2>1. /\ write[p] = Wrap(ticket[p]) /\ readPos = Wrap(HeadPos)
        /\ HeadPos <= ticket[p] /\ ticket[p] < HeadPos + Capacity
    <3>1. /\ write[p] = Wrap(ticket[p]) /\ readPos = Wrap(HeadPos)
          /\ HeadPos <= ticket[p] /\ ticket[p] < TailPos /\ TailPos <= HeadPos + Capacity
      BY <1>1, OwnedSlot, Zenon DEF Core, CountsInv
    <3> QED
      BY <3>1, Intervals, Zenon DEF IntervalFacts
  <2>2. Wrap(write[p] - readPos) = ticket[p] - HeadPos
    BY <2>1, Positions DEF PositionFacts
  <2> QED
    BY <2>1, <2>2 DEF PushFull, SeesFull
<1>5. \A q \in Producers : /\ Refusing(q)' <=> Refusing(q)
                           /\ Owner(q)' <=> Owner(q)
                           /\ Owner(q) => q # p /\ pc'[q] = pc[q]
                           /\ pc[q] = "idle" => pc'[q] = "idle"
                           /\ pc'[q] # "idle" => pc[q] # "idle"
  BY <1>2, <1>3, <1>4 DEF Refusing, Owner
<1>6. CountsInv'
  BY <1>1, <1>2, <1>5 DEF Core, CountsInv, shared
<1>7. ProducersInv'
  <2>1. \A q \in Producers : Owner(q) => (Writing(q)' <=> Writing(q)) /\ Elem(q)' = Elem(q)
    BY <1>2, <1>5 DEF Writing, Elem
  <2>2. UNCHANGED <<write, ticket, accepted, HeadPos, TailPos>> /\ UNCHANGED <<seq, buffer>>
    BY <1>2 DEF shared
  <2> QED
    BY <1>1, <1>5, <2>1, <2>2, ZenonT(30) DEF Core, ProducersInv
<1>8. \A k : Owned(k)' <=> Owned(k)
  BY <1>2, <1>5 DEF Owned
<1>9. SlotsInv' /\ ConsumerInv'
  <2>1. UNCHANGED <<accepted, HeadPos, TailPos>> /\ UNCHANGED <<seq, buffer, cpc, out>>
    BY <1>2 DEF shared
  <2> QED
    BY <1>1, <1>8, <2>1 DEF Core, SlotsInv, ConsumerInv
<1> QED
  BY <1>1, <1>6, <1>7, <1>9 DEF RingInv

LEMMA RingAdmit ==
    ASSUME Disciplined, TypeInv, RingInv, NEW p \in Producers, PushAdmit(p)
    PROVE  RingInv'
<1> USE Lengths, SizesOK
<1>1. Core /\ live /\ live'
  BY DEF PushAdmit, RingInv, Core, Idle, shared
<1>2. /\ pc' = [pc EXCEPT ![p] = "cas"] /\ pc[p] = "claimed"
      /\ UNCHANGED <<shared, write, attempts, cpc, out, ticket, granted, delivered>>
      /\ HeadPos' = HeadPos
  BY DEF PushAdmit, Goto, HeadPos
<1>3. pc \in [Producers -> Labels]
  BY DEF TypeInv, TypeOK, Labels
<1>4. \A q \in Producers : /\ Elem(q)' = Elem(q)
                           /\ Writing(q)' <=> Writing(q)
                           /\ q # p => pc'[q] = pc[q] /\ (Owner(q)' <=> Owner(q))
                                       /\ (Refusing(q)' <=> Refusing(q))
  BY <1>2, <1>3 DEF Elem, Writing, Owner, Refusing
<1>5. Owner(p)' /\ ~Refusing(p)' /\ ~Writing(p)' /\ pc'[p] = "cas"
  BY <1>2, <1>3 DEF Owner, Refusing, Writing
<1>6. CASE p \in granted
  <2>1. accepted' = accepted /\ TailPos' = TailPos /\ Owner(p) /\ ~Refusing(p)
    BY <1>2, <1>6 DEF PushAdmit, TailPos, Owner, Refusing
  <2>2. \A q \in Producers : (Owner(q)' <=> Owner(q)) /\ (Refusing(q)' <=> Refusing(q))
                             /\ (pc'[q] = "idle" <=> pc[q] = "idle")
                             /\ (pc'[q] = "publish" <=> pc[q] = "publish")
    BY <1>2, <1>4, <1>5, <2>1
  <2>3. CountsInv'
    BY <1>1, <1>2, <2>1, <2>2 DEF Core, CountsInv, shared
  <2>4. ProducersInv'
    <3>1. UNCHANGED <<write, ticket, seq, buffer, HeadPos, TailPos, accepted>>
      BY <1>2, <2>1 DEF shared
    <3> QED
      BY <1>1, <1>4, <2>2, <3>1, Zenon DEF Core, ProducersInv
  <2>5. \A k : Owned(k)' <=> Owned(k)
    BY <1>2, <2>2 DEF Owned
  <2>6. SlotsInv' /\ ConsumerInv'
    BY <1>1, <1>2, <2>1, <2>5, Zenon DEF Core, SlotsInv, ConsumerInv, shared
  <2> QED
    BY <1>1, <2>3, <2>4, <2>6 DEF RingInv
<1>7. CASE p \notin granted
  <2>1. Refusing(p) /\ ~Owner(p)
    BY <1>2, <1>7 DEF Refusing, Owner
  <2>2. /\ ticket[p] = TailPos /\ write[p] = Wrap(TailPos) /\ readPos = Wrap(HeadPos)
        /\ \A q \in Producers \ {p} : pc[q] = "idle" /\ ~Owner(q) /\ ~Refusing(q)
        /\ writePos = Wrap(TailPos + 1) /\ HeadPos <= TailPos /\ TailPos <= HeadPos + Capacity
    BY <1>1, <1>2, <2>1 DEF Core, ProducersInv, CountsInv, Owner, Refusing
  <2>3. Wrap(write[p] - readPos) = TailPos - HeadPos
    BY <2>2, Positions DEF PositionFacts
  <2>4. TailPos < HeadPos + Capacity
    <3>1. ~(TailPos - HeadPos >= Capacity)
      BY <2>3, Zenon DEF PushAdmit, SeesFull
    <3> QED
      BY <2>2, <3>1, Intervals, Zenon DEF IntervalFacts
  <2>5. accepted' = Append(accepted, Elem(p))
    BY <1>7 DEF PushAdmit
  <2>6. /\ TailPos' = TailPos + 1 /\ accepted'[TailPos + 1] = Elem(p)
        /\ \A n \in 1..TailPos : accepted'[n] = accepted[n]
    BY <2>5, AcceptedGrows, Zenon
  <2>7. \A q \in Producers \ {p} : pc'[q] = "idle" /\ ~Owner(q)' /\ ~Refusing(q)'
    BY <1>4, <2>2
  <2>8. CountsInv'
    <3>1. /\ readPos' = Wrap(HeadPos') /\ writePos' = Wrap(TailPos')
      BY <1>2, <2>2, <2>6 DEF shared
    <3>2. HeadPos' <= TailPos' /\ TailPos' <= HeadPos' + Capacity
      <4>1. HeadPos <= TailPos + 1 /\ TailPos + 1 <= HeadPos + Capacity
        BY <2>2, <2>4
      <4> QED
        BY <1>2, <2>6, <4>1, Zenon
    <3>3. \A q \in Producers : ~Refusing(q)'
      BY <1>5, <2>7
    <3> QED
      BY <3>1, <3>2, <3>3 DEF CountsInv
  <2>9. seq[Index(TailPos)] = Wrap(TailPos)
    <3>1. TailPos \in TailPos..(HeadPos + Capacity - 1)
      BY <2>2, <2>4
    <3> QED
      BY <1>1, <3>1 DEF Core, SlotsInv
  <2>10. ProducersInv'
    <3>1. /\ write'[p] = Wrap(ticket'[p]) /\ ticket'[p] = TailPos
          /\ HeadPos' <= ticket'[p] /\ ticket'[p] < TailPos'
          /\ accepted'[ticket'[p] + 1] = Elem(p)'
          /\ seq'[Index(ticket'[p])] = Wrap(ticket'[p])
      <4>1. /\ write' = write /\ ticket' = ticket /\ seq' = seq /\ HeadPos' = HeadPos
            /\ Elem(p)' = Elem(p)
        BY <1>2, <1>4 DEF shared
      <4>2. TailPos < TailPos + 1
        OBVIOUS
      <4> QED
        BY <2>2, <2>6, <2>9, <4>1, <4>2
    <3> QED
      BY <1>5, <2>7, <3>1 DEF ProducersInv
  <2>11. \A k : ~Owned(k) /\ (Owned(k)' <=> k = TailPos)
    BY <1>2, <1>5, <2>1, <2>2, <2>7 DEF Owned
  <2>12. SlotsInv' /\ ConsumerInv'
    <3>1. UNCHANGED <<seq, buffer, cpc, out>> /\ HeadPos' = HeadPos
      BY <1>2 DEF shared
    <3>2. \A k \in (TailPos + 1)..(HeadPos + Capacity - 1) : seq[Index(k)] = Wrap(k)
      BY <1>1, Intervals, Zenon DEF Core, SlotsInv, IntervalFacts
    <3>3. ASSUME NEW k \in HeadPos..TailPos, k # TailPos
          PROVE  /\ buffer[Index(k)] = accepted'[k + 1]
                 /\ seq[Index(k)] = IF k = HeadPos /\ cpc = "advance"
                                    THEN Wrap(k + Capacity) ELSE Wrap(k + 1)
      <4>1. k \in HeadPos..(TailPos - 1) /\ k + 1 \in 1..TailPos
        BY <3>3
      <4> QED
        BY <1>1, <2>6, <2>11, <4>1 DEF Core, SlotsInv
    <3>4. TailPos' - 1 = TailPos
      BY <2>6
    <3>5. SlotsInv'
      BY <2>6, <2>11, <3>1, <3>2, <3>3, <3>4 DEF SlotsInv
    <3>6. cpc # "idle" => /\ HeadPos < TailPos
                          /\ cpc # "copy" => out = accepted[HeadPos + 1]
      BY <1>1 DEF Core, ConsumerInv
    <3>7. HeadPos < TailPos => /\ HeadPos + 1 \in 1..TailPos /\ HeadPos < TailPos + 1
                               /\ HeadPos # TailPos
      OBVIOUS
    <3>8. ConsumerInv'
      BY <2>6, <2>11, <3>1, <3>6, <3>7 DEF ConsumerInv
    <3> QED
      BY <3>5, <3>8
  <2> QED
    BY <1>1, <2>8, <2>10, <2>12 DEF RingInv
<1> QED
  BY <1>6, <1>7

LEMMA RingRollback ==
    ASSUME Disciplined, TypeInv, RingInv, NEW p \in Producers, PushRollback(p)
    PROVE  RingInv'
<1> USE Lengths, SizesOK
<1>1. Core /\ live /\ live'
  BY DEF PushRollback, RingInv, Core, Idle
<1>2. /\ pc' = [pc EXCEPT ![p] = "idle"] /\ pc[p] = "rollback"
      /\ writePos' = Wrap(writePos - 1)
      /\ UNCHANGED <<readPos, seq, buffer, cpc, out, accepted, delivered>>
      /\ HeadPos' = HeadPos /\ TailPos' = TailPos
  BY DEF PushRollback, Goto, HeadPos, TailPos, history
<1>3. pc \in [Producers -> Labels]
  BY DEF TypeInv, TypeOK, Labels
<1>4. Refusing(p) /\ \A q \in Producers \ {p} : pc[q] = "idle"
  BY <1>1, <1>2 DEF Core, ProducersInv, Refusing
<1>5. \A q \in Producers : pc'[q] = "idle" /\ ~Owner(q)' /\ ~Refusing(q)' /\ ~Owner(q)
  BY <1>2, <1>3, <1>4 DEF Owner, Refusing
<1>6. writePos = Wrap(TailPos + 1)
  BY <1>1, <1>4 DEF Core, CountsInv
<1>7. writePos' = Wrap(TailPos)
  BY <1>2, <1>6, Positions DEF PositionFacts
<1>8. CountsInv' /\ ProducersInv'
  BY <1>1, <1>2, <1>5, <1>7, Zenon DEF Core, CountsInv, ProducersInv
<1>9. \A k : ~Owned(k) /\ ~Owned(k)'
  BY <1>5 DEF Owned
<1>10. SlotsInv' /\ ConsumerInv'
  BY <1>1, <1>2, <1>9 DEF Core, SlotsInv, ConsumerInv
<1> QED
  BY <1>1, <1>8, <1>10 DEF RingInv

(* A push that owns a position is alone in its slot.                       *)
(* A step of an owner that touches nothing but its slot, and keeps it.     *)
LEMMA RingSlotStep ==
    ASSUME Disciplined, TypeInv, Core, live, live',
           NEW p \in Producers, Owner(p), Owner(p)',
           NEW label \in Labels, pc' = [pc EXCEPT ![p] = label], label \notin {"rollback", "idle"},
           UNCHANGED <<writePos, readPos, write, attempts, cpc, out, history>>,
           \A i \in Slots \ {Index(ticket[p])} : seq'[i] = seq[i] /\ buffer'[i] = buffer[i],
           seq'[Index(ticket[p])] =
               IF Writing(p)' THEN Wrap(ticket[p] + Capacity) ELSE Wrap(ticket[p]),
           label = "publish" => buffer'[Index(ticket[p])] = Elem(p)
    PROVE  RingInv'
<1> USE Lengths, SizesOK
<1>1. pc \in [Producers -> Labels]
  BY DEF TypeInv, TypeOK, Labels
<1>2. /\ HeadPos' = HeadPos /\ TailPos' = TailPos
      /\ UNCHANGED <<ticket, granted, accepted, delivered>>
  BY DEF HeadPos, TailPos, history
<1>3. \A q \in Producers :
          /\ Elem(q)' = Elem(q) /\ (Owner(q)' <=> Owner(q)) /\ (Refusing(q)' <=> Refusing(q))
          /\ pc'[q] = "idle" <=> pc[q] = "idle"
          /\ q # p => pc'[q] = pc[q] /\ (Writing(q)' <=> Writing(q))
  BY <1>1, <1>2 DEF Elem, Owner, Refusing, Writing
<1>4. CountsInv'
  BY <1>2, <1>3, Zenon DEF Core, CountsInv
<1>5. \A k \in HeadPos..(HeadPos + Capacity - 1) : k # ticket[p] =>
          seq'[Index(k)] = seq[Index(k)] /\ buffer'[Index(k)] = buffer[Index(k)]
  <2> SUFFICES ASSUME NEW k \in HeadPos..(HeadPos + Capacity - 1), k # ticket[p]
               PROVE  seq'[Index(k)] = seq[Index(k)] /\ buffer'[Index(k)] = buffer[Index(k)]
    OBVIOUS
  <2>1. Index(k) # Index(ticket[p])
    BY OwnedSlot, Zenon
  <2>2. k \in Nat
    BY Intervals, Zenon DEF IntervalFacts
  <2>3. Index(k) \in Slots
    BY <2>2, Positions, Zenon DEF PositionFacts
  <2> QED
    BY <2>1, <2>3, Zenon
<1>6. ProducersInv'
  <2> SUFFICES ASSUME NEW q \in Producers
               PROVE  /\ pc'[q] # "idle" => write'[q] = Wrap(ticket'[q])
                      /\ ~Refusing(q)'
                      /\ Owner(q)' =>
                           /\ HeadPos' <= ticket'[q] /\ ticket'[q] < TailPos'
                           /\ accepted'[ticket'[q] + 1] = Elem(q)'
                           /\ \A r \in Producers \ {q} : Owner(r)' => ticket'[r] # ticket'[q]
                           /\ seq'[Index(ticket'[q])] =
                                IF Writing(q)' THEN Wrap(ticket'[q] + Capacity)
                                               ELSE Wrap(ticket'[q])
                           /\ pc'[q] = "publish" => buffer'[Index(ticket'[q])] = Elem(q)'
    BY Zenon DEF ProducersInv
  <2>3. ~Refusing(q) /\ (pc[q] # "idle" => write[q] = Wrap(ticket[q]))
    BY DEF Core, ProducersInv, Owner, Refusing
  <2>4. Owner(q) => /\ HeadPos <= ticket[q] /\ ticket[q] < TailPos
                    /\ accepted[ticket[q] + 1] = Elem(q)
                    /\ \A r \in Producers \ {q} : Owner(r) => ticket[r] # ticket[q]
    BY Zenon DEF Core, ProducersInv
  <2>5. /\ pc'[q] # "idle" => write'[q] = Wrap(ticket'[q])
        /\ ~Refusing(q)'
        /\ Owner(q)' => /\ HeadPos' <= ticket'[q] /\ ticket'[q] < TailPos'
                        /\ accepted'[ticket'[q] + 1] = Elem(q)'
                        /\ \A r \in Producers \ {q} : Owner(r)' => ticket'[r] # ticket'[q]
    BY <1>2, <1>3, <2>3, <2>4, Zenon
  <2>1. ASSUME q = p
        PROVE  /\ seq'[Index(ticket[q])] =
                    IF Writing(q)' THEN Wrap(ticket[q] + Capacity) ELSE Wrap(ticket[q])
               /\ pc'[q] = "publish" => buffer'[Index(ticket[q])] = Elem(q)
    BY <1>1, <2>1
  <2>2. ASSUME q # p, Owner(q)
        PROVE  /\ seq'[Index(ticket[q])] =
                    IF Writing(q)' THEN Wrap(ticket[q] + Capacity) ELSE Wrap(ticket[q])
               /\ pc'[q] = "publish" => buffer'[Index(ticket[q])] = Elem(q)
    <3>1. ticket[q] # ticket[p] /\ HeadPos <= ticket[q] /\ ticket[q] < TailPos
      BY <2>2, Zenon DEF Core, ProducersInv
    <3>2. ticket[q] \in HeadPos..(HeadPos + Capacity - 1)
      BY <3>1, Intervals, Zenon DEF Core, CountsInv, IntervalFacts
    <3>3. /\ seq'[Index(ticket[q])] = seq[Index(ticket[q])]
          /\ buffer'[Index(ticket[q])] = buffer[Index(ticket[q])]
      BY <1>5, <3>1, <3>2, Zenon
    <3>4. /\ seq[Index(ticket[q])] =
               IF Writing(q) THEN Wrap(ticket[q] + Capacity) ELSE Wrap(ticket[q])
          /\ pc[q] = "publish" => buffer[Index(ticket[q])] = Elem(q)
      BY <2>2, Zenon DEF Core, ProducersInv
    <3> QED
      BY <1>3, <2>2, <3>3, <3>4, Zenon
  <2> QED
    BY <1>2, <1>3, <2>1, <2>2, <2>5, Zenon
<1>7. \A k : Owned(k)' <=> Owned(k)
  BY <1>2, <1>3 DEF Owned
<1>8. SlotsInv'
  <2>1. Owned(ticket[p]) /\ ticket[p] < TailPos /\ HeadPos <= TailPos /\ TailPos <= HeadPos + Capacity
    BY OwnedSlot, Zenon DEF Owned, Core, CountsInv
  <2>2. ASSUME NEW k \in TailPos..(HeadPos + Capacity - 1) PROVE seq'[Index(k)] = Wrap(k)
    <3>1. k \in HeadPos..(HeadPos + Capacity - 1) /\ k # ticket[p]
      BY <2>1, Lengths, BeyondTail, Zenon
    <3>2. seq[Index(k)] = Wrap(k)
      BY DEF Core, SlotsInv
    <3> QED
      BY <1>5, <3>1, <3>2
  <2>3. ASSUME NEW k \in HeadPos..(TailPos - 1), ~Owned(k)
        PROVE  seq'[Index(k)] = seq[Index(k)] /\ buffer'[Index(k)] = buffer[Index(k)]
    <3>1. k \in HeadPos..(HeadPos + Capacity - 1) /\ k # ticket[p]
      <4>1. k # ticket[p]
        BY <2>1, <2>3, Zenon
      <4>2. k \in HeadPos..(HeadPos + Capacity - 1)
        BY <2>1, Intervals, Zenon DEF IntervalFacts
      <4> QED
        BY <4>1, <4>2, Zenon
    <3> QED
      BY <1>5, <3>1
  <2> QED
    BY <1>2, <1>7, <2>2, <2>3 DEF Core, SlotsInv
<1>9. ConsumerInv'
  BY <1>2, <1>7 DEF Core, ConsumerInv
<1> QED
  BY <1>4, <1>6, <1>8, <1>9 DEF RingInv

LEMMA RingCasCopy ==
    ASSUME Disciplined, TypeInv, RingInv, NEW p \in Producers,
           PushReserve(p) \/ PushBreak(p) \/ PushCopyBegin(p) \/ PushCopyEnd(p)
    PROVE  RingInv'
<1> USE Lengths, SizesOK
<1>1. pc[p] \in {"cas", "copy", "copying"} /\ Owner(p)
  BY DEF PushReserve, PushBreak, PushCopyBegin, PushCopyEnd, Owner, Refusing
<1>2. Core /\ live /\ live'
  BY <1>1, Zenon DEF PushReserve, PushBreak, PushCopyBegin, PushCopyEnd, RingInv, Core, Idle, shared
<1>3. /\ seq \in [Slots -> Words] /\ buffer \in [Slots -> Elements \cup {Torn}]
      /\ pc \in [Producers -> Labels]
  BY DEF TypeInv, TypeOK, Labels
<1>4. /\ Index(write[p]) = Index(ticket[p]) /\ Index(ticket[p]) \in Slots
      /\ Wrap(write[p] + Capacity) = Wrap(ticket[p] + Capacity)
      /\ Wrap(ticket[p]) # Wrap(ticket[p] + Capacity)
  BY <1>1, <1>2, OwnedSlot
<1>5. seq[Index(ticket[p])] = IF Writing(p) THEN Wrap(ticket[p] + Capacity) ELSE Wrap(ticket[p])
  BY <1>1, <1>2, Zenon DEF Core, ProducersInv
<1>6. CASE PushReserve(p)
  <2>1. pc' = [pc EXCEPT ![p] = "copy"] /\ Owner(p)' /\ Writing(p)'
    BY <1>3, <1>6 DEF PushReserve, Goto, Owner, Refusing, Writing
  <2>2. /\ UNCHANGED <<writePos, readPos, write, attempts, cpc, out, history>>
        /\ \A i \in Slots \ {Index(ticket[p])} : seq'[i] = seq[i] /\ buffer'[i] = buffer[i]
        /\ seq'[Index(ticket[p])] = Wrap(ticket[p] + Capacity)
    BY <1>3, <1>4, <1>6 DEF PushReserve
  <2>3. "copy" \in Labels
    BY DEF Labels
  <2> QED
    BY <1>1, <1>2, <2>1, <2>2, <2>3, RingSlotStep, Zenon
<1>7. CASE PushBreak(p)
  BY <1>1, <1>4, <1>5, <1>7 DEF PushBreak, Writing
<1>8. CASE PushCopyBegin(p)
  <2>1. pc' = [pc EXCEPT ![p] = "copying"] /\ Owner(p)' /\ Writing(p)' /\ Writing(p)
    BY <1>3, <1>8 DEF PushCopyBegin, Goto, Owner, Refusing, Writing
  <2>2. /\ UNCHANGED <<writePos, readPos, write, attempts, cpc, out, history>>
        /\ \A i \in Slots \ {Index(ticket[p])} : seq'[i] = seq[i] /\ buffer'[i] = buffer[i]
        /\ seq'[Index(ticket[p])] = Wrap(ticket[p] + Capacity)
    BY <1>3, <1>4, <1>5, <1>8, <2>1, Zenon DEF PushCopyBegin
  <2>3. "copying" \in Labels
    BY DEF Labels
  <2> QED
    BY <1>1, <1>2, <2>1, <2>2, <2>3, RingSlotStep, Zenon
<1>9. CASE PushCopyEnd(p)
  <2>1. pc' = [pc EXCEPT ![p] = "publish"] /\ Owner(p)' /\ Writing(p)' /\ Writing(p)
    BY <1>3, <1>9 DEF PushCopyEnd, Goto, Owner, Refusing, Writing
  <2>2. /\ UNCHANGED <<writePos, readPos, write, attempts, cpc, out, history>>
        /\ \A i \in Slots \ {Index(ticket[p])} : seq'[i] = seq[i] /\ buffer'[i] = buffer[i]
        /\ seq'[Index(ticket[p])] = Wrap(ticket[p] + Capacity)
        /\ buffer'[Index(ticket[p])] = Elem(p)
    BY <1>3, <1>4, <1>5, <1>9, <2>1, Zenon DEF PushCopyEnd
  <2>3. "publish" \in Labels
    BY DEF Labels
  <2> QED
    BY <1>1, <1>2, <2>1, <2>2, <2>3, RingSlotStep, Zenon
<1> QED
  BY <1>6, <1>7, <1>8, <1>9

LEMMA RingPublish ==
    ASSUME Disciplined, TypeInv, RingInv, NEW p \in Producers, PushPublish(p)
    PROVE  RingInv'
<1> USE Lengths, SizesOK
<1>1. pc[p] = "publish" /\ Owner(p) /\ Writing(p)
  BY DEF PushPublish, Owner, Refusing, Writing
<1>2. Core /\ live /\ live'
  BY <1>1 DEF PushPublish, RingInv, Core, Idle
<1>3. /\ seq \in [Slots -> Words] /\ pc \in [Producers -> Labels]
  BY DEF TypeInv, TypeOK, Labels
<1>4. /\ HeadPos' = HeadPos /\ TailPos' = TailPos
      /\ UNCHANGED <<writePos, readPos, buffer, write, cpc, out>>
      /\ UNCHANGED <<ticket, granted, accepted, delivered, attempts>>
      /\ pc' = [pc EXCEPT ![p] = "idle"]
  BY DEF PushPublish, Goto, HeadPos, TailPos, history
<1>5. /\ seq'[Index(ticket[p])] = Wrap(ticket[p] + 1)
      /\ \A i \in Slots \ {Index(ticket[p])} : seq'[i] = seq[i]
  BY <1>1, <1>2, <1>3, OwnedSlot DEF PushPublish
<1>6. /\ \A k \in HeadPos..(HeadPos + Capacity - 1) :
             k # ticket[p] => seq'[Index(k)] = seq[Index(k)]
      /\ HeadPos <= ticket[p] /\ ticket[p] < TailPos /\ TailPos <= HeadPos + Capacity
  <2>1. /\ HeadPos <= ticket[p] /\ ticket[p] < TailPos /\ TailPos <= HeadPos + Capacity
        /\ \A k \in HeadPos..(HeadPos + Capacity - 1) :
             k # ticket[p] => Index(k) # Index(ticket[p])
    BY <1>1, <1>2, OwnedSlot
  <2>2. \A k \in HeadPos..(HeadPos + Capacity - 1) : k \in Nat
    OBVIOUS
  <2>3. \A k \in HeadPos..(HeadPos + Capacity - 1) : Index(k) \in Slots
    BY <2>2, Positions, Zenon DEF PositionFacts
  <2> QED
    BY <1>5, <2>1, <2>3, Zenon
<1>7. /\ ~Owner(p)' /\ ~Refusing(p)' /\ ~Refusing(p) /\ pc'[p] = "idle"
      /\ \A q \in Producers \ {p} :
          /\ Elem(q)' = Elem(q) /\ (Owner(q)' <=> Owner(q)) /\ (Refusing(q)' <=> Refusing(q))
          /\ pc'[q] = pc[q] /\ (Writing(q)' <=> Writing(q))
  BY <1>1, <1>3, <1>4, Zenon DEF Elem, Owner, Refusing, Writing
<1>8. CountsInv'
  BY <1>2, <1>4, <1>7 DEF Core, CountsInv
<1>9. ProducersInv'
  <2> SUFFICES ASSUME NEW q \in Producers \ {p}
               PROVE  /\ pc[q] # "idle" => write[q] = Wrap(ticket[q])
                      /\ ~Refusing(q)
                      /\ Owner(q) => /\ HeadPos <= ticket[q] /\ ticket[q] < TailPos
                                     /\ accepted[ticket[q] + 1] = Elem(q)
                                     /\ \A r \in Producers \ {q} :
                                            Owner(r) => ticket[r] # ticket[q]
                                     /\ seq'[Index(ticket[q])] =
                                          IF Writing(q) THEN Wrap(ticket[q] + Capacity)
                                                        ELSE Wrap(ticket[q])
                                     /\ pc[q] = "publish" => buffer[Index(ticket[q])] = Elem(q)
    BY <1>4, <1>7, ZenonT(40) DEF ProducersInv
  <2>1. ~Refusing(q)
    BY <1>1, <1>2, Zenon DEF Core, ProducersInv
  <2>2. Owner(q) => seq'[Index(ticket[q])] = seq[Index(ticket[q])]
    <3> SUFFICES ASSUME Owner(q) PROVE seq'[Index(ticket[q])] = seq[Index(ticket[q])]
      BY Zenon
    <3>1. ticket[q] # ticket[p] /\ HeadPos <= ticket[q] /\ ticket[q] < TailPos
      BY <1>1, <1>2 DEF Core, ProducersInv
    <3>2. ticket[q] \in HeadPos..(HeadPos + Capacity - 1)
      BY <1>6, <3>1
    <3> QED
      BY <1>6, <3>1, <3>2, Zenon
  <2> QED
    BY <1>2, <2>1, <2>2 DEF Core, ProducersInv
<1>10. \A k : Owned(k)' <=> (Owned(k) /\ k # ticket[p])
  <2>1. \A q \in Producers \ {p} : Owner(q) => ticket[q] # ticket[p]
    BY <1>1, <1>2, OwnedSlot
  <2> QED
    BY <1>4, <1>7, <2>1 DEF Owned
<1>11. Owned(ticket[p])
  BY <1>1 DEF Owned
<1>12. SlotsInv'
  <2>1. \A k \in TailPos..(HeadPos + Capacity - 1) : seq'[Index(k)] = Wrap(k)
    BY <1>2, <1>6 DEF Core, SlotsInv
  <2>2. ASSUME NEW k \in HeadPos..(TailPos - 1), ~Owned(k)'
        PROVE  /\ buffer[Index(k)] = accepted[k + 1]
               /\ seq'[Index(k)] = IF k = HeadPos /\ cpc = "advance"
                                   THEN Wrap(k + Capacity) ELSE Wrap(k + 1)
    <3>1. CASE k = ticket[p]
      <4>1. buffer[Index(k)] = Elem(p) /\ accepted[k + 1] = Elem(p)
        BY <1>1, <1>2, <3>1 DEF Core, ProducersInv
      <4>2. ~(k = HeadPos /\ cpc = "advance")
        BY <1>2, <1>11, <3>1 DEF Core, ConsumerInv
      <4> QED
        BY <1>5, <3>1, <4>1, <4>2
    <3>2. CASE k # ticket[p]
      <4>1. ~Owned(k) /\ k \in HeadPos..(HeadPos + Capacity - 1)
        BY <1>6, <1>10, <2>2, <3>2
      <4> QED
        BY <1>2, <1>6, <3>2, <4>1 DEF Core, SlotsInv
    <3> QED
      BY <3>1, <3>2
  <2> QED
    BY <1>4, <2>1, <2>2 DEF SlotsInv
<1>13. ConsumerInv'
  BY <1>2, <1>4, <1>10 DEF Core, ConsumerInv
<1> QED
  BY <1>2, <1>8, <1>9, <1>12, <1>13 DEF RingInv

LEMMA RingPopReady ==
    ASSUME Disciplined, TypeInv, RingInv, PopReady
    PROVE  RingInv'
<1> USE Lengths, SizesOK
<1>1. Core /\ live /\ live' /\ cpc = "idle" /\ cpc' = "copy"
  BY DEF PopReady, RingInv, Core, shared
<1>2. /\ readPos = Wrap(HeadPos) /\ Index(readPos) = Index(HeadPos)
      /\ Wrap(readPos + 1) = Wrap(HeadPos + 1)
      /\ HeadPos <= TailPos /\ TailPos <= HeadPos + Capacity
  BY <1>1, Positions DEF Core, CountsInv, PositionFacts
<1>3. seq[Index(HeadPos)] = Wrap(HeadPos + 1)
  BY <1>2 DEF PopReady
<1>4. Wrap(HeadPos + 1) # Wrap(HeadPos) /\ Wrap(HeadPos + 1) # Wrap(HeadPos + Capacity)
  <2>1. /\ HeadPos \in Nat /\ HeadPos + 1 \in Nat /\ HeadPos + Capacity \in Nat
        /\ HeadPos < HeadPos + 1 /\ HeadPos + 1 < HeadPos + WordSize
        /\ HeadPos + 1 < HeadPos + Capacity /\ HeadPos + Capacity < (HeadPos + 1) + WordSize
    BY DEF Disciplined
  <2> QED
    BY <2>1, Positions, Zenon DEF PositionFacts
<1>5. HeadPos < TailPos
  BY <1>1, <1>2, <1>3, <1>4 DEF Core, SlotsInv
<1>6. ~Owned(HeadPos)
  BY <1>1, <1>3, <1>4 DEF Owned, Core, ProducersInv
<1>7. /\ UNCHANGED <<shared, pc, write, attempts, out, history, HeadPos, TailPos>>
      /\ UNCHANGED <<ticket, granted, accepted, delivered>>
      /\ UNCHANGED <<writePos, readPos, seq, buffer>>
  BY DEF PopReady, shared, history, HeadPos, TailPos
<1>8. /\ \A q \in Producers : /\ Elem(q)' = Elem(q) /\ (Owner(q)' <=> Owner(q))
                              /\ (Refusing(q)' <=> Refusing(q)) /\ (Writing(q)' <=> Writing(q))
      /\ \A k : Owned(k)' <=> Owned(k)
  BY <1>7 DEF Elem, Owner, Refusing, Writing, Owned
<1>9. CountsInv' /\ ProducersInv'
  BY <1>1, <1>7, <1>8, Zenon DEF Core, CountsInv, ProducersInv
<1>10. SlotsInv'
  BY <1>1, <1>7, <1>8, Zenon DEF Core, SlotsInv
<1>11. ConsumerInv'
  BY <1>1, <1>5, <1>6, <1>7, <1>8 DEF ConsumerInv
<1> QED
  BY <1>1, <1>9, <1>10, <1>11 DEF RingInv

LEMMA RingPopCopy ==
    ASSUME Disciplined, TypeInv, RingInv, PopCopyBegin \/ PopCopyEnd
    PROVE  RingInv'
<1> USE Lengths, SizesOK
<1>1. /\ Core /\ live /\ live' /\ cpc \in {"copy", "copying"}
      /\ cpc' \in {"copying", "release"}
  BY DEF PopCopyBegin, PopCopyEnd, RingInv, Core, shared, Idle
<1>2. /\ UNCHANGED <<shared, pc, write, attempts, history, HeadPos, TailPos>>
      /\ UNCHANGED <<ticket, granted, accepted, delivered>>
      /\ UNCHANGED <<writePos, readPos, seq, buffer>>
  BY DEF PopCopyBegin, PopCopyEnd, shared, history, HeadPos, TailPos
<1>3. /\ \A q \in Producers : /\ Elem(q)' = Elem(q) /\ (Owner(q)' <=> Owner(q))
                              /\ (Refusing(q)' <=> Refusing(q)) /\ (Writing(q)' <=> Writing(q))
      /\ \A k : Owned(k)' <=> Owned(k)
  BY <1>2 DEF Elem, Owner, Refusing, Writing, Owned
<1>4. CountsInv' /\ ProducersInv'
  BY <1>1, <1>2, <1>3, Zenon DEF Core, CountsInv, ProducersInv
<1>5. SlotsInv'
  BY <1>1, <1>2, <1>3 DEF Core, SlotsInv
<1>6. ConsumerInv'
  <2>1. Index(readPos) = Index(HeadPos)
    BY <1>1, Positions DEF Core, CountsInv, PositionFacts
  <2>2. HeadPos < TailPos /\ ~Owned(HeadPos)
    BY <1>1 DEF Core, ConsumerInv
  <2>3. buffer[Index(readPos)] = accepted[HeadPos + 1]
    BY <1>1, <2>1, <2>2 DEF Core, SlotsInv
  <2>4. out' = accepted[HeadPos + 1]
    BY <1>1, <2>3 DEF PopCopyBegin, PopCopyEnd, Core, ConsumerInv
  <2> QED
    BY <1>1, <1>2, <1>3, <2>2, <2>4 DEF ConsumerInv
<1> QED
  BY <1>1, <1>4, <1>5, <1>6 DEF RingInv

LEMMA RingPopRelease ==
    ASSUME Disciplined, TypeInv, RingInv, PopRelease
    PROVE  RingInv'
<1> USE Lengths, SizesOK
<1>1. Core /\ live /\ live' /\ cpc = "release" /\ cpc' = "advance"
  BY DEF PopRelease, RingInv, Core, Idle
<1>2. /\ UNCHANGED <<pc, write, attempts, out, history, HeadPos, TailPos>>
      /\ UNCHANGED <<ticket, granted, accepted, delivered>>
      /\ UNCHANGED <<writePos, readPos, buffer>>
  BY DEF PopRelease, history, HeadPos, TailPos
<1>3. /\ \A q \in Producers : /\ Elem(q)' = Elem(q) /\ (Owner(q)' <=> Owner(q))
                              /\ (Refusing(q)' <=> Refusing(q)) /\ (Writing(q)' <=> Writing(q))
      /\ \A k : Owned(k)' <=> Owned(k)
  BY <1>2 DEF Elem, Owner, Refusing, Writing, Owned
<1>4. HeadPos < TailPos /\ TailPos <= HeadPos + Capacity /\ ~Owned(HeadPos)
  BY <1>1 DEF Core, ConsumerInv, CountsInv
<1>5. /\ Index(readPos) = Index(HeadPos) /\ Index(HeadPos) \in Slots
      /\ Wrap(readPos + Capacity) = Wrap(HeadPos + Capacity)
  BY <1>1, Positions DEF Core, CountsInv, PositionFacts
<1>6. /\ seq'[Index(HeadPos)] = Wrap(HeadPos + Capacity)
      /\ \A i \in Slots \ {Index(HeadPos)} : seq'[i] = seq[i]
  BY <1>5 DEF PopRelease, TypeInv, TypeOK
<1>7. ASSUME NEW k \in HeadPos..(HeadPos + Capacity - 1), k # HeadPos
      PROVE  seq'[Index(k)] = seq[Index(k)]
  <2>1. k \in Nat /\ HeadPos \in Nat /\ k < HeadPos + Capacity /\ HeadPos < k + Capacity
    OBVIOUS
  <2>2. Index(k) # Index(HeadPos) /\ Index(k) \in Slots
    BY <1>7, <2>1, Positions, Zenon DEF PositionFacts
  <2> QED
    BY <1>6, <2>2
<1>8. CountsInv'
  BY <1>1, <1>2, <1>3 DEF Core, CountsInv
<1>9. ProducersInv'
  <2>1. \A q \in Producers : Owner(q) => seq'[Index(ticket[q])] = seq[Index(ticket[q])]
    <3> SUFFICES ASSUME NEW q \in Producers, Owner(q)
                 PROVE  seq'[Index(ticket[q])] = seq[Index(ticket[q])]
      OBVIOUS
    <3>1. ticket[q] # HeadPos /\ HeadPos <= ticket[q] /\ ticket[q] < TailPos
      BY <1>1, <1>4, Zenon DEF Core, ProducersInv, Owned
    <3>2. ticket[q] \in HeadPos..(HeadPos + Capacity - 1)
      BY <1>4, <3>1
    <3> QED
      BY <1>7, <3>1, <3>2, Zenon
  <2> QED
    BY <1>1, <1>2, <1>3, <2>1, ZenonT(40) DEF Core, ProducersInv
<1>10. SlotsInv'
  <2>1. ASSUME NEW k \in TailPos..(HeadPos + Capacity - 1) PROVE seq'[Index(k)] = Wrap(k)
    <3>1. k \in HeadPos..(HeadPos + Capacity - 1) /\ k # HeadPos
      BY <1>4
    <3>2. seq[Index(k)] = Wrap(k)
      BY <1>1, Zenon DEF Core, SlotsInv
    <3> QED
      BY <1>7, <3>1, <3>2
  <2>2. ASSUME NEW k \in HeadPos..(TailPos - 1), ~Owned(k)
        PROVE  /\ buffer[Index(k)] = accepted[k + 1]
               /\ seq'[Index(k)] = IF k = HeadPos THEN Wrap(k + Capacity) ELSE Wrap(k + 1)
    <3>1. /\ buffer[Index(k)] = accepted[k + 1] /\ seq[Index(k)] = Wrap(k + 1)
      BY <1>1, <2>2, Zenon DEF Core, SlotsInv
    <3>2. k \in HeadPos..(HeadPos + Capacity - 1)
      BY <1>4, Intervals, Zenon DEF IntervalFacts
    <3>3. k # HeadPos => seq'[Index(k)] = seq[Index(k)]
      BY <1>7, <3>2, Zenon
    <3> QED
      BY <1>6, <3>1, <3>3, Zenon
  <2> QED
    BY <1>1, <1>2, <1>3, <2>1, <2>2, Zenon DEF SlotsInv
<1>11. ConsumerInv'
  BY <1>1, <1>2, <1>3 DEF Core, ConsumerInv
<1> QED
  BY <1>1, <1>8, <1>9, <1>10, <1>11 DEF RingInv

LEMMA RingPopAdvance ==
    ASSUME Disciplined, TypeInv, RingInv, PopAdvance
    PROVE  RingInv'
<1> USE Lengths, SizesOK
<1>1. Core /\ live /\ live' /\ cpc = "advance" /\ cpc' = "idle"
  BY DEF PopAdvance, RingInv, Core, Idle
<1>2. /\ UNCHANGED <<pc, write, attempts, ticket, granted, accepted, TailPos>>
      /\ UNCHANGED <<writePos, seq, buffer>>
      /\ HeadPos' = HeadPos + 1
  BY DEF PopAdvance, HeadPos, TailPos, TypeInv, TypeOK
<1>3. /\ \A q \in Producers : /\ Elem(q)' = Elem(q) /\ (Owner(q)' <=> Owner(q))
                              /\ (Refusing(q)' <=> Refusing(q)) /\ (Writing(q)' <=> Writing(q))
      /\ \A k : Owned(k)' <=> Owned(k)
  BY <1>2 DEF Elem, Owner, Refusing, Writing, Owned
<1>4. HeadPos < TailPos /\ TailPos <= HeadPos + Capacity /\ ~Owned(HeadPos)
  BY <1>1 DEF Core, ConsumerInv, CountsInv
<1>5. readPos' = Wrap(HeadPos + 1)
  BY <1>1, Positions DEF PopAdvance, Core, CountsInv, PositionFacts
<1>6. CountsInv'
  BY <1>1, <1>2, <1>3, <1>4, <1>5 DEF Core, CountsInv
<1>7. ProducersInv'
  <2>1. \A q \in Producers : Owner(q) => HeadPos <= ticket[q] /\ ticket[q] # HeadPos
    BY <1>1, <1>4, Zenon DEF Core, ProducersInv, Owned
  <2>2. \A q \in Producers : Owner(q) => HeadPos + 1 <= ticket[q]
    BY <2>1
  <2> QED
    BY <1>1, <1>2, <1>3, <2>2, Zenon DEF Core, ProducersInv
<1>8. SlotsInv'
  <2>1. seq[Index(HeadPos + Capacity)] = Wrap(HeadPos + Capacity)
    <3>1. seq[Index(HeadPos)] = Wrap(HeadPos + Capacity)
      BY <1>1, <1>4 DEF Core, SlotsInv
    <3> QED
      BY <3>1, Positions DEF PositionFacts
  <2>2. \A k \in TailPos..((HeadPos + 1) + Capacity - 1) : seq[Index(k)] = Wrap(k)
    BY <1>1, <2>1 DEF Core, SlotsInv
  <2>3. \A k \in (HeadPos + 1)..(TailPos - 1) : ~Owned(k) =>
            buffer[Index(k)] = accepted[k + 1] /\ seq[Index(k)] = Wrap(k + 1)
    BY <1>1 DEF Core, SlotsInv
  <2> QED
    BY <1>1, <1>2, <1>3, <2>2, <2>3, Zenon DEF SlotsInv
<1>9. ConsumerInv'
  BY <1>1 DEF ConsumerInv
<1> QED
  BY <1>1, <1>6, <1>7, <1>8, <1>9 DEF RingInv

LEMMA RingDestroy ==
    ASSUME QueueDestroy
    PROVE  RingInv'
  BY DEF QueueDestroy, RingInv, Idle, local

LEMMA RingStutter ==
    ASSUME RingInv,
           UNCHANGED vars \/ \E p \in Producers : PushNotInit(p)
    PROVE  RingInv'
<1>1. CASE UNCHANGED vars
  <2>1. /\ UNCHANGED <<live, writePos, readPos, seq, buffer>>
        /\ UNCHANGED <<pc, write, attempts, cpc, out>>
        /\ UNCHANGED <<ticket, granted, accepted, delivered, refused>>
    BY <1>1 DEF vars, shared, local, history
  <2>2. UNCHANGED <<HeadPos, TailPos>>
    BY <2>1 DEF HeadPos, TailPos
  <2>3. \A p \in Producers : /\ Refusing(p)' <=> Refusing(p)
                             /\ Owner(p)' <=> Owner(p)
                             /\ Writing(p)' <=> Writing(p)
                             /\ Elem(p)' = Elem(p)
    BY <2>1 DEF Refusing, Owner, Writing, Elem
  <2>4. \A k : Owned(k)' <=> Owned(k)
    BY <2>1, <2>3 DEF Owned
  <2>5. /\ Idle' <=> Idle
        /\ CountsInv => CountsInv'
        /\ ProducersInv => ProducersInv'
    BY <2>1, <2>2, <2>3, Zenon DEF Idle, CountsInv, ProducersInv
  <2>6. /\ SlotsInv => SlotsInv'
        /\ ConsumerInv => ConsumerInv'
    BY <2>1, <2>2, <2>4 DEF SlotsInv, ConsumerInv
  <2> QED
    BY <2>1, <2>5, <2>6 DEF RingInv
<1>2. CASE \E p \in Producers : PushNotInit(p)
  BY <1>2 DEF PushNotInit, RingInv, Idle, shared
<1> QED
  BY <1>1, <1>2

LEMMA RingStep ==
    ASSUME Disciplined, TypeInv, RingInv, [Next]_vars
    PROVE  RingInv'
<1>1. ASSUME NEW p \in Producers, PushClaim(p) \/ PushStep(p) PROVE RingInv'
  <2>1. CASE PushClaim(p)
    BY <2>1, RingClaim
  <2>2. CASE PushFull(p)
    BY <2>2, RingFull
  <2>3. CASE PushAdmit(p)
    BY <2>3, RingAdmit
  <2>4. CASE PushRollback(p)
    BY <2>4, RingRollback
  <2>5. CASE PushReserve(p) \/ PushBreak(p) \/ PushCopyBegin(p) \/ PushCopyEnd(p)
    BY <2>5, RingCasCopy
  <2>6. CASE PushPublish(p)
    BY <2>6, RingPublish
  <2> QED
    BY <1>1, <2>1, <2>2, <2>3, <2>4, <2>5, <2>6 DEF PushStep
<1>2. CASE PopStep
  BY <1>2, RingPopReady, RingPopCopy, RingPopRelease, RingPopAdvance DEF PopStep
<1>3. CASE QueueInit \/ QueueDestroy
  BY <1>3, RingQueueInit, RingDestroy
<1>4. CASE UNCHANGED vars \/ \E p \in Producers : PushNotInit(p)
  BY <1>4, RingStutter
<1> QED
  BY <1>1, <1>2, <1>3, <1>4 DEF Next

(* Every position inside the ring of silog_mpsc.c is free, owned by one    *)
(* push or published, and its slot's seq says which, for every capacity of *)
(* two or more and any number of orderly producers.                        *)
THEOREM RingCorrect ==
    ASSUME Capacity >= 2, Orderly
    PROVE  Spec => []RingInv
<1>1. Init => TypeInv /\ RingInv
  BY TypeInit, RingInit
<1>2. TypeInv /\ RingInv /\ [Next]_vars => (TypeInv /\ RingInv)'
  BY TypeStep, RingStep DEF Disciplined
<1> QED
  BY <1>1, <1>2, PTL DEF Spec

LEMMA FifoStep ==
    ASSUME Disciplined, TypeInv, RingInv, FifoDelivery, [Next]_vars
    PROVE  FifoDelivery'
<1>t. /\ accepted \in Seq(Elements) /\ delivered \in Seq(Elements \cup {Torn})
      /\ \A p \in Producers : attempts[p] \in 0..MaxPush
  BY DEF TypeInv, TypeOK
<1>1. CASE accepted' = << >> /\ delivered' = << >>
  <2>1. Len(accepted') = 0 /\ Len(delivered') = 0
    BY <1>1
  <2>2. 1..Len(delivered') = {} /\ Len(delivered') <= Len(accepted')
    BY <2>1
  <2> QED
    BY <2>2 DEF FifoDelivery
<1>2. ASSUME NEW e \in Elements, accepted' = Append(accepted, e), UNCHANGED delivered
      PROVE  FifoDelivery'
  <2>1. /\ Len(accepted') = Len(accepted) + 1
        /\ \A n \in 1..Len(accepted) : accepted'[n] = accepted[n]
    BY <1>2, <1>t
  <2>2. Len(accepted) \in Nat /\ Len(delivered) \in Nat /\ delivered' = delivered
    BY <1>2, <1>t
  <2>3. Len(delivered) <= Len(accepted) /\ \A n \in 1..Len(delivered) : delivered[n] = accepted[n]
    BY DEF FifoDelivery
  <2>4. \A n \in 1..Len(delivered) : n \in 1..Len(accepted)
    BY <2>2, <2>3
  <2> QED
    BY <2>1, <2>2, <2>3, <2>4 DEF FifoDelivery
<1>3. CASE PopAdvance
  <2>1. out = accepted[HeadPos + 1] /\ HeadPos < TailPos
    BY <1>3 DEF PopAdvance, RingInv, ConsumerInv, Idle
  <2>2. delivered' = Append(delivered, out) /\ accepted' = accepted /\ out \in Elements \cup {Torn}
    BY <1>3 DEF PopAdvance, TypeInv, TypeOK
  <2> QED
    BY <1>t, <2>1, <2>2 DEF FifoDelivery, HeadPos, TailPos
<1>4. CASE UNCHANGED <<accepted, delivered>>
  BY <1>4 DEF FifoDelivery
<1>5. ASSUME NEW p \in Producers, PushClaim(p) PROVE FifoDelivery'
  <2>1. <<p, attempts[p] + 1>> \in Elements /\ UNCHANGED delivered
    BY <1>5, <1>t, MpscAssumption DEF PushClaim, Elements
  <2>2. accepted' = accepted \/ accepted' = Append(accepted, <<p, attempts[p] + 1>>)
    BY <1>5 DEF PushClaim
  <2> QED
    BY <1>2, <1>4, <2>1, <2>2, Zenon
<1>6. ASSUME NEW p \in Producers, PushAdmit(p) PROVE FifoDelivery'
  <2>1. Elem(p) \in Elements /\ UNCHANGED delivered
    BY <1>6 DEF PushAdmit, TypeInv, TypeOK, Numbered, Elem, Elements
  <2>2. accepted' = accepted \/ accepted' = Append(accepted, Elem(p))
    BY <1>6, Zenon DEF PushAdmit
  <2> QED
    BY <1>2, <1>4, <2>1, <2>2
<1> QED
  BY <1>1, <1>3, <1>4, <1>5, <1>6, Zenon
     DEF Next, PushStep, PopStep, QueueInit, QueueDestroy, PushNotInit, PushFull, PushRollback,
         PushReserve, PushBreak, PushCopyBegin, PushCopyEnd, PushPublish, PopReady, PopCopyBegin,
         PopCopyEnd, PopRelease, vars, history

(* SilogMpscQueuePop hands out the accepted elements whole, once each and  *)
(* in the order of their positions: nothing is lost, doubled or torn.      *)
THEOREM FifoCorrect ==
    ASSUME Capacity >= 2, Orderly
    PROVE  Spec => []FifoDelivery
<1>1. Init => TypeInv /\ RingInv /\ FifoDelivery
  BY TypeInit, RingInit DEF Init, FifoDelivery
<1>2. TypeInv /\ RingInv /\ FifoDelivery /\ [Next]_vars => (TypeInv /\ RingInv /\ FifoDelivery)'
  BY TypeStep, RingStep, FifoStep DEF Disciplined
<1> QED
  BY <1>1, <1>2, PTL DEF Spec

LEMMA RingSafe ==
    ASSUME TypeInv, RingInv
    PROVE  NoOverlap /\ CasSucceeds
<1> USE Lengths, SizesOK
<1>1. ASSUME NEW p \in Producers, pc[p] # "idle" PROVE Core
  BY <1>1 DEF RingInv, Idle, Core
<1>2. ASSUME NEW p \in Producers, Writing(p) PROVE Owner(p)
  BY <1>2 DEF Writing, Owner, Refusing
<1>3. ASSUME NEW p \in Producers, Writing(p), NEW q \in Producers \ {p}, Writing(q)
      PROVE  Index(write[q]) # Index(write[p])
  <2>1. Owner(p) /\ Owner(q) /\ Core
    BY <1>1, <1>2, <1>3 DEF Writing
  <2> QED
    BY <2>1, OwnedSlot, Zenon
<1>4. ASSUME NEW p \in Producers, Writing(p), cpc # "idle"
      PROVE  Index(write[p]) # Index(readPos)
  <2>1. Owner(p) /\ Core
    BY <1>1, <1>2, <1>4 DEF Writing
  <2>2. ticket[p] # HeadPos /\ readPos = Wrap(HeadPos)
    BY <1>4, <2>1 DEF Core, ConsumerInv, CountsInv, Owned
  <2>3. Index(readPos) = Index(HeadPos)
    BY <2>2, Positions DEF PositionFacts
  <2>4. HeadPos \in HeadPos..(HeadPos + Capacity - 1)
    OBVIOUS
  <2>5. Index(write[p]) = Index(ticket[p]) /\ Index(HeadPos) # Index(ticket[p])
    BY <2>1, <2>2, <2>4, OwnedSlot, Zenon
  <2> QED
    BY <2>3, <2>5
<1>5. ASSUME NEW p \in Producers, pc[p] = "cas"
      PROVE  seq[Index(write[p])] = write[p]
  <2>1. Owner(p) /\ Core /\ ~Writing(p)
    BY <1>1, <1>5 DEF Owner, Refusing, Writing
  <2>2. seq[Index(ticket[p])] = Wrap(ticket[p])
    BY <2>1, Zenon DEF Core, ProducersInv
  <2> QED
    BY <2>1, <2>2, OwnedSlot
<1> QED
  BY <1>3, <1>4, <1>5 DEF NoOverlap, CasSucceeds

(* No two of the memcpy_s of Push and Pop ever work on the same slot.      *)
THEOREM OverlapFree ==
    ASSUME Capacity >= 2, Orderly
    PROVE  Spec => []NoOverlap
<1>1. Init => TypeInv /\ RingInv
  BY TypeInit, RingInit
<1>2. TypeInv /\ RingInv /\ [Next]_vars => (TypeInv /\ RingInv)'
  BY TypeStep, RingStep DEF Disciplined
<1>3. TypeInv /\ RingInv => NoOverlap
  BY RingSafe
<1> QED
  BY <1>1, <1>2, <1>3, PTL DEF Spec

(* The compare-exchange of Push always succeeds at once, so a push takes a *)
(* bounded number of its own steps.                                        *)
THEOREM CasNeverRetries ==
    ASSUME Capacity >= 2, Orderly
    PROVE  Spec => []CasSucceeds
<1>1. Init => TypeInv /\ RingInv
  BY TypeInit, RingInit
<1>2. TypeInv /\ RingInv /\ [Next]_vars => (TypeInv /\ RingInv)'
  BY TypeStep, RingStep DEF Disciplined
<1>3. TypeInv /\ RingInv => CasSucceeds
  BY RingSafe
<1> QED
  BY <1>1, <1>2, <1>3, PTL DEF Spec
=============================================================================
