-------------------------------- MODULE Mpsc --------------------------------
(***************************************************************************)
(* The lock-free ring of silog_comm/src/silog_mpsc.c: any number of        *)
(* producers call SilogMpscQueuePush, one consumer calls SilogMpscQueuePop.*)
(* Every access to an atomic of SiLogMpscQueue is one step, and the two    *)
(* memcpy_s are two steps each, so that overlapping copies are seen.       *)
(* Positions are unsigned words: all their arithmetic is modulo WordSize.  *)
(***************************************************************************)
EXTENDS Integers, Sequences, FiniteSets, Functions

CONSTANTS Producers,   \* threads that push
          Capacity,    \* slots; a power of two in the code
          WordSize,    \* 2^32 in the code
          MaxPush,     \* bound: pushes attempted per producer
          Orderly,     \* whether the callers keep to the rule of MayClaim
          Torn         \* slot content that is no element: uninitialised or half copied

Elements == Producers \X (1..MaxPush)

ASSUME MpscAssumption ==
    /\ Capacity \in Nat \ {0}
    /\ WordSize \in Nat
    /\ WordSize >= 2 * Capacity
    /\ WordSize % Capacity = 0
    /\ MaxPush \in Nat
    /\ Orderly \in BOOLEAN
    /\ Torn \notin Elements

VARIABLES live,      \* buffer and seq are allocated
          writePos, readPos, seq, buffer,
          pc,        \* next statement of each producer's Push
          write,     \* its local variable write
          attempts,  \* number of its latest push; names the element
          cpc, out,  \* next statement of the consumer's Pop and its outElement
          \* History, read by no action of the code:
          ticket,    \* the position of a push, counted without wrapping
          granted,   \* producers whose fetch_add returned a position with room
          accepted,  \* elements taken in, in the order of their positions
          delivered, \* elements handed out, in order
          refused    \* elements for which Push returned SILOG_TRANS_QUEUE_FULL

shared == <<live, writePos, readPos, seq, buffer>>
local == <<pc, write, attempts, cpc, out>>
history == <<ticket, granted, accepted, delivered, refused>>
vars == <<shared, local, history>>

Slots == 0..(Capacity - 1)
Words == 0..(WordSize - 1)

Wrap(x) == x % WordSize
Index(x) == x % Capacity          \* write & capacityMask

Elem(p) == <<p, attempts[p]>>
Idle == cpc = "idle" /\ \A p \in Producers : pc[p] = "idle"

Init ==
    /\ live = FALSE
    /\ writePos = 0 /\ readPos = 0
    /\ seq = [i \in Slots |-> 0]
    /\ buffer = [i \in Slots |-> Torn]
    /\ pc = [p \in Producers |-> "idle"]
    /\ write = [p \in Producers |-> 0]
    /\ attempts = [p \in Producers |-> 0]
    /\ cpc = "idle" /\ out = Torn
    /\ ticket = [p \in Producers |-> 0]
    /\ granted = {} /\ refused = {}
    /\ accepted = << >> /\ delivered = << >>

-----------------------------------------------------------------------------
(* SilogMpscQueueInit.  When an allocation fails buffer stays NULL, which  *)
(* is the state the queue is already in.                                   *)
QueueInit ==
    /\ ~live /\ Idle
    /\ live' = TRUE
    /\ writePos' = 0 /\ readPos' = 0
    /\ seq' = [i \in Slots |-> i]
    /\ buffer' = [i \in Slots |-> Torn]
    /\ accepted' = << >> /\ delivered' = << >>
    /\ UNCHANGED <<local, ticket, granted, refused>>

(* SilogMpscQueueDestroy; the owner has joined the threads that use it.    *)
QueueDestroy ==
    /\ live /\ Idle
    /\ live' = FALSE
    /\ accepted' = << >> /\ delivered' = << >>
    /\ UNCHANGED <<writePos, readPos, seq, buffer, local, ticket, granted, refused>>

-----------------------------------------------------------------------------
(* Push, one action per access.                                            *)

Refusing(p) == pc[p] = "rollback" \/ (pc[p] = "claimed" /\ p \notin granted)

(* The callers.  Orderly callers push alone (the daemon's queue has one    *)
(* receive thread, the compression queue is fed under the manager's lock), *)
(* or several at a time while there is room: a push that may find the ring *)
(* full never overlaps another.  The logger's queue has callers that are   *)
(* not orderly: any number of threads and any load.                        *)
MayClaim(p) ==
    \/ ~Orderly
    \/ \A q \in Producers \ {p} : pc[q] = "idle"
    \/ /\ Wrap(writePos - readPos) < Capacity
       /\ \A q \in Producers : ~Refusing(q)

Goto(p, label) == pc' = [pc EXCEPT ![p] = label]

\* Push on a queue that is not initialised: SILOG_TRANS_NOT_INIT.
PushNotInit(p) ==
    /\ ~live /\ pc[p] = "idle" /\ attempts[p] < MaxPush
    /\ attempts' = [attempts EXCEPT ![p] = @ + 1]
    /\ UNCHANGED <<shared, pc, write, cpc, out, history>>

\* write = atomic_fetch_add(&writePos, 1)
PushClaim(p) ==
    /\ live /\ pc[p] = "idle" /\ attempts[p] < MaxPush
    /\ MayClaim(p)
    /\ attempts' = [attempts EXCEPT ![p] = @ + 1]
    /\ write' = [write EXCEPT ![p] = writePos]
    /\ writePos' = Wrap(writePos + 1)
    /\ Goto(p, "claimed")
    /\ ticket' = [ticket EXCEPT ![p] = Len(accepted)]
    /\ IF Wrap(writePos - readPos) < Capacity
       THEN /\ granted' = granted \cup {p}
            /\ accepted' = Append(accepted, <<p, attempts[p] + 1>>)
       ELSE /\ granted' = granted \ {p}
            /\ UNCHANGED accepted
    /\ UNCHANGED <<live, readPos, seq, buffer, cpc, out, delivered, refused>>

\* Faults: the comparison off by one, either way.
SeesFullLate(p) == Wrap(write[p] - readPos) > Capacity
SeesFullEarly(p) == Wrap(write[p] - readPos) >= Capacity - 1

\* write - read >= capacity, with readPos loaded now
SeesFull(p) == Wrap(write[p] - readPos) >= Capacity

PushFull(p) ==
    /\ pc[p] = "claimed" /\ SeesFull(p)
    /\ Goto(p, "rollback")
    /\ refused' = refused \cup {Elem(p)}
    /\ UNCHANGED <<shared, write, attempts, cpc, out,
                   ticket, granted, accepted, delivered>>

PushAdmit(p) ==
    /\ pc[p] = "claimed" /\ ~SeesFull(p)
    /\ Goto(p, "cas")
    /\ accepted' = IF p \in granted THEN accepted ELSE Append(accepted, Elem(p))
    /\ UNCHANGED <<shared, write, attempts, cpc, out,
                   ticket, granted, delivered, refused>>

\* Fault: the claim is not undone.
PushRollbackNot(p) ==
    /\ pc[p] = "rollback"
    /\ Goto(p, "idle")
    /\ UNCHANGED <<shared, write, attempts, cpc, out, history>>

\* Fault: the word does not wrap.
PushRollbackNoWrap(p) ==
    /\ pc[p] = "rollback"
    /\ writePos' = writePos - 1
    /\ Goto(p, "idle")
    /\ UNCHANGED <<live, readPos, seq, buffer, write, attempts, cpc, out, history>>

\* atomic_fetch_sub(&writePos, 1)
PushRollback(p) ==
    /\ pc[p] = "rollback"
    /\ writePos' = Wrap(writePos - 1)
    /\ Goto(p, "idle")
    /\ UNCHANGED <<live, readPos, seq, buffer, write, attempts, cpc, out, history>>

\* Fault: desired = write + 1, the slot is published before the copy.
PushReserveEarly(p) ==
    /\ pc[p] = "cas" /\ seq[Index(write[p])] = write[p]
    /\ seq' = [seq EXCEPT ![Index(write[p])] = Wrap(write[p] + 1)]
    /\ Goto(p, "copy")
    /\ UNCHANGED <<live, writePos, readPos, buffer, write, attempts, cpc, out, history>>

\* The compare-exchange that succeeds: expected = write, desired = write + capacity.
PushReserve(p) ==
    /\ pc[p] = "cas" /\ seq[Index(write[p])] = write[p]
    /\ seq' = [seq EXCEPT ![Index(write[p])] = Wrap(write[p] + Capacity)]
    /\ Goto(p, "copy")
    /\ UNCHANGED <<live, writePos, readPos, buffer, write, attempts, cpc, out, history>>

\* The compare-exchange that finds desired and leaves the loop.  With any
\* other value the loop goes round again and changes nothing.
PushBreak(p) ==
    /\ pc[p] = "cas" /\ seq[Index(write[p])] = Wrap(write[p] + Capacity)
    /\ Goto(p, "copy")
    /\ UNCHANGED <<shared, write, attempts, cpc, out, history>>

PushCopyBegin(p) ==
    /\ pc[p] = "copy"
    /\ buffer' = [buffer EXCEPT ![Index(write[p])] = Torn]
    /\ Goto(p, "copying")
    /\ UNCHANGED <<live, writePos, readPos, seq, write, attempts, cpc, out, history>>

PushCopyEnd(p) ==
    /\ pc[p] = "copying"
    /\ buffer' = [buffer EXCEPT ![Index(write[p])] = Elem(p)]
    /\ Goto(p, "publish")
    /\ UNCHANGED <<live, writePos, readPos, seq, write, attempts, cpc, out, history>>

\* seq[index] = write + 1
PushPublish(p) ==
    /\ pc[p] = "publish"
    /\ seq' = [seq EXCEPT ![Index(write[p])] = Wrap(write[p] + 1)]
    /\ Goto(p, "idle")
    /\ UNCHANGED <<live, writePos, readPos, buffer, write, attempts, cpc, out, history>>

PushStep(p) ==
    \/ PushFull(p) \/ PushAdmit(p) \/ PushRollback(p)
    \/ PushReserve(p) \/ PushBreak(p)
    \/ PushCopyBegin(p) \/ PushCopyEnd(p) \/ PushPublish(p)

-----------------------------------------------------------------------------

\* Fault: any slot that is not free is taken for ready.
PopReadyAny ==
    /\ live /\ cpc = "idle"
    /\ seq[Index(readPos)] # readPos
    /\ cpc' = "copy"
    /\ UNCHANGED <<shared, pc, write, attempts, out, history>>

(* Pop.  Only the consumer writes readPos, so its load needs no step of    *)
(* its own.  When seq[index] # read + 1 Pop returns SILOG_TRANS_QUEUE_EMPTY *)
(* and when the queue is not live SILOG_TRANS_NOT_INIT: nothing changes.   *)
PopReady ==
    /\ live /\ cpc = "idle"
    /\ seq[Index(readPos)] = Wrap(readPos + 1)
    /\ cpc' = "copy"
    /\ UNCHANGED <<shared, pc, write, attempts, out, history>>

PopCopyBegin ==
    /\ cpc = "copy"
    /\ out' = buffer[Index(readPos)]
    /\ cpc' = "copying"
    /\ UNCHANGED <<shared, pc, write, attempts, history>>

\* A slot written while it is copied gives a torn element.
PopCopyEnd ==
    /\ cpc = "copying"
    /\ out' = IF buffer[Index(readPos)] = out THEN out ELSE Torn
    /\ cpc' = "release"
    /\ UNCHANGED <<shared, pc, write, attempts, history>>

\* Fault: the slot is not handed back.
PopReleaseNot ==
    /\ cpc = "release"
    /\ cpc' = "advance"
    /\ UNCHANGED <<shared, pc, write, attempts, out, history>>

\* seq[index] = read + capacity
PopRelease ==
    /\ cpc = "release"
    /\ seq' = [seq EXCEPT ![Index(readPos)] = Wrap(readPos + Capacity)]
    /\ cpc' = "advance"
    /\ UNCHANGED <<live, writePos, readPos, buffer, pc, write, attempts, out, history>>

\* readPos = read + 1
PopAdvance ==
    /\ cpc = "advance"
    /\ readPos' = Wrap(readPos + 1)
    /\ delivered' = Append(delivered, out)
    /\ cpc' = "idle"
    /\ UNCHANGED <<live, writePos, seq, buffer, pc, write, attempts, out,
                   ticket, granted, accepted, refused>>

PopStep == PopReady \/ PopCopyBegin \/ PopCopyEnd \/ PopRelease \/ PopAdvance

-----------------------------------------------------------------------------
Next ==
    \/ QueueInit \/ QueueDestroy
    \/ \E p \in Producers : PushNotInit(p) \/ PushClaim(p) \/ PushStep(p)
    \/ PopStep

\* The scheduler runs every thread: a push that was begun goes on, and the
\* consumer polls.  Nothing forces a new push, an Init or a Destroy.
Fairness ==
    /\ \A p \in Producers : WF_vars(PushStep(p))
    /\ WF_vars(PopStep)

Spec == Init /\ [][Next]_vars
LiveSpec == Spec /\ Fairness
-----------------------------------------------------------------------------
(* Properties.  TypeOK and IntactDelivery hold for all callers, the others *)
(* for orderly ones.                                                       *)

(* Positions, sequence numbers and thread-local copies stay unsigned words *)
(* through every claim, rollback and wraparound of silog_mpsc.c; the ghost *)
(* positions are natural numbers.                                          *)
TypeOK ==
    /\ live \in BOOLEAN
    /\ writePos \in Words /\ readPos \in Words
    /\ seq \in [Slots -> Words]
    /\ buffer \in [Slots -> Elements \cup {Torn}]
    /\ pc \in [Producers -> {"idle", "claimed", "rollback", "cas", "copy",
                             "copying", "publish"}]
    /\ write \in [Producers -> Words]
    /\ attempts \in [Producers -> 0..MaxPush]
    /\ cpc \in {"idle", "copy", "copying", "release", "advance"}
    /\ out \in Elements \cup {Torn}
    /\ ticket \in [Producers -> Nat]
    /\ granted \subseteq Producers
    /\ accepted \in Seq(Elements)
    /\ delivered \in Seq(Elements \cup {Torn})
    /\ refused \subseteq Elements

(* What SilogMpscQueuePop hands out is what was accepted, whole, once and  *)
(* in the order in which the positions were claimed.                       *)
FifoDelivery ==
    /\ Len(delivered) <= Len(accepted)
    /\ \A n \in 1..Len(delivered) : delivered[n] = accepted[n]

Writing(p) == pc[p] \in {"copy", "copying", "publish"}

(* No two threads are inside the memcpy_s of the same slot: neither two    *)
(* producers nor a producer and the consumer.                              *)
NoOverlap ==
    \A p \in Producers : Writing(p) =>
        /\ \A q \in Producers \ {p} : Writing(q) => Index(write[q]) # Index(write[p])
        /\ cpc \in {"copy", "copying", "release"} => Index(write[p]) # Index(readPos)

(* The compare-exchange loop of Push never goes round: when it is reached  *)
(* the slot is free, so a push finishes in a bounded number of its own     *)
(* steps whatever the other threads do.                                    *)
CasSucceeds ==
    \A p \in Producers : pc[p] = "cas" => seq[Index(write[p])] = write[p]

(* Why the ring is correct, as an inductive invariant.  Positions HeadPos   *)
(* to TailPos - 1 are inside the queue; a push that has a position there   *)
(* and has not published it owns it.                                       *)
HeadPos == Len(delivered)
TailPos == Len(accepted)
Owner(p) == pc[p] # "idle" /\ ~Refusing(p)
Owned(k) == \E p \in Producers : Owner(p) /\ ticket[p] = k

CountsInv ==
    /\ readPos = Wrap(HeadPos)
    /\ writePos = IF \E p \in Producers : Refusing(p) THEN Wrap(TailPos + 1) ELSE Wrap(TailPos)
    /\ HeadPos <= TailPos /\ TailPos <= HeadPos + Capacity

ProducersInv ==
    \A p \in Producers :
        /\ pc[p] # "idle" => write[p] = Wrap(ticket[p])
        /\ Refusing(p) => /\ ticket[p] = TailPos
                          /\ \A q \in Producers \ {p} : pc[q] = "idle"
        /\ Owner(p) => /\ HeadPos <= ticket[p] /\ ticket[p] < TailPos
                       /\ accepted[ticket[p] + 1] = Elem(p)
                       /\ \A q \in Producers \ {p} : Owner(q) => ticket[q] # ticket[p]
                       /\ seq[Index(ticket[p])] =
                            IF Writing(p) THEN Wrap(ticket[p] + Capacity) ELSE Wrap(ticket[p])
                       /\ pc[p] = "publish" => buffer[Index(ticket[p])] = Elem(p)

SlotsInv ==
    /\ \A k \in TailPos..(HeadPos + Capacity - 1) : seq[Index(k)] = Wrap(k)
    /\ \A k \in HeadPos..(TailPos - 1) : ~Owned(k) =>
          /\ buffer[Index(k)] = accepted[k + 1]
          /\ seq[Index(k)] = IF k = HeadPos /\ cpc = "advance"
                             THEN Wrap(k + Capacity) ELSE Wrap(k + 1)

ConsumerInv ==
    cpc # "idle" => /\ HeadPos < TailPos /\ ~Owned(HeadPos)
                    /\ cpc # "copy" => out = accepted[HeadPos + 1]

RingInv ==
    /\ ~live => Idle
    /\ live => CountsInv /\ ProducersInv /\ SlotsInv /\ ConsumerInv

(* What SilogMpscQueuePop hands out when callers that are not orderly      *)
(* overlap in a full ring, where positions are given back out of order and *)
(* handed out twice (lines 80-83): every element is whole, was not refused *)
(* to its producer, comes out once, and after the earlier ones of the same *)
(* producer.  Elements may then be stuck or their producers spin, but what *)
(* comes out is right.                                                     *)
IntactDelivery ==
    \A n \in 1..Len(delivered) :
        /\ delivered[n] # Torn
        /\ delivered[n] \notin refused
        /\ \A m \in 1..(n - 1) :
              delivered[m][1] = delivered[n][1] => delivered[m][2] < delivered[n][2]

(* The elements inside the queue, as its clients see them.                 *)
Pending == SubSeq(accepted, Len(delivered) + 1, Len(accepted))
Fifo == INSTANCE BoundedFifo WITH queue <- Pending

(* The ring implements the bounded FIFO: a push is refused only when all   *)
(* slots are taken, and what is accepted is handed out as long as the      *)
(* consumer polls.                                                         *)
ImplementsFifo == Fifo!Spec

(* silog_mpsc.h, Push: "multi-producer, never blocks".  Every push that is *)
(* begun returns.                                                          *)
PushReturns == \A p \in Producers : (pc[p] # "idle") ~> (pc[p] = "idle")
=============================================================================
