------------------------------- MODULE PQueue -------------------------------
(***************************************************************************)
(* The priority queue of silog_comm/src/silog_pqueue.c with its whole life *)
(* cycle, used by one thread.  A queue that compares a - b is the "big     *)
(* root heap" of silog_pqueue.h.                                           *)
(***************************************************************************)
EXTENDS Integers, FiniteSets, Bags

CONSTANTS Keys,         \* elements, compared as integers
          Capacities,   \* capacities a caller asks for
          Allocates     \* possible outcomes of SiMalloc: {TRUE} or BOOLEAN

ASSUME PQueueAssumption ==
    /\ Keys \subseteq Int
    /\ Capacities \subseteq Nat
    /\ Allocates \subseteq BOOLEAN

VARIABLES buffer,    \* elements at 0..(size - 1)
          capacity,  \* 0 before Init, and after Destroy
          known,     \* are elementSize and compare set? (Destroy leaves them)
          \* History:
          inside,    \* bag of elements pushed and not popped since
          sound      \* no step has had leave to disturb the heap order

vars == <<buffer, capacity, known, inside, sound>>

Compare(a, b) == a - b
H == INSTANCE Heap

NoElements == [i \in {} |-> 0]
size == H!Size(buffer)

Init ==
    /\ buffer = NoElements
    /\ capacity = 0 /\ known = FALSE
    /\ inside = EmptyBag
    /\ sound = TRUE

Forget ==
    /\ buffer' = NoElements
    /\ inside' = EmptyBag
    /\ sound' = TRUE

\* The client does not initialise a live queue; a refused call changes nothing.
PQueueInit(c) ==
    /\ capacity = 0
    /\ c # 0
    /\ capacity' = c /\ known' = TRUE
    /\ Forget

PQueueDestroy ==
    /\ capacity' = 0
    /\ Forget
    /\ UNCHANGED known

PQueueClear ==
    /\ Forget
    /\ UNCHANGED <<capacity, known>>

Push(e, allocated) ==
    /\ size < capacity
    /\ buffer' = H!Inserted(buffer, e, allocated)
    /\ inside' = inside (+) SetToBag({e})
    /\ sound' = (sound /\ allocated)
    /\ UNCHANGED <<capacity, known>>

Peek == buffer[0]

\* SiftDown moves the replacement of the root down one level only: with three
\* elements left that is the whole heap, with one left there is no order.
Pop(allocated) ==
    /\ size > 0
    /\ buffer' = H!Removed(buffer, allocated)
    /\ inside' = inside (-) SetToBag({Peek})
    /\ sound' = \/ sound /\ allocated /\ size - 1 <= 3
                \/ size - 1 <= 1
    /\ UNCHANGED <<capacity, known>>

\* Also of a queue that has been destroyed, which it brings back to life
Reserve(c) ==
    /\ known
    /\ c > capacity
    /\ capacity' = c
    /\ UNCHANGED <<buffer, known, inside, sound>>

Next ==
    \/ \E c \in Capacities : PQueueInit(c) \/ Reserve(c)
    \/ \E allocated \in Allocates :
          Pop(allocated) \/ \E e \in Keys : Push(e, allocated)
    \/ PQueueClear
    \/ PQueueDestroy

Spec == Init /\ [][Next]_vars
-----------------------------------------------------------------------------
\* Conservation: whatever the order of calls, and even when a sift cannot
\* allocate its temporary, the buffer holds exactly the elements pushed and
\* not yet popped, each as often as it was pushed, and never more of them
\* than the capacity.  (Sifting overwrites cells one after the other:
\* silog_pqueue.c 75-157.)
Conservation ==
    /\ size <= capacity
    /\ DOMAIN buffer = 0..(size - 1)
    /\ \A k \in Keys :
          CopiesIn(k, inside) = Cardinality({i \in DOMAIN buffer : buffer[i] = k})

\* ShallowHeapOrder: pushes alone keep the heap order, and so does every Pop
\* that leaves at most three elements, as long as the temporaries of SiftUp
\* and SiftDown can be allocated.  This is the part of the heap order that
\* SiftDown as written guarantees.
ShallowHeapOrder ==
    sound => H!HeapOrdered(buffer)

\* TopIsGreatest: the root is the greatest element, so that Pop and Peek
\* return it.  This is what the header says of a comparison a - b ("big root
\* heap") and what the unit test MaxHeapOrder expects; SiftDown compares the
\* children with the wrong cell, and some sequences of calls break it.
TopIsGreatest ==
    \A i \in DOMAIN buffer : Compare(buffer[i], Peek) <= 0
=============================================================================
