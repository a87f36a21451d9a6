-------------------------------- MODULE Heap --------------------------------
(***************************************************************************)
(* The array heap inside silog_comm/src/silog_pqueue.c, as operators on a  *)
(* function from 0..(size - 1) to elements.  The comparison function is a  *)
(* parameter, as in the code: a positive result means that the first       *)
(* argument goes nearer to the top.                                        *)
(***************************************************************************)
EXTENDS Integers, FiniteSets

CONSTANT Compare(_, _)

Size(b) == Cardinality(DOMAIN b)
Parent(i) == (i - 1) \div 2
Left(i) == 2 * i + 1
Right(i) == 2 * i + 2

\* Parents move down into the hole until one is not below the new element.
\* The loop reads b only at positions it has not written yet.
SiftUp(b, i) ==
    LET Rise[j \in 0..i] ==
            IF j > 0 /\ Compare(b[i], b[Parent(j)]) > 0
            THEN [Rise[Parent(j)] EXCEPT ![j] = b[Parent(j)]]
            ELSE [b EXCEPT ![j] = b[i]]
    IN  Rise[i]

\* Fault: the right child is not looked at.
LargestLeft(b, i) ==
    IF Left(i) < Size(b) /\ Compare(b[Left(i)], b[i]) > 0 THEN Left(i) ELSE i

\* The two comparisons of one round of SiftDown at position i.
Largest(b, i) ==
    LET l == IF Left(i) < Size(b) /\ Compare(b[Left(i)], b[i]) > 0
             THEN Left(i) ELSE i
    IN  IF Right(i) < Size(b) /\ Compare(b[Right(i)], b[l]) > 0
        THEN Right(i) ELSE l

\* Fault: the element is not put into its final place.
SiftDownForgets(b) ==
    LET Sink[j \in DOMAIN b] ==
            LET m == Largest(b, j) IN
            IF m = j THEN b ELSE [Sink[m] EXCEPT ![j] = b[m]]
    IN  Sink[0]

\* From position 0 the larger child moves up, until neither child is above
\* buffer[index].  That cell still holds the child that has just been copied
\* up, not the element temp being placed, so b is never read after a write.
SiftDown(b) ==
    LET Sink[j \in DOMAIN b] ==
            LET m == Largest(b, j) IN
            IF m = j THEN [b EXCEPT ![j] = b[0]]
                     ELSE [Sink[m] EXCEPT ![j] = b[m]]
    IN  Sink[0]

\* Both sifts first allocate a temporary, and do nothing if that fails.
Inserted(b, e, allocated) ==
    LET n == Size(b)
        grown == [i \in 0..n |-> IF i = n THEN e ELSE b[i]]
    IN  IF allocated THEN SiftUp(grown, n) ELSE grown

Removed(b, allocated) ==
    LET n == Size(b) - 1
        shrunk == [i \in 0..(n - 1) |-> IF i = 0 THEN b[n] ELSE b[i]]
    IN  IF n > 0 /\ allocated THEN SiftDown(shrunk) ELSE shrunk

HeapOrdered(b) ==
    \A i \in DOMAIN b \ {0} : Compare(b[i], b[Parent(i)]) <= 0
=============================================================================
