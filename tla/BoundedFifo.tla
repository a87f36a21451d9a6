---------------------------- MODULE BoundedFifo ----------------------------
(***************************************************************************)
(* What a client of the SiLog queue relies on: an atomic bounded FIFO.     *)
(* silog_mpsc.h promises it to the log threads of an application, to the   *)
(* daemon's receive and write threads and to the compression thread.       *)
(* Module Mpsc is shown to implement this specification.                   *)
(***************************************************************************)
EXTENDS Naturals, Sequences, Functions

CONSTANTS Elements,   \* what may be pushed
          Capacity    \* number of slots

VARIABLES queue,      \* the elements inside, oldest first
          delivered,  \* the elements popped since the queue was created
          refused     \* the elements turned away with SILOG_TRANS_QUEUE_FULL

vars == <<queue, delivered, refused>>

Init ==
    /\ queue = << >>
    /\ delivered = << >>
    /\ refused = {}

Fresh(e) == e \notin Range(queue) \cup Range(delivered) \cup refused

Put(e) ==
    /\ Fresh(e)
    /\ Len(queue) < Capacity
    /\ queue' = Append(queue, e)
    /\ UNCHANGED <<delivered, refused>>

\* A push may be refused only at an instant at which every slot is taken.
Refuse(e) ==
    /\ Fresh(e)
    /\ Len(queue) = Capacity
    /\ refused' = refused \cup {e}
    /\ UNCHANGED <<queue, delivered>>

Take ==
    /\ queue # << >>
    /\ delivered' = Append(delivered, Head(queue))
    /\ queue' = Tail(queue)
    /\ UNCHANGED refused

\* Destroying the queue and creating it again forgets its contents.
Renew ==
    /\ queue' = << >>
    /\ delivered' = << >>
    /\ UNCHANGED refused

Next ==
    \/ \E e \in Elements : Put(e) \/ Refuse(e)
    \/ Take
    \/ Renew

Safety == Init /\ [][Next]_vars
Spec == Safety /\ WF_vars(Take)
=============================================================================
