---------------------------- MODULE FrontendQueue ----------------------------
(***************************************************************************)
(* What both frontend queues promise the logging thread and the backend:   *)
(* published messages come out once, whole and in the order in which they  *)
(* were published, and a backend that keeps polling gets each of them.     *)
(***************************************************************************)
EXTENDS Integers, Sequences

VARIABLE queue  \* the published messages

Init == queue = <<>>

\* One message of any content is published behind the others.
Enqueue == /\ Len(queue') = Len(queue) + 1
           /\ SubSeq(queue', 1, Len(queue)) = queue

Dequeue == queue # <<>> /\ queue' = Tail(queue)

Next == Enqueue \/ Dequeue

Spec == Init /\ [][Next]_queue

FairSpec == Spec /\ WF_queue(Dequeue)

=============================================================================
