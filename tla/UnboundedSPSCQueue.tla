------------------------- MODULE UnboundedSPSCQueue -------------------------
(***************************************************************************)
(* quill::detail::UnboundedSPSCQueue: a linked list of bounded queues.     *)
(* When the producer finds its node full it links a larger one and moves   *)
(* on; shrink links a smaller one.  The consumer drains its node, looks at *)
(* the next pointer, tries its node once more and only then deletes it and *)
(* follows the pointer.                                                    *)
(*                                                                         *)
(* A node's bounded queue is abstracted to what BoundedSPSCQueue shows of  *)
(* it: the published messages and two differences of its positions, used   *)
(* (writer_pos - atomic_reader_pos) and held (reader_pos -                 *)
(* atomic_reader_pos).  Each action makes at most one access to what the   *)
(* two threads share.                                                      *)
(***************************************************************************)
EXTENDS Integers, Sequences, FiniteSets, FiniteSetsExt

CONSTANTS InitialCapacity, MaxCapacity,  \* powers of two
          Powers,             \* the powers of two a capacity can be
          Sizes,              \* message sizes the producer asks for
          ShrinkCapacities,   \* arguments of shrink
          NodeIds,            \* addresses of nodes; bounds how many exist at once
          MaxMessages         \* bound on the messages written

Null == 0

\* The constructor does not compare the two.
LargestCapacity == IF InitialCapacity > MaxCapacity THEN InitialCapacity ELSE MaxCapacity

ASSUME SizesAssumption == Sizes \subseteq Nat \ {0}

\* Capacities can be doubled past the largest, and until any message fits.
ASSUME CapacityAssumption ==
  /\ Powers \subseteq Nat \ {0}
  /\ InitialCapacity \in Powers /\ MaxCapacity \in Nat /\ ShrinkCapacities \subseteq Powers
  /\ \A c \in Powers : c <= LargestCapacity => 2 * c \in Powers
  /\ \A n \in Sizes : \E c \in Powers : c >= n

ASSUME BoundsAssumption ==
  /\ NodeIds \subseteq Nat \ {Null} /\ NodeIds # {} /\ IsFiniteSet(NodeIds)
  /\ MaxMessages \in Nat

VARIABLES
  nodes,     \* the heap: live or deleted nodes, allocated lowest address first
  producer, consumer,
  ppc,       \* "idle", "blocked", "reserved" or "exited"
  psize,     \* bytes the producer asks for or holds
  sent,      \* number of messages published
  cpc,       \* where the consumer is in prepare_read, in its read loop or in empty
  cnext,     \* the next pointer it has loaded
  total_read \* whether this pass of the read loop has consumed anything

pvars == <<producer, ppc, psize, sent>>
cvars == <<consumer, cpc, cnext, total_read>>
vars == <<nodes, pvars, cvars>>

Message == [id : 1..MaxMessages, size : Sizes]

Node == [cap : Nat, msgs : Seq(Message), used : Int, held : Nat,
         next : NodeIds \cup {Null}, live : BOOLEAN]

NewNode(capacity) ==
  [cap |-> capacity, msgs |-> <<>>, used |-> 0, held |-> 0, next |-> Null, live |-> TRUE]

Deleted == [cap |-> 0, msgs |-> <<>>, used |-> 0, held |-> 0, next |-> Null, live |-> FALSE]

Init ==
  /\ producer = Min(NodeIds) /\ consumer = producer
  /\ nodes = [n \in NodeIds |-> IF n = producer THEN NewNode(InitialCapacity) ELSE Deleted]
  /\ ppc = "idle" /\ psize = 0 /\ sent = 0
  /\ cpc = "idle" /\ cnext = Null /\ total_read = FALSE

(***************************************************************************)
(* The producer.                                                           *)
(***************************************************************************)

\* BoundedSPSCQueue::prepare_write(n) on a node returns a pointer.
Fits(node, n) == node.cap - node.used >= n

\* The capacity, a power of two, is doubled at least once and until the message fits.
GrownCapacity(capacity, n) == Min({c \in Powers : c >= 2 * capacity /\ c >= n})

Asks(n) == \/ ppc = "idle" /\ sent < MaxMessages /\ n \in Sizes
           \/ ppc = "blocked" /\ n = psize

Reserve(n) == ppc' = "reserved" /\ psize' = n

PrepareWrite(n) ==
  /\ Asks(n)
  /\ Fits(nodes[producer], n)
  /\ Reserve(n)
  /\ UNCHANGED <<nodes, producer, sent, cvars>>

\* A new node is published through next and becomes the producer's node.
Link(capacity) ==
  LET free == {n \in NodeIds : ~nodes[n].live}
  IN  /\ free # {}
      /\ nodes' = [nodes EXCEPT ![Min(free)] = NewNode(capacity), ![producer].next = Min(free)]
      /\ producer' = Min(free)

\* _handle_full_queue: everything written so far is committed already, so its
\* commit_write publishes nothing new.
Grow(n) ==
  /\ Asks(n)
  /\ ~Fits(nodes[producer], n)
  /\ GrownCapacity(nodes[producer].cap, n) <= MaxCapacity
  /\ Link(GrownCapacity(nodes[producer].cap, n))
  /\ Reserve(n)
  /\ UNCHANGED <<sent, cvars>>

\* No larger node is allowed: prepare_write returns nullptr to drop or to retry,
\* and throws for a message that no node could hold.
PrepareWriteFull(n) ==
  /\ Asks(n)
  /\ ~Fits(nodes[producer], n)
  /\ GrownCapacity(nodes[producer].cap, n) > MaxCapacity
  /\ \/ n <= MaxCapacity /\ ppc' = "blocked" /\ psize' = n
     \/ ppc = "idle" /\ UNCHANGED <<ppc, psize>>
  /\ UNCHANGED <<nodes, producer, sent, cvars>>

FinishAndCommitWrite ==
  /\ ppc = "reserved"
  /\ nodes' = [nodes EXCEPT ![producer].msgs = Append(@, [id |-> sent + 1, size |-> psize]),
                            ![producer].used = @ + psize]
  /\ sent' = sent + 1
  /\ ppc' = "idle" /\ psize' = 0
  /\ UNCHANGED <<producer, cvars>>

Shrink(capacity) ==
  /\ ppc = "idle"
  /\ capacity <= nodes[producer].cap \div 2
  /\ Link(capacity)
  /\ UNCHANGED <<ppc, psize, sent, cvars>>

\* The thread ends; its context is marked invalid and the queue stays behind.
Exit ==
  /\ ppc = "idle"
  /\ ppc' = "exited"
  /\ UNCHANGED <<nodes, producer, psize, sent, cvars>>

(***************************************************************************)
(* The consumer.                                                           *)
(***************************************************************************)

\* A null read position ends the read loop, which commits if it read anything.
EndOfPass == IF total_read THEN "commit" ELSE "idle"

\* prepare_read: the current node first ...
PrepareRead ==
  /\ cpc = "idle"
  /\ cpc' = IF nodes[consumer].msgs # <<>> THEN "reading" ELSE "loadnext"
  /\ UNCHANGED <<nodes, consumer, cnext, total_read, pvars>>

\* Mutant: the consumer does not try its node again after it saw the next one.
LoadNextAndSwitch ==
  /\ cpc = "loadnext"
  /\ cnext' = nodes[consumer].next
  /\ cpc' = IF cnext' = Null THEN EndOfPass ELSE "switch"
  /\ UNCHANGED <<nodes, consumer, total_read, pvars>>

\* ... then the next pointer ...
LoadNext ==
  /\ cpc = "loadnext"
  /\ cnext' = nodes[consumer].next
  /\ cpc' = IF cnext' = Null THEN EndOfPass ELSE "retry"
  /\ UNCHANGED <<nodes, consumer, total_read, pvars>>

\* ... then _read_next_queue tries the current node once more ...
RetryNode ==
  /\ cpc = "retry"
  /\ cpc' = IF nodes[consumer].msgs # <<>> THEN "reading" ELSE "switch"
  /\ UNCHANGED <<nodes, consumer, cnext, total_read, pvars>>

\* Mutant: the drained node is deleted and the consumer stays on it.
SwitchWithoutMoving ==
  /\ cpc = "switch"
  /\ nodes' = [nodes EXCEPT ![consumer] = Deleted]
  /\ cpc' = "firstread"
  /\ UNCHANGED <<consumer, cnext, total_read, pvars>>

\* ... deletes it and moves on ...
SwitchNode ==
  /\ cpc = "switch"
  /\ nodes' = [nodes EXCEPT ![consumer] = Deleted]
  /\ consumer' = cnext /\ cnext' = Null
  /\ cpc' = "firstread"
  /\ UNCHANGED <<total_read, pvars>>

\* ... and reads from the new node without looking any further.
FirstRead ==
  /\ cpc = "firstread"
  /\ cpc' = IF nodes[consumer].msgs # <<>> THEN "reading" ELSE EndOfPass
  /\ UNCHANGED <<nodes, consumer, cnext, total_read, pvars>>

\* finish_read; the loop goes on or stops at a limit.
FinishRead ==
  /\ cpc = "reading"
  /\ nodes' = [nodes EXCEPT ![consumer].held = @ + Head(nodes[consumer].msgs).size,
                            ![consumer].msgs = Tail(@)]
  /\ cpc' \in {"idle", "commit"}
  /\ total_read' = TRUE
  /\ cnext' = Null
  /\ UNCHANGED <<consumer, pvars>>

\* Mutant: commit_read may keep bytes back although the node is drained.
CommitReadLazily ==
  /\ cpc = "commit"
  /\ cpc' = "idle" /\ total_read' = FALSE
  /\ UNCHANGED <<nodes, consumer, cnext, pvars>>

\* commit_read gives the bytes back; it may keep them only while messages are left.
CommitRead ==
  /\ cpc = "commit"
  /\ \/ nodes' = [nodes EXCEPT ![consumer].used = @ - nodes[consumer].held, ![consumer].held = 0]
     \/ nodes[consumer].msgs # <<>> /\ UNCHANGED nodes
  /\ cpc' = "idle" /\ total_read' = FALSE
  /\ UNCHANGED <<consumer, cnext, pvars>>

\* Mutant: empty() looks at the current node only.
EmptyNodeOnly ==
  /\ cpc = "idle" /\ ppc = "exited" /\ ~total_read
  /\ nodes[consumer].msgs = <<>>
  /\ cpc' = "removed"
  /\ UNCHANGED <<nodes, consumer, cnext, total_read, pvars>>

\* empty(), as the backend asks it between two passes before it removes the
\* context of an exited thread: the node first, then the next pointer.
EmptyNode ==
  /\ cpc = "idle" /\ ppc = "exited" /\ ~total_read
  /\ nodes[consumer].msgs = <<>>
  /\ cpc' = "emptynext"
  /\ UNCHANGED <<nodes, consumer, cnext, total_read, pvars>>

\* An empty queue is destroyed with every node it still has.
EmptyNext ==
  /\ cpc = "emptynext"
  /\ cpc' = IF nodes[consumer].next = Null THEN "removed" ELSE "idle"
  /\ UNCHANGED <<nodes, consumer, cnext, total_read, pvars>>

-----------------------------------------------------------------------------

Producer == \/ \E n \in Sizes : PrepareWrite(n) \/ Grow(n) \/ PrepareWriteFull(n)
            \/ FinishAndCommitWrite \/ Exit
            \/ \E c \in ShrinkCapacities : Shrink(c)

\* One poll of the queue; the backend polls for as long as it runs.
Poll == \/ PrepareRead \/ LoadNext \/ RetryNode \/ SwitchNode \/ FirstRead
        \/ FinishRead \/ CommitRead

Consumer == Poll \/ EmptyNode \/ EmptyNext

Next == Producer \/ Consumer

Spec == Init /\ [][Next]_vars

\* The backend keeps polling and reads every queue before it asks which are
\* empty; a blocked producer keeps asking.
FairSpec == /\ Spec
            /\ WF_vars(Consumer) /\ SF_vars(PrepareRead)
            /\ WF_vars(ppc = "blocked" /\ \E n \in Sizes : PrepareWrite(n))

-----------------------------------------------------------------------------

\* Every variable has its type.
TypeOK ==
  /\ nodes \in [NodeIds -> Node]
  /\ producer \in NodeIds /\ consumer \in NodeIds
  /\ ppc \in {"idle", "blocked", "reserved", "exited"}
  /\ psize \in Sizes \cup {0} /\ sent \in 0..MaxMessages
  /\ cpc \in {"idle", "loadnext", "retry", "switch", "firstread", "reading",
              "commit", "emptynext", "removed"}
  /\ cnext \in NodeIds \cup {Null} /\ total_read \in BOOLEAN

\* Neither thread holds a pointer to a node that was deleted.
NodesLive ==
  /\ nodes[producer].live /\ nodes[consumer].live
  /\ cnext # Null => nodes[cnext].live

\* What prepare_write handed out, growing or not, has room for the message
\* (the assertion in _handle_full_queue), in a node no larger than allowed.
ReservationFits ==
  ppc = "reserved" => /\ Fits(nodes[producer], psize)
                      /\ nodes[producer].cap <= LargestCapacity

\* The nodes both threads hold are live, although the consumer deletes nodes
\* while the producer grows the list, and a reservation lies within its node.
NoUseAfterDelete == TypeOK /\ NodesLive /\ ReservationFits

\* The consumer's way along the next pointers: where it stands after k of them,
\* and the messages it meets up to there.
Walk[k \in 0..Cardinality(NodeIds)] ==
  IF k = 0 THEN [at |-> consumer, msgs |-> nodes[consumer].msgs]
  ELSE LET n == nodes[Walk[k - 1].at].next
       IN  IF n = Null THEN Walk[k - 1]
           ELSE [at |-> n, msgs |-> Walk[k - 1].msgs \o nodes[n].msgs]

\* The published messages, in the order in which the consumer will meet them.
Pending == Walk[Cardinality(NodeIds)].msgs

\* The messages that wait in the nodes, as one queue.
Fifo == INSTANCE FrontendQueue WITH queue <- Pending

\* The list of nodes delivers what a single queue would: nothing is lost,
\* repeated or reordered where the consumer moves from one node to the next
\* (prepare_read and _read_next_queue), and every message is read in the end.
ImplementsFrontendQueue == Fifo!FairSpec

\* The queue of an exited thread is only destroyed when every message was read.
RemovedOnlyWhenDrained == cpc = "removed" => Pending = <<>>

\* A producer blocked at the maximum capacity gets its bytes in the end.
BlockedProducerProceeds == (ppc = "blocked") ~> (ppc = "reserved")

=============================================================================
