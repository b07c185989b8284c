---------------------- MODULE UnboundedSPSCQueueProofs ----------------------
(***************************************************************************)
(* The list of nodes is safe while one thread extends and the other        *)
(* shortens it, and it behaves like one queue, for any number of nodes,    *)
(* any capacities and any messages.                                        *)
(***************************************************************************)
EXTENDS UnboundedSPSCQueue, FiniteSetTheorems, SequenceTheorems, WellFoundedInduction, TLAPS

\* The live nodes form a list: only the producer's has no successor, and no node
\* but the consumer's predecessor, which was deleted, leads to the consumer's.
Linked ==
  \A n \in NodeIds : nodes[n].live =>
    /\ nodes[n].next = Null <=> n = producer
    /\ nodes[n].next # Null => /\ nodes[nodes[n].next].live
                               /\ nodes[n].next # consumer
                               /\ \A m \in NodeIds : nodes[m].live /\ nodes[m].next = nodes[n].next => m = n

\* What the consumer has seen is still true: it is the only one that takes
\* messages, and only the producer's node gets any.
SeenByConsumer ==
  /\ cnext # Null => cnext = nodes[consumer].next
  /\ cpc \in {"retry", "switch"} => cnext # Null
  /\ cpc = "reading" => nodes[consumer].msgs # <<>>
  /\ cpc \in {"switch", "emptynext", "removed"} => nodes[consumer].msgs = <<>>
  /\ cpc \in {"emptynext", "removed"} => ppc = "exited"
  /\ cpc = "removed" => nodes[consumer].next = Null

\* What the producer is about to write, and where.
ProducerReady ==
  /\ ppc \in {"blocked", "reserved"} => sent < MaxMessages /\ psize \in Sizes
  /\ nodes[producer].cap \in Powers /\ nodes[producer].cap <= LargestCapacity

SafetyInv == NoUseAfterDelete /\ Linked /\ SeenByConsumer /\ ProducerReady

-----------------------------------------------------------------------------
(***************************************************************************)
(* Least numbers.                                                          *)
(***************************************************************************)

\* A nonempty set of natural numbers has a least element.
LEMMA LeastNumber ==
  ASSUME NEW S, S \subseteq Nat, S # {}
  PROVE  \E x \in S : \A y \in S : x <= y
<1> DEFINE R == OpToRel(<, Nat)
<1>1. IsWellFoundedOn(R, Nat)
  BY NatLessThanWellFounded
<1>2. \A x, y \in Nat : x < y => <<x, y>> \in R
  BY DEF OpToRel
<1> HIDE DEF R
<1>3. PICK x \in S : \A y \in S : <<y, x>> \notin R
  BY <1>1, WFMin
<1>4. ASSUME NEW y \in S PROVE x <= y
  <2>1. ~(y < x)
    BY <1>2, <1>3
  <2> QED BY <2>1
<1> QED BY <1>4

\* Min returns the least element.
LEMMA MinIsLeast ==
  ASSUME NEW S, S \subseteq Nat, S # {}
  PROVE  Min(S) \in S /\ \A y \in S : Min(S) <= y
BY LeastNumber DEF Min

\* The doubled capacity is a power of two in which the message fits.
LEMMA GrownCapacityFits ==
  ASSUME NEW c \in Powers, c <= LargestCapacity, NEW n \in Sizes
  PROVE  GrownCapacity(c, n) \in Powers /\ GrownCapacity(c, n) >= n
<1> DEFINE G == {d \in Powers : d >= 2 * c /\ d >= n}
<1>1. G \subseteq Nat
  BY CapacityAssumption
<1>2. G # {}
  <2>1. 2 * c \in Powers /\ Powers \subseteq Nat /\ n \in Nat
    BY CapacityAssumption, SizesAssumption
  <2>2. PICK d \in Powers : d >= n
    BY CapacityAssumption
  <2>3. CASE 2 * c >= n
    BY <2>1, <2>3
  <2>4. CASE ~(2 * c >= n)
    <3>1. d >= 2 * c
      BY <2>1, <2>2, <2>4
    <3> QED BY <2>2, <3>1
  <2> QED BY <2>3, <2>4
<1>3. GrownCapacity(c, n) = Min(G)
  BY DEF GrownCapacity
<1>4. Min(G) \in G
  <2> HIDE DEF G
  <2> QED BY <1>1, <1>2, MinIsLeast
<1> QED BY <1>3, <1>4

-----------------------------------------------------------------------------
(***************************************************************************)
(* Safety.                                                                 *)
(***************************************************************************)

\* What a write changes in its node.
LEMMA NodeWritten ==
  ASSUME NEW old \in Node, NEW m \in Message
  PROVE  LET node == [old EXCEPT !.msgs = Append(@, m), !.used = @ + m.size]
         IN  /\ node \in Node /\ node.cap = old.cap /\ node.next = old.next /\ node.live = old.live
             /\ node.msgs = Append(old.msgs, m) /\ node.msgs # <<>>
<1>1. m.size \in Int
  <2>1. m.size \in Sizes
    BY DEF Message
  <2>2. m.size \in Nat
    BY <2>1, SizesAssumption
  <2> QED BY <2>2
<1>2. old.msgs \in Seq(Message) /\ old.used \in Int
  BY DEF Node
<1>3. Append(old.msgs, m) \in Seq(Message) /\ Append(old.msgs, m) # <<>> /\ old.used + m.size \in Int
  <2>1. Append(old.msgs, m) \in Seq(Message) /\ Append(old.msgs, m) # <<>>
    BY <1>2, AppendProperties
  <2>2. old.used + m.size \in Int
    BY <1>1, <1>2
  <2> QED BY <2>1, <2>2
<1> QED BY <1>3 DEF Node

\* What a read changes in its node.
LEMMA NodeRead ==
  ASSUME NEW old \in Node, old.msgs # <<>>
  PROVE  LET node == [old EXCEPT !.held = @ + Head(old.msgs).size, !.msgs = Tail(@)]
         IN  /\ node \in Node /\ node.cap = old.cap /\ node.next = old.next /\ node.live = old.live
             /\ node.used = old.used /\ node.msgs = Tail(old.msgs)
<1>1. old.msgs \in Seq(Message) /\ old.held \in Nat
  BY DEF Node
<1>2. Head(old.msgs) \in Message /\ Tail(old.msgs) \in Seq(Message)
  BY <1>1, HeadTailProperties
<1>3. old.held + Head(old.msgs).size \in Nat
  <2>1. Head(old.msgs).size \in Sizes
    BY <1>2 DEF Message
  <2>2. Head(old.msgs).size \in Nat
    BY <2>1, SizesAssumption
  <2> QED BY <1>1, <2>2
<1> QED BY <1>2, <1>3 DEF Node

\* What a commit_read that publishes changes in its node.
LEMMA NodeCommitted ==
  ASSUME NEW old \in Node
  PROVE  LET node == [old EXCEPT !.used = @ - old.held, !.held = 0]
         IN  /\ node \in Node /\ node.cap = old.cap /\ node.next = old.next /\ node.live = old.live
             /\ node.used <= old.used /\ node.msgs = old.msgs
<1>1. old.used \in Int /\ old.held \in Nat
  BY DEF Node
<1>2. old.used - old.held \in Int /\ old.used - old.held <= old.used
  BY <1>1
<1> QED BY <1>2 DEF Node

\* The queue starts with one empty node.
LEMMA SafetyInit == Init => SafetyInv
<1> SUFFICES ASSUME Init PROVE SafetyInv
  OBVIOUS
<1>1. Min(NodeIds) \in NodeIds /\ NodeIds \subseteq Nat \ {Null}
  BY MinIsLeast, BoundsAssumption
<1>2. InitialCapacity \in Powers /\ InitialCapacity \in Nat /\ InitialCapacity <= LargestCapacity /\ MaxMessages \in Nat
  BY CapacityAssumption, BoundsAssumption DEF LargestCapacity
<1>3. TypeOK
  <2>1. NewNode(InitialCapacity) \in Node /\ Deleted \in Node
    BY <1>2 DEF NewNode, Deleted, Node, Null
  <2>2. nodes \in [NodeIds -> Node] /\ producer \in NodeIds /\ consumer \in NodeIds
    BY <1>1, <2>1 DEF Init
  <2>3. sent \in 0..MaxMessages
    BY <1>2 DEF Init
  <2> QED BY <2>2, <2>3 DEF Init, TypeOK
<1>4. NodesLive /\ ReservationFits /\ Linked /\ SeenByConsumer /\ ProducerReady
  BY <1>1, <1>2 DEF Init, NodesLive, ReservationFits, Linked, SeenByConsumer, ProducerReady, NewNode, Deleted, Null
<1> QED BY <1>3, <1>4 DEF SafetyInv, NoUseAfterDelete

\* A linked node is a fresh one: it was no part of the list.
LEMMA LinkFresh ==
  ASSUME SafetyInv, NEW c, Link(c)
  PROVE  /\ producer' \in NodeIds /\ ~nodes[producer'].live
         /\ nodes' = [nodes EXCEPT ![producer'] = NewNode(c), ![producer].next = producer']
<1> DEFINE free == {n \in NodeIds : ~nodes[n].live}
<1>1. free # {} /\ producer' = Min(free)
       /\ nodes' = [nodes EXCEPT ![Min(free)] = NewNode(c), ![producer].next = Min(free)]
  BY DEF Link
<1>2. free \subseteq Nat
  BY BoundsAssumption
<1>3. Min(free) \in free
  <2> HIDE DEF free
  <2> QED BY <1>1, <1>2, MinIsLeast
<1> QED BY <1>1, <1>3

\* Linking a node of an allowed capacity keeps the list.
LEMMA LinkSafe ==
  ASSUME SafetyInv, NEW c \in Powers, c <= LargestCapacity, Link(c), UNCHANGED cvars,
         ppc = "idle" \/ ppc = "blocked", sent' = sent,
         \/ UNCHANGED <<ppc, psize>> /\ ppc = "idle"
         \/ ppc' = "reserved" /\ psize' \in Sizes /\ psize' <= c /\ sent < MaxMessages
  PROVE  SafetyInv'
<1> DEFINE f == producer'
<1>1. f \in NodeIds /\ ~nodes[f].live /\ nodes' = [nodes EXCEPT ![f] = NewNode(c), ![producer].next = f]
  BY LinkFresh
<1>2. c \in Nat /\ MaxMessages \in Nat /\ NodeIds \subseteq Nat \ {Null} /\ Sizes \subseteq Nat \ {0}
  BY CapacityAssumption, SizesAssumption, BoundsAssumption
<1> USE DEF SafetyInv, NoUseAfterDelete, TypeOK, NodesLive
<1>3. producer # f /\ consumer # f /\ producer \in NodeIds /\ consumer \in NodeIds
  BY <1>1
<1>4. /\ nodes'[f].cap = c /\ nodes'[f].msgs = <<>> /\ nodes'[f].used = 0
      /\ nodes'[f].next = Null /\ nodes'[f].live
      /\ nodes'[producer].next = f /\ nodes'[producer].live = nodes[producer].live
      /\ nodes'[producer].msgs = nodes[producer].msgs
      /\ \A n \in NodeIds \ {f, producer} : nodes'[n] = nodes[n]
  BY <1>1, <1>3 DEF NewNode, Node
<1>5. TypeOK'
  <2>1. NewNode(c) \in Node
    BY <1>2 DEF NewNode, Node
  <2>2. [nodes[producer] EXCEPT !.next = f] \in Node
    BY <1>1, <1>3 DEF Node
  <2>3. nodes' \in [NodeIds -> Node]
    BY <1>1, <1>3, <2>1, <2>2
  <2> QED BY <1>1, <1>2, <2>3 DEF cvars
<1>6. NodesLive'
  BY <1>1, <1>3, <1>4 DEF cvars
<1>7. \A n \in NodeIds : nodes[n].live => nodes[n].next # f
  BY <1>1, <1>2 DEF Linked
<1>8. Linked'
  <2> SUFFICES ASSUME NEW n \in NodeIds, nodes'[n].live
               PROVE  /\ nodes'[n].next = Null <=> n = f
                      /\ nodes'[n].next # Null =>
                           /\ nodes'[nodes'[n].next].live
                           /\ nodes'[n].next # consumer
                           /\ \A m \in NodeIds : nodes'[m].live /\ nodes'[m].next = nodes'[n].next => m = n
    BY DEF Linked, cvars
  <2>1. CASE n = f
    BY <1>4, <2>1
  <2>2. CASE n = producer
    <3>1. \A m \in NodeIds : nodes'[m].live /\ nodes'[m].next = f => m = producer
      BY <1>1, <1>2, <1>3, <1>4, <1>7
    <3> QED BY <1>1, <1>2, <1>3, <1>4, <2>2, <3>1
  <2>3. CASE n \notin {f, producer}
    <3>1. nodes'[n] = nodes[n] /\ nodes[n].live /\ nodes[n].next # f /\ nodes[n].next # Null
      BY <1>2, <1>4, <1>7, <2>3 DEF Linked
    <3>2. nodes[n].next \in NodeIds /\ nodes[nodes[n].next].live /\ nodes[n].next # consumer
      BY <3>1 DEF Linked, Node
    <3>3. nodes'[nodes[n].next].live
      BY <1>4, <3>1, <3>2
    <3>4. \A m \in NodeIds : nodes'[m].live /\ nodes'[m].next = nodes[n].next => m = n
      BY <1>2, <1>4, <3>1 DEF Linked
    <3> QED BY <2>3, <3>1, <3>2, <3>3, <3>4
  <2> QED BY <2>1, <2>2, <2>3
<1>9. SeenByConsumer'
  <2>1. nodes'[consumer].msgs = nodes[consumer].msgs
    BY <1>3, <1>4
  <2>2. nodes[consumer].next # Null => nodes'[consumer].next = nodes[consumer].next
    BY <1>3, <1>4 DEF Linked
  <2>3. cpc # "removed"
    BY DEF SeenByConsumer
  <2> QED BY <2>1, <2>2, <2>3 DEF SeenByConsumer, cvars
<1>10. ProducerReady' /\ ReservationFits'
  BY <1>2, <1>4 DEF ProducerReady, ReservationFits, Fits
<1> QED BY <1>5, <1>6, <1>8, <1>9, <1>10

\* Every step of the two threads keeps the list safe.
LEMMA SafetyNext == SafetyInv /\ [Next]_vars => SafetyInv'
<1> SUFFICES ASSUME SafetyInv, [Next]_vars PROVE SafetyInv'
  OBVIOUS
<1>0. /\ MaxMessages \in Nat /\ NodeIds \subseteq Nat \ {Null} /\ Sizes \subseteq Nat \ {0}
      /\ Powers \subseteq Nat \ {0} /\ LargestCapacity \in Nat
  BY CapacityAssumption, SizesAssumption, BoundsAssumption DEF LargestCapacity
<1>a. ASSUME NEW n, Asks(n) PROVE n \in Sizes /\ sent < MaxMessages /\ (ppc = "idle" \/ ppc = "blocked")
  BY <1>a DEF Asks, SafetyInv, ProducerReady
<1>1. ASSUME NEW n \in Sizes, Grow(n) PROVE SafetyInv'
  <2> DEFINE c == GrownCapacity(nodes[producer].cap, n)
  <2>1. c \in Powers /\ c >= n /\ c <= LargestCapacity
    <3>1. c \in Powers /\ c >= n
      BY GrownCapacityFits DEF SafetyInv, ProducerReady
    <3>2. c <= MaxCapacity
      BY <1>1 DEF Grow
    <3>3. InitialCapacity \in Nat /\ MaxCapacity \in Nat /\ c \in Nat
      BY <3>1, CapacityAssumption
    <3> HIDE DEF c
    <3> QED BY <3>1, <3>2, <3>3 DEF LargestCapacity
  <2>2. Link(c) /\ UNCHANGED cvars /\ sent' = sent /\ ppc' = "reserved" /\ psize' = n /\ Asks(n)
    BY <1>1 DEF Grow, Reserve
  <2>3. n \in Nat /\ c \in Nat
    BY <1>0, <2>1
  <2> HIDE DEF c
  <2> QED BY <1>a, <2>1, <2>2, <2>3, LinkSafe
<1>2. ASSUME NEW c \in ShrinkCapacities, Shrink(c) PROVE SafetyInv'
  <2>1. c \in Powers /\ c \in Nat
    BY CapacityAssumption
  <2>2. c <= LargestCapacity
    <3>1. nodes[producer].cap \in Nat /\ nodes[producer].cap <= LargestCapacity
      BY <1>0 DEF SafetyInv, ProducerReady
    <3>2. c <= nodes[producer].cap \div 2
      BY <1>2 DEF Shrink
    <3> QED BY <1>0, <2>1, <3>1, <3>2
  <2>3. Link(c) /\ UNCHANGED cvars /\ sent' = sent /\ UNCHANGED <<ppc, psize>> /\ ppc = "idle"
    BY <1>2 DEF Shrink
  <2> QED BY <2>1, <2>2, <2>3, LinkSafe
<1>n. nodes \in [NodeIds -> Node] /\ producer \in NodeIds /\ consumer \in NodeIds
  BY DEF SafetyInv, NoUseAfterDelete, TypeOK
<1>w. ASSUME NEW m \in Message
      PROVE  LET old == nodes[producer]
                 node == [old EXCEPT !.msgs = Append(@, m), !.used = @ + m.size]
             IN  /\ node \in Node /\ node.cap = old.cap /\ node.next = old.next /\ node.live = old.live
                 /\ node.msgs # <<>>
  BY <1>n, NodeWritten
<1>r. ASSUME nodes[consumer].msgs # <<>>
      PROVE  LET old == nodes[consumer]
                 node == [old EXCEPT !.held = @ + Head(old.msgs).size, !.msgs = Tail(@)]
             IN  /\ node \in Node /\ node.cap = old.cap /\ node.next = old.next /\ node.live = old.live
                 /\ node.used = old.used
  BY <1>n, <1>r, NodeRead
<1>c. LET old == nodes[consumer]
          node == [old EXCEPT !.used = @ - old.held, !.held = 0]
      IN  /\ node \in Node /\ node.cap = old.cap /\ node.next = old.next /\ node.live = old.live
          /\ node.used <= old.used /\ node.msgs = old.msgs
  BY <1>n, NodeCommitted
<1>t. \A node \in Node : node.cap \in Nat /\ node.used \in Int
  BY DEF Node
<1> USE <1>0 DEF SafetyInv, NoUseAfterDelete, TypeOK, NodesLive, ReservationFits, Linked, SeenByConsumer, ProducerReady
<1>3. ASSUME NEW n \in Sizes, PrepareWrite(n) PROVE SafetyInv'
  BY <1>3, <1>a DEF PrepareWrite, Reserve, Fits, cvars
<1>4. ASSUME NEW n \in Sizes, PrepareWriteFull(n) PROVE SafetyInv'
  BY <1>4, <1>a DEF PrepareWriteFull, cvars
<1>5. ASSUME FinishAndCommitWrite PROVE SafetyInv'
  <2> DEFINE msg == [id |-> sent + 1, size |-> psize]
             node == [nodes[producer] EXCEPT !.msgs = Append(@, msg), !.used = @ + msg.size]
  <2>1. /\ nodes' = [nodes EXCEPT ![producer] = node] /\ sent' = sent + 1
        /\ ppc = "reserved" /\ ppc' = "idle" /\ psize' = 0 /\ producer' = producer /\ UNCHANGED cvars
    <3>1. msg.size = psize
      OBVIOUS
    <3> QED BY <1>5, <3>1 DEF FinishAndCommitWrite
  <2>2. msg \in Message /\ sent + 1 \in 0..MaxMessages /\ psize \in Nat
    BY <2>1 DEF Message
  <2>3. node \in Node /\ node.cap = nodes[producer].cap /\ node.next = nodes[producer].next
         /\ node.live = nodes[producer].live /\ node.msgs # <<>>
    BY <2>2, <1>w
  <2> HIDE DEF node
  <2>4. TypeOK'
    BY <2>1, <2>2, <2>3 DEF cvars
  <2>5. \A n \in NodeIds : /\ nodes'[n].next = nodes[n].next /\ nodes'[n].live = nodes[n].live
                            /\ nodes'[n].cap = nodes[n].cap /\ (n # producer => nodes'[n] = nodes[n])
    BY <2>1, <2>3
  <2>6. cpc \in {"switch", "emptynext", "removed"} => consumer # producer
    BY <2>1
  <2>7. SeenByConsumer'
    BY <2>1, <2>3, <2>5, <2>6 DEF cvars
  <2>8. NodesLive' /\ Linked'
    BY <2>1, <2>5 DEF cvars
  <2>9. ProducerReady' /\ ReservationFits'
    BY <2>1, <2>5
  <2> QED BY <2>4, <2>7, <2>8, <2>9
<1>6. ASSUME Exit PROVE SafetyInv'
  BY <1>6 DEF Exit, cvars
<1>7. ASSUME PrepareRead PROVE SafetyInv'
  BY <1>7 DEF PrepareRead, pvars
<1>8. ASSUME LoadNext PROVE SafetyInv'
  <2>1. nodes[consumer].next \in NodeIds \cup {Null}
    BY <1>n DEF Node
  <2> QED BY <1>8, <2>1 DEF LoadNext, EndOfPass, pvars
<1>9. ASSUME RetryNode PROVE SafetyInv'
  BY <1>9 DEF RetryNode, pvars
<1>10. ASSUME SwitchNode PROVE SafetyInv'
  <2> DEFINE c == nodes[consumer].next
  <2>1. /\ nodes' = [nodes EXCEPT ![consumer] = Deleted] /\ consumer' = c /\ cnext' = Null
        /\ cpc' = "firstread" /\ UNCHANGED <<total_read, pvars>> /\ c \in NodeIds /\ c # Null
    BY <1>10 DEF SwitchNode, Node
  <2>2. consumer # producer /\ nodes[c].live /\ c # consumer
    BY <2>1
  <2> HIDE DEF c
  <2>3. Deleted \in Node /\ ~Deleted.live
    BY DEF Deleted, Node
  <2>4. TypeOK'
    BY <2>1, <2>3 DEF pvars
  <2>5. ~nodes'[consumer].live /\ \A n \in NodeIds \ {consumer} : nodes'[n] = nodes[n]
    BY <2>1, <2>3
  <2>6. NodesLive' /\ ProducerReady' /\ ReservationFits' /\ SeenByConsumer'
    BY <2>1, <2>2, <2>5 DEF pvars, Fits
  <2>7. Linked'
    <3> SUFFICES ASSUME NEW n \in NodeIds, nodes'[n].live
                 PROVE  /\ nodes'[n].next = Null <=> n = producer
                        /\ nodes'[n].next # Null =>
                             /\ nodes'[nodes'[n].next].live
                             /\ nodes'[n].next # c
                             /\ \A m \in NodeIds : nodes'[m].live /\ nodes'[m].next = nodes'[n].next => m = n
      BY <2>1 DEF pvars
    <3>1. n # consumer /\ nodes'[n] = nodes[n]
      BY <2>5
    <3>2. nodes[n].next # c
      BY <2>1, <3>1 DEF c
    <3>3. nodes[n].next # Null => nodes[n].next \in NodeIds /\ nodes[n].next # consumer
      BY <3>1 DEF Node
    <3> QED BY <2>5, <3>1, <3>2, <3>3
  <2> QED BY <2>4, <2>6, <2>7
<1>11. ASSUME FirstRead PROVE SafetyInv'
  BY <1>11 DEF FirstRead, EndOfPass, pvars
<1>12. ASSUME FinishRead PROVE SafetyInv'
  <2> DEFINE msgs == nodes[consumer].msgs
             node == [nodes[consumer] EXCEPT !.held = @ + Head(msgs).size, !.msgs = Tail(@)]
  <2>1. /\ nodes' = [nodes EXCEPT ![consumer] = node] /\ cpc = "reading" /\ msgs # <<>>
        /\ cpc' \in {"idle", "commit"} /\ total_read' = TRUE /\ cnext' = Null /\ UNCHANGED <<consumer, pvars>>
    BY <1>12 DEF FinishRead
  <2>4. node \in Node /\ node.cap = nodes[consumer].cap /\ node.next = nodes[consumer].next
         /\ node.live = nodes[consumer].live /\ node.used = nodes[consumer].used
    BY <2>1, <1>r
  <2> HIDE DEF node
  <2>5. TypeOK'
    BY <2>1, <2>4 DEF pvars
  <2>6. \A n \in NodeIds : /\ nodes'[n].next = nodes[n].next /\ nodes'[n].live = nodes[n].live
                            /\ nodes'[n].cap = nodes[n].cap /\ nodes'[n].used = nodes[n].used
    BY <2>1, <2>4
  <2>7. SeenByConsumer' /\ NodesLive' /\ Linked'
    BY <2>1, <2>6 DEF pvars
  <2>8. ProducerReady' /\ ReservationFits'
    BY <2>1, <2>6 DEF pvars, Fits
  <2> QED BY <2>5, <2>7, <2>8
<1>13. ASSUME CommitRead PROVE SafetyInv'
  <2>1. CASE UNCHANGED nodes
    BY <1>13, <2>1 DEF CommitRead, pvars
  <2>2. CASE nodes' = [nodes EXCEPT ![consumer].used = @ - nodes[consumer].held, ![consumer].held = 0]
    <3> DEFINE node == [nodes[consumer] EXCEPT !.used = @ - nodes[consumer].held, !.held = 0]
    <3>1. /\ nodes' = [nodes EXCEPT ![consumer] = node] /\ cpc = "commit" /\ cpc' = "idle"
          /\ total_read' = FALSE /\ UNCHANGED <<consumer, cnext, pvars>>
      BY <1>13, <2>2 DEF CommitRead
    <3>2. node \in Node /\ node.cap = nodes[consumer].cap /\ node.next = nodes[consumer].next
          /\ node.live = nodes[consumer].live /\ node.used <= nodes[consumer].used /\ node.msgs = nodes[consumer].msgs
      BY <1>c
    <3> HIDE DEF node
    <3>3. TypeOK'
      BY <3>1, <3>2 DEF pvars
    <3>4. \A n \in NodeIds : /\ nodes'[n].next = nodes[n].next /\ nodes'[n].live = nodes[n].live
                              /\ nodes'[n].cap = nodes[n].cap /\ nodes'[n].used <= nodes[n].used
                              /\ nodes[n].cap \in Nat /\ nodes[n].used \in Int /\ nodes'[n].used \in Int
      <4>1. nodes' \in [NodeIds -> Node]
        BY <3>1, <3>2, <1>n
      <4>2. \A n \in NodeIds : nodes[n] \in Node /\ nodes'[n] \in Node /\ (n # consumer => nodes'[n] = nodes[n])
        BY <3>1, <3>2, <1>n, <4>1
      <4>3. nodes'[consumer] = node
        BY <3>1, <1>n
      <4> HIDE DEF SafetyInv, NoUseAfterDelete, TypeOK
      <4> QED BY <3>2, <4>2, <4>3, <1>t
    <3>5. SeenByConsumer' /\ NodesLive' /\ Linked'
      BY <3>1, <3>2, <3>4 DEF pvars
    <3>6. ProducerReady'
      BY <3>1, <3>4 DEF pvars
    <3>7. ReservationFits'
      BY <3>1, <3>4 DEF pvars, Fits
    <3> QED BY <3>3, <3>5, <3>6, <3>7
  <2> QED BY <1>13, <2>1, <2>2 DEF CommitRead
<1>14. ASSUME EmptyNode PROVE SafetyInv'
  BY <1>14 DEF EmptyNode, pvars
<1>15. ASSUME EmptyNext PROVE SafetyInv'
  BY <1>15 DEF EmptyNext, pvars
<1>16. ASSUME UNCHANGED vars PROVE SafetyInv'
  BY <1>16 DEF vars, pvars, cvars
<1> QED
  BY <1>1, <1>2, <1>3, <1>4, <1>5, <1>6, <1>7, <1>8, <1>9, <1>10, <1>11, <1>12, <1>13, <1>14, <1>15, <1>16
  DEF Next, Producer, Consumer, Poll

-----------------------------------------------------------------------------
(***************************************************************************)
(* The list of nodes as one queue.                                         *)
(***************************************************************************)

\* p lists the nodes from the consumer's to the producer's, and S[i] is what
\* the first i of them hold.
ChainOf(L, p, S) ==
  /\ L \in Nat \ {0} /\ p \in [1..L -> NodeIds] /\ S \in [1..L -> Seq(Message)]
  /\ p[1] = consumer /\ p[L] = producer
  /\ \A i, j \in 1..L : p[i] = p[j] => i = j
  /\ \A i \in 1..(L - 1) : nodes[p[i]].next = p[i + 1]
  /\ \A i \in 1..L : nodes[p[i]].live
  /\ S[1] = nodes[consumer].msgs
  /\ \A i \in 1..(L - 1) : S[i + 1] = S[i] \o nodes[p[i + 1]].msgs
  /\ \A i, j \in 1..L : i <= j => Len(S[i]) <= Len(S[j])

\* Both threads' nodes are on one such list.
Chained == \E L, p, S : ChainOf(L, p, S)

IInv == SafetyInv /\ Chained

\* A list is no longer than there are nodes.
LEMMA ChainLength ==
  ASSUME NEW L, NEW p, NEW S, ChainOf(L, p, S)
  PROVE  Cardinality(NodeIds) \in Nat /\ L <= Cardinality(NodeIds)
<1>1. IsFiniteSet(NodeIds) /\ Cardinality(NodeIds) \in Nat
  BY BoundsAssumption, FS_CardinalityType
<1>2. L \in Nat \ {0} /\ p \in [1..L -> NodeIds] /\ \A i, j \in 1..L : p[i] = p[j] => i = j
  BY DEF ChainOf
<1>3. IsFiniteSet(1..L) /\ Cardinality(1..L) = L
  BY <1>2, FS_Interval
<1>4. ~(Cardinality(NodeIds) < L)
  BY <1>1, <1>2, <1>3, FS_PigeonHole
<1> QED BY <1>1, <1>2, <1>4

\* The walk along the next pointers visits the nodes of the list in their order
\* and stays at the last.
LEMMA WalkVisits ==
  ASSUME SafetyInv, NEW L, NEW p, NEW S, ChainOf(L, p, S)
  PROVE  Pending = S[L]
<1> DEFINE N == Cardinality(NodeIds)
           Nth(k) == IF k < L THEN k + 1 ELSE L
           F(f, k) == IF k = 0 THEN [at |-> consumer, msgs |-> nodes[consumer].msgs]
                      ELSE LET n == nodes[f[k - 1].at].next
                           IN  IF n = Null THEN f[k - 1]
                               ELSE [at |-> n, msgs |-> f[k - 1].msgs \o nodes[n].msgs]
           g == [k \in 0..N |-> [at |-> p[Nth(k)], msgs |-> S[Nth(k)]]]
<1>1. N \in Nat /\ L <= N /\ L \in Nat \ {0}
  BY ChainLength DEF ChainOf
<1>2. nodes[producer].next = Null /\ Null \notin NodeIds
  BY BoundsAssumption DEF SafetyInv, NoUseAfterDelete, TypeOK, NodesLive, Linked
<1>3. ASSUME NEW k \in 0..N PROVE g[k] = F(g, k)
  <2>1. CASE k = 0
    <3>1. Nth(0) = 1
      BY <1>1
    <3> QED BY <2>1, <3>1 DEF ChainOf
  <2>2. CASE k # 0
    <3>1. k - 1 \in 0..N /\ g[k - 1] = [at |-> p[Nth(k - 1)], msgs |-> S[Nth(k - 1)]]
      BY <1>1, <2>2
    <3>2. g[k - 1].at = p[Nth(k - 1)] /\ g[k - 1].msgs = S[Nth(k - 1)]
      BY <3>1
    <3>3. g[k] = [at |-> p[Nth(k)], msgs |-> S[Nth(k)]]
      OBVIOUS
    <3> HIDE DEF g
    <3>4. CASE k < L
      <4>1. Nth(k - 1) = k /\ Nth(k) = k + 1 /\ k \in 1..(L - 1)
        BY <1>1, <2>2, <3>4
      <4>2. nodes[p[k]].next = p[k + 1] /\ p[k + 1] # Null /\ S[k + 1] = S[k] \o nodes[p[k + 1]].msgs
        <5>1. p[k + 1] \in NodeIds
          BY <1>1, <4>1 DEF ChainOf
        <5>2. nodes[p[k]].next = p[k + 1] /\ S[k + 1] = S[k] \o nodes[p[k + 1]].msgs
          BY <4>1 DEF ChainOf
        <5> HIDE DEF Nth
        <5> QED BY <1>2, <5>1, <5>2
      <4> HIDE DEF Nth
      <4> QED BY <2>2, <3>2, <3>3, <4>1, <4>2
    <3>5. CASE ~(k < L)
      <4>1. Nth(k - 1) = L /\ Nth(k) = L
        BY <1>1, <2>2, <3>5
      <4>2. nodes[p[L]].next = Null
        BY <1>2 DEF ChainOf
      <4> HIDE DEF Nth
      <4> QED BY <2>2, <3>1, <3>2, <3>3, <4>1, <4>2
    <3> QED BY <3>4, <3>5
  <2> QED BY <2>1, <2>2
<1> HIDE DEF F
<1>4. g = [k \in 0..N |-> F(g, k)]
  BY <1>3
<1>5. Walk = CHOOSE f : f = [k \in 0..N |-> F(f, k)]
  BY DEF Walk, F
<1> HIDE DEF g, N
<1>6. Walk = [k \in 0..N |-> F(Walk, k)]
  BY <1>4, <1>5
<1>7. \A k \in 0..N : Walk[k] = g[k]
  <2> DEFINE Bad == {k \in 0..N : Walk[k] # g[k]}
  <2> SUFFICES ASSUME Bad # {} PROVE FALSE
    OBVIOUS
  <2>1. Bad \subseteq Nat
    BY <1>1
  <2>2. PICK k \in Bad : \A j \in Bad : k <= j
    <3> HIDE DEF Bad
    <3> QED BY <2>1, LeastNumber
  <2>3. k \in 0..N /\ (k # 0 => Walk[k - 1] = g[k - 1])
    BY <1>1, <2>2
  <2>4. F(Walk, k) = F(g, k)
    BY <2>3 DEF F
  <2>5. Walk[k] = F(Walk, k) /\ g[k] = F(g, k)
    BY <1>4, <1>6, <2>3
  <2> QED BY <2>2, <2>4, <2>5
<1>8. g[N].msgs = S[L]
  <2>1. Nth(N) = L
    BY <1>1
  <2> HIDE DEF Nth
  <2> QED BY <1>1, <2>1 DEF g
<1> QED BY <1>1, <1>7, <1>8 DEF Pending, N

\* ... in every state, so in the next one.
LEMMA WalkVisitsNext ==
  (\A L, p, S : SafetyInv /\ ChainOf(L, p, S) => Pending = S[L])'
<1>1. \A L, p, S : SafetyInv /\ ChainOf(L, p, S) => Pending = S[L]
  BY WalkVisits
<1> QED BY <1>1, PTL

\* An end taken from the front of a concatenation.
LEMMA TailOfConcat ==
  ASSUME NEW T, NEW q \in Seq(T), NEW r \in Seq(T), q # <<>>
  PROVE  Tail(q \o r) = Tail(q) \o r /\ q \o r # <<>>
<1>1. /\ Len(q) \in Nat \ {0} /\ Len(r) \in Nat
      /\ q \o r \in Seq(T) /\ Len(q \o r) = Len(q) + Len(r)
      /\ \A i \in 1..(Len(q) + Len(r)) : (q \o r)[i] = IF i <= Len(q) THEN q[i] ELSE r[i - Len(q)]
  BY EmptySeq, LenProperties, ConcatProperties
<1>2. q \o r # <<>>
  BY <1>1, EmptySeq
<1>3. /\ Tail(q) \in Seq(T) /\ Len(Tail(q)) = Len(q) - 1
      /\ \A i \in 1..(Len(q) - 1) : Tail(q)[i] = q[i + 1]
  BY <1>1, HeadTailProperties
<1>4. /\ Tail(q \o r) \in Seq(T) /\ Len(Tail(q \o r)) = Len(q) + Len(r) - 1
      /\ \A i \in 1..(Len(q) + Len(r) - 1) : Tail(q \o r)[i] = (q \o r)[i + 1]
  BY <1>1, <1>2, HeadTailProperties
<1>5. /\ Tail(q) \o r \in Seq(T) /\ Len(Tail(q) \o r) = Len(q) + Len(r) - 1
      /\ \A i \in 1..(Len(q) + Len(r) - 1) :
           (Tail(q) \o r)[i] = IF i <= Len(q) - 1 THEN Tail(q)[i] ELSE r[i - (Len(q) - 1)]
  <2>1. Len(Tail(q)) + Len(r) = Len(q) + Len(r) - 1
    BY <1>1, <1>3
  <2> QED BY <1>3, <2>1, ConcatProperties
<1>6. ASSUME NEW i \in 1..(Len(q) + Len(r) - 1) PROVE Tail(q \o r)[i] = (Tail(q) \o r)[i]
  <2>1. Tail(q \o r)[i] = IF i + 1 <= Len(q) THEN q[i + 1] ELSE r[i + 1 - Len(q)]
    BY <1>1, <1>4
  <2>2. (Tail(q) \o r)[i] = IF i <= Len(q) - 1 THEN q[i + 1] ELSE r[i - (Len(q) - 1)]
    BY <1>1, <1>3, <1>5
  <2>3. (i + 1 <= Len(q) <=> i <= Len(q) - 1) /\ i + 1 - Len(q) = i - (Len(q) - 1)
    BY <1>1
  <2> QED BY <2>1, <2>2, <2>3
<1>7. Tail(q \o r) = Tail(q) \o r
  BY <1>4, <1>5, <1>6, SeqEqual
<1> QED BY <1>2, <1>7

\* An end put behind a concatenation.
LEMMA AppendToConcat ==
  \A q, r \in Seq(Message), m \in Message : Append(q \o r, m) = q \o Append(r, m)
<1> SUFFICES ASSUME NEW q \in Seq(Message), NEW r \in Seq(Message), NEW m \in Message
             PROVE  Append(q \o r, m) = q \o Append(r, m)
  OBVIOUS
<1>1. <<m>> \in Seq(Message)
  OBVIOUS
<1>2. Append(q \o r, m) = (q \o r) \o <<m>> /\ Append(r, m) = r \o <<m>>
  BY ConcatProperties, AppendIsConcat
<1>3. (q \o r) \o <<m>> = q \o (r \o <<m>>)
  BY <1>1, ConcatAssociative
<1> QED BY <1>2, <1>3

\* A step of one queue: nothing, one message more behind, or one less in front.
QueueStep(q, r) ==
  \/ r = q
  \/ \E m \in Message : r = Append(q, m)
  \/ q # <<>> /\ r = Tail(q)

\* A step that leaves the list and what is in it alone.
LEMMA ChainSame ==
  ASSUME NEW L, NEW p, NEW S, ChainOf(L, p, S), consumer \in NodeIds,
         producer' = producer, consumer' = consumer,
         \A n \in NodeIds : /\ nodes'[n].next = nodes[n].next /\ nodes'[n].live = nodes[n].live
                            /\ nodes'[n].msgs = nodes[n].msgs
  PROVE  ChainOf(L, p, S)'
<1>1. L \in Nat \ {0} /\ \A i \in 1..L : p[i] \in NodeIds
  BY DEF ChainOf
<1>2. \A i \in 1..(L - 1) : i \in 1..L /\ i + 1 \in 1..L
  BY <1>1
<1> QED BY <1>1, <1>2 DEF ChainOf

\* A message is published: it is the last of the list.
LEMMA ChainWritten ==
  ASSUME SafetyInv, NEW L, NEW p, NEW S, ChainOf(L, p, S), NEW m \in Message,
         producer' = producer, consumer' = consumer,
         nodes'[producer].msgs = Append(nodes[producer].msgs, m),
         \A n \in NodeIds : /\ nodes'[n].next = nodes[n].next /\ nodes'[n].live = nodes[n].live
                            /\ n # producer => nodes'[n].msgs = nodes[n].msgs
  PROVE  ChainOf(L, p, [S EXCEPT ![L] = Append(S[L], m)])'
<1> DEFINE T == [S EXCEPT ![L] = Append(S[L], m)]
<1>1. /\ L \in Nat \ {0} /\ p \in [1..L -> NodeIds] /\ S \in [1..L -> Seq(Message)]
      /\ p[1] = consumer /\ p[L] = producer
      /\ \A i, j \in 1..L : p[i] = p[j] => i = j
      /\ \A i \in 1..(L - 1) : nodes[p[i]].next = p[i + 1]
      /\ \A i \in 1..L : nodes[p[i]].live
      /\ S[1] = nodes[consumer].msgs
      /\ \A i \in 1..(L - 1) : S[i + 1] = S[i] \o nodes[p[i + 1]].msgs
      /\ \A i, j \in 1..L : i <= j => Len(S[i]) <= Len(S[j])
  BY DEF ChainOf
<1>a. 1 \in 1..L /\ L \in 1..L
  BY <1>1
<1>2. \A n \in NodeIds : nodes[n].msgs \in Seq(Message)
  BY DEF SafetyInv, NoUseAfterDelete, TypeOK, Node
<1>b. \A q, r \in Seq(Message) : Append(q \o r, m) = q \o Append(r, m)
  BY AppendToConcat
<1>3. S[L] \in Seq(Message) /\ Append(S[L], m) \in Seq(Message) /\ Len(Append(S[L], m)) = Len(S[L]) + 1
  BY <1>1, AppendProperties
<1>4. T \in [1..L -> Seq(Message)] /\ T[L] = Append(S[L], m) /\ \A i \in 1..L : i # L => T[i] = S[i]
  BY <1>1, <1>3
<1> HIDE DEF T
<1>5. T[1] = nodes'[consumer].msgs
  <2>1. CASE L = 1
    BY <1>1, <1>4, <2>1
  <2>2. CASE L # 1
    <3>1. consumer # producer /\ consumer \in NodeIds
      BY <1>1, <1>a, <2>2
    <3> QED BY <1>1, <1>a, <1>4, <2>2, <3>1
  <2> QED BY <2>1, <2>2
<1>6. ASSUME NEW i \in 1..(L - 1) PROVE T[i + 1] = T[i] \o nodes'[p[i + 1]].msgs
  <2>1. i \in 1..L /\ i + 1 \in 1..L /\ i # L /\ p[i + 1] \in NodeIds
    BY <1>1
  <2>2. CASE i + 1 = L
    <3>1. S[L] = S[i] \o nodes[producer].msgs /\ S[i] \in Seq(Message) /\ nodes[producer].msgs \in Seq(Message)
      <4>1. S[i + 1] = S[i] \o nodes[p[i + 1]].msgs /\ S[i] \in Seq(Message)
        BY <1>1, <2>1
      <4>2. p[i + 1] = producer
        BY <1>1, <2>2
      <4>3. S[i + 1] = S[L]
        BY <2>2
      <4>4. nodes[p[i + 1]].msgs \in Seq(Message)
        BY <1>2, <2>1
      <4> QED BY <4>1, <4>2, <4>3, <4>4
    <3>2. Append(S[i] \o nodes[producer].msgs, m) = S[i] \o Append(nodes[producer].msgs, m)
      BY <1>b, <3>1
    <3> QED BY <1>1, <1>4, <2>1, <2>2, <3>1, <3>2
  <2>3. CASE i + 1 # L
    <3>1. p[i + 1] # producer
      BY <1>1, <2>1, <2>3
    <3> QED BY <1>1, <1>4, <2>1, <2>3, <3>1
  <2> QED BY <2>2, <2>3
<1>7. ASSUME NEW i \in 1..L, NEW j \in 1..L, i <= j PROVE Len(T[i]) <= Len(T[j])
  <2>1. S[i] \in Seq(Message) /\ S[j] \in Seq(Message)
    BY <1>1
  <2>2. Len(S[i]) \in Nat /\ Len(S[j]) \in Nat /\ Len(S[i]) <= Len(S[j])
    BY <1>1, <1>7, <2>1, LenProperties
  <2>3. CASE j = L
    <3>1. Len(T[j]) = Len(S[j]) + 1
      BY <1>3, <1>4, <2>3
    <3>2. T[i] = S[i] \/ T[i] = T[j]
      BY <1>4, <2>3
    <3> QED BY <2>2, <3>1, <3>2
  <2>4. CASE j # L
    <3>1. i # L
      BY <1>1, <1>7, <2>4
    <3> QED BY <1>4, <2>2, <2>4, <3>1
  <2> QED BY <2>3, <2>4
<1>8. \A i \in 1..L : p[i] \in NodeIds /\ nodes'[p[i]].live
  BY <1>1
<1>9. \A i \in 1..(L - 1) : nodes'[p[i]].next = p[i + 1]
  <2> SUFFICES ASSUME NEW i \in 1..(L - 1) PROVE nodes'[p[i]].next = p[i + 1]
    OBVIOUS
  <2>1. i \in 1..L
    BY <1>1
  <2> QED BY <1>1, <1>8, <2>1
<1> QED BY <1>1, <1>4, <1>5, <1>6, <1>7, <1>8, <1>9 DEF ChainOf, T

\* A message is read: it was the first of the list.
LEMMA ChainRead ==
  ASSUME SafetyInv, NEW L, NEW p, NEW S, ChainOf(L, p, S), nodes[consumer].msgs # <<>>,
         producer' = producer, consumer' = consumer,
         nodes'[consumer].msgs = Tail(nodes[consumer].msgs),
         \A n \in NodeIds : /\ nodes'[n].next = nodes[n].next /\ nodes'[n].live = nodes[n].live
                            /\ n # consumer => nodes'[n].msgs = nodes[n].msgs
  PROVE  S[L] # <<>> /\ ChainOf(L, p, [i \in 1..L |-> Tail(S[i])])'
<1> DEFINE T == [i \in 1..L |-> Tail(S[i])]
<1>1. /\ L \in Nat \ {0} /\ p \in [1..L -> NodeIds] /\ S \in [1..L -> Seq(Message)]
      /\ p[1] = consumer /\ p[L] = producer
      /\ \A i, j \in 1..L : p[i] = p[j] => i = j
      /\ \A i \in 1..(L - 1) : nodes[p[i]].next = p[i + 1]
      /\ \A i \in 1..L : nodes[p[i]].live
      /\ S[1] = nodes[consumer].msgs
      /\ \A i \in 1..(L - 1) : S[i + 1] = S[i] \o nodes[p[i + 1]].msgs
      /\ \A i, j \in 1..L : i <= j => Len(S[i]) <= Len(S[j])
  BY DEF ChainOf
<1>a. 1 \in 1..L /\ L \in 1..L
  BY <1>1
<1>2. \A n \in NodeIds : nodes[n].msgs \in Seq(Message)
  BY DEF SafetyInv, NoUseAfterDelete, TypeOK, Node
<1>3. ASSUME NEW i \in 1..L
      PROVE  /\ S[i] # <<>> /\ Len(S[i]) \in Nat
             /\ Tail(S[i]) \in Seq(Message) /\ Len(Tail(S[i])) = Len(S[i]) - 1
  <2>1. 1 \in 1..L /\ 1 <= i /\ S[1] \in Seq(Message) /\ S[i] \in Seq(Message) /\ S[1] # <<>>
    BY <1>1, <1>a
  <2>2. Len(S[1]) \in Nat \ {0} /\ Len(S[i]) \in Nat /\ Len(S[1]) <= Len(S[i])
    BY <1>1, <2>1, EmptySeq, LenProperties
  <2>3. S[i] # <<>>
    BY <2>2, EmptySeq
  <2> QED BY <2>1, <2>2, <2>3, HeadTailProperties
<1>4. T \in [1..L -> Seq(Message)] /\ \A i \in 1..L : T[i] = Tail(S[i])
  BY <1>3
<1> HIDE DEF T
<1>5. T[1] = nodes'[consumer].msgs
  BY <1>1, <1>a, <1>4
<1>6. ASSUME NEW i \in 1..(L - 1) PROVE T[i + 1] = T[i] \o nodes'[p[i + 1]].msgs
  <2>1. i \in 1..L /\ i + 1 \in 1..L /\ 1 \in 1..L /\ i + 1 # 1 /\ p[i + 1] \in NodeIds
    BY <1>1
  <2>2. p[i + 1] # consumer
    BY <1>1, <2>1
  <2>3. S[i + 1] = S[i] \o nodes[p[i + 1]].msgs /\ S[i] \in Seq(Message) /\ nodes[p[i + 1]].msgs \in Seq(Message)
    BY <1>1, <1>2, <2>1
  <2>4. Tail(S[i] \o nodes[p[i + 1]].msgs) = Tail(S[i]) \o nodes[p[i + 1]].msgs
    <3>1. S[i] # <<>>
      BY <1>3, <2>1
    <3> QED BY <2>3, <3>1, TailOfConcat
  <2> QED BY <1>4, <2>1, <2>2, <2>3, <2>4
<1>7. ASSUME NEW i \in 1..L, NEW j \in 1..L, i <= j PROVE Len(T[i]) <= Len(T[j])
  <2>1. Len(S[i]) \in Nat /\ Len(S[j]) \in Nat /\ Len(S[i]) <= Len(S[j])
    BY <1>1, <1>3, <1>7
  <2>2. Len(T[i]) = Len(S[i]) - 1 /\ Len(T[j]) = Len(S[j]) - 1
    BY <1>3, <1>4
  <2> QED BY <2>1, <2>2
<1>8. \A i \in 1..L : p[i] \in NodeIds /\ nodes'[p[i]].live
  BY <1>1
<1>9. \A i \in 1..(L - 1) : nodes'[p[i]].next = p[i + 1]
  <2> SUFFICES ASSUME NEW i \in 1..(L - 1) PROVE nodes'[p[i]].next = p[i + 1]
    OBVIOUS
  <2>1. i \in 1..L
    BY <1>1
  <2> QED BY <1>1, <1>8, <2>1
<1>10. S[L] # <<>>
  BY <1>1, <1>3
<1> QED BY <1>1, <1>4, <1>5, <1>6, <1>7, <1>8, <1>9, <1>10 DEF ChainOf, T

\* The drained first node is deleted: the list starts at the second.
LEMMA ChainSwitched ==
  ASSUME SafetyInv, NEW L, NEW p, NEW S, ChainOf(L, p, S),
         nodes[consumer].msgs = <<>>, consumer # producer,
         consumer' = nodes[consumer].next, producer' = producer,
         \A n \in NodeIds : n # consumer => nodes'[n] = nodes[n]
  PROVE  /\ L - 1 \in Nat \ {0}
         /\ ChainOf(L - 1, [i \in 1..(L - 1) |-> p[i + 1]], [i \in 1..(L - 1) |-> S[i + 1]])'
<1> DEFINE K == L - 1
           q == [i \in 1..K |-> p[i + 1]]
           T == [i \in 1..K |-> S[i + 1]]
<1>1. /\ L \in Nat \ {0} /\ p \in [1..L -> NodeIds] /\ S \in [1..L -> Seq(Message)]
      /\ p[1] = consumer /\ p[L] = producer
      /\ \A i, j \in 1..L : p[i] = p[j] => i = j
      /\ \A i \in 1..(L - 1) : nodes[p[i]].next = p[i + 1]
      /\ \A i \in 1..L : nodes[p[i]].live
      /\ S[1] = nodes[consumer].msgs
      /\ \A i \in 1..(L - 1) : S[i + 1] = S[i] \o nodes[p[i + 1]].msgs
      /\ \A i, j \in 1..L : i <= j => Len(S[i]) <= Len(S[j])
  BY DEF ChainOf
<1>a. 1 \in 1..L /\ L \in 1..L
  BY <1>1
<1>2. \A n \in NodeIds : nodes[n].msgs \in Seq(Message)
  BY DEF SafetyInv, NoUseAfterDelete, TypeOK, Node
<1>3. K \in Nat \ {0} /\ 1 \in 1..K /\ K \in 1..K /\ \A i \in 1..K : i \in 1..L /\ i + 1 \in 1..L /\ i + 1 # 1
  <2>1. L # 1
    BY <1>1
  <2> QED BY <1>1, <2>1
<1>4. \A i \in 1..K : q[i] = p[i + 1] /\ T[i] = S[i + 1]
  OBVIOUS
<1>5. q \in [1..K -> NodeIds] /\ T \in [1..K -> Seq(Message)]
  BY <1>1, <1>3
<1>6. K + 1 = L /\ 1 + 1 = 2 /\ 2 \in 1..L
  BY <1>1, <1>3
<1> HIDE DEF K, q, T
<1>7. \A i \in 1..K : q[i] \in NodeIds /\ q[i] # consumer /\ nodes'[q[i]] = nodes[q[i]]
  <2> SUFFICES ASSUME NEW i \in 1..K
               PROVE  q[i] \in NodeIds /\ q[i] # consumer /\ nodes'[q[i]] = nodes[q[i]]
    OBVIOUS
  <2>1. i + 1 \in 1..L /\ i + 1 # 1 /\ q[i] = p[i + 1]
    BY <1>3, <1>4
  <2>2. p[i + 1] \in NodeIds /\ p[i + 1] # consumer
    BY <1>1, <1>a, <2>1
  <2> QED BY <2>1, <2>2
<1>8. q[1] = consumer' /\ q[K] = producer'
  <2>1. nodes[p[1]].next = p[2]
    BY <1>1, <1>3, <1>6 DEF K
  <2> QED BY <1>1, <1>3, <1>4, <1>6, <2>1
<1>9. \A i, j \in 1..K : q[i] = q[j] => i = j
  <2> SUFFICES ASSUME NEW i \in 1..K, NEW j \in 1..K, q[i] = q[j] PROVE i = j
    OBVIOUS
  <2>1. i + 1 \in 1..L /\ j + 1 \in 1..L /\ p[i + 1] = p[j + 1]
    BY <1>3, <1>4
  <2>2. i + 1 = j + 1
    BY <1>1, <2>1
  <2> QED BY <1>3, <2>2
<1>10. \A i \in 1..K : nodes'[q[i]].live
  <2> SUFFICES ASSUME NEW i \in 1..K PROVE nodes'[q[i]].live
    OBVIOUS
  <2>1. i + 1 \in 1..L /\ q[i] = p[i + 1]
    BY <1>3, <1>4
  <2>2. nodes[q[i]].live
    BY <1>1, <2>1
  <2> QED BY <1>7, <2>2
<1>11. ASSUME NEW i \in 1..(K - 1) PROVE nodes'[q[i]].next = q[i + 1] /\ T[i + 1] = T[i] \o nodes'[q[i + 1]].msgs
  <2>1. i \in 1..K /\ i + 1 \in 1..K /\ i + 1 \in 1..(L - 1)
    BY <1>3, <1>6
  <2>2. nodes[p[i + 1]].next = p[i + 1 + 1] /\ S[i + 1 + 1] = S[i + 1] \o nodes[p[i + 1 + 1]].msgs
    BY <1>1, <2>1
  <2> QED BY <1>4, <1>7, <2>1, <2>2
<1>12. T[1] = nodes'[consumer'].msgs
  <2>1. S[2] = S[1] \o nodes[p[2]].msgs
    <3>1. 1 \in 1..(L - 1)
      BY <1>3 DEF K
    <3>2. S[1 + 1] = S[1] \o nodes[p[1 + 1]].msgs
      BY <1>1, <3>1
    <3> QED BY <1>6, <3>2
  <2>2. nodes[p[2]].msgs \in Seq(Message) /\ S[1] = <<>>
    BY <1>1, <1>2, <1>6
  <2>3. S[2] = nodes[p[2]].msgs
    BY <2>1, <2>2, ConcatEmptySeq
  <2>4. q[1] = p[2] /\ T[1] = S[2]
    BY <1>3, <1>4, <1>6
  <2> QED BY <1>3, <1>7, <1>8, <2>3, <2>4
<1>13. ASSUME NEW i \in 1..K, NEW j \in 1..K, i <= j PROVE Len(T[i]) <= Len(T[j])
  <2>1. i + 1 <= j + 1
    BY <1>3, <1>13
  <2>2. i + 1 \in 1..L /\ j + 1 \in 1..L /\ T[i] = S[i + 1] /\ T[j] = S[j + 1]
    BY <1>3, <1>4
  <2> QED BY <1>1, <2>1, <2>2
<1>14. ChainOf(K, q, T)'
  BY <1>3, <1>5, <1>8, <1>9, <1>10, <1>11, <1>12, <1>13 DEF ChainOf
<1> QED BY <1>3, <1>14 DEF K, q, T

\* A fresh node is linked behind the producer's: the list is longer by an empty node.
LEMMA ChainLinked ==
  ASSUME SafetyInv, NEW L, NEW p, NEW S, ChainOf(L, p, S),
         NEW f \in NodeIds, ~nodes[f].live, producer' = f, consumer' = consumer,
         NEW c, nodes' = [nodes EXCEPT ![f] = NewNode(c), ![producer].next = f]
  PROVE  ChainOf(L + 1, [i \in 1..(L + 1) |-> IF i <= L THEN p[i] ELSE f],
                        [i \in 1..(L + 1) |-> IF i <= L THEN S[i] ELSE S[L]])'
<1> DEFINE K == L + 1
           q == [i \in 1..K |-> IF i <= L THEN p[i] ELSE f]
           T == [i \in 1..K |-> IF i <= L THEN S[i] ELSE S[L]]
<1>1. /\ L \in Nat \ {0} /\ p \in [1..L -> NodeIds] /\ S \in [1..L -> Seq(Message)]
      /\ p[1] = consumer /\ p[L] = producer
      /\ \A i, j \in 1..L : p[i] = p[j] => i = j
      /\ \A i \in 1..(L - 1) : nodes[p[i]].next = p[i + 1]
      /\ \A i \in 1..L : nodes[p[i]].live
      /\ S[1] = nodes[consumer].msgs
      /\ \A i \in 1..(L - 1) : S[i + 1] = S[i] \o nodes[p[i + 1]].msgs
      /\ \A i, j \in 1..L : i <= j => Len(S[i]) <= Len(S[j])
  BY DEF ChainOf
<1>a. 1 \in 1..L /\ L \in 1..L
  BY <1>1
<1>2. nodes \in [NodeIds -> Node]
  BY DEF SafetyInv, NoUseAfterDelete, TypeOK
<1>3. K \in Nat \ {0} /\ 1 \in 1..K /\ K \in 1..K /\ \A i \in 1..K : (i <= L <=> i \in 1..L) /\ (i <= L <=> i # K)
  BY <1>1
<1>4. /\ \A i \in 1..L : q[i] = p[i] /\ T[i] = S[i] /\ i \in 1..K
      /\ q[K] = f /\ T[K] = S[L]
  BY <1>1, <1>3
<1>5. q \in [1..K -> NodeIds] /\ T \in [1..K -> Seq(Message)]
  BY <1>1, <1>a, <1>3
<1> HIDE DEF K, q, T
<1>6. \A i \in 1..L : p[i] \in NodeIds /\ p[i] # f
  BY <1>1
<1>7. producer \in NodeIds /\ producer # f /\ consumer # f
  BY <1>1, <1>a, <1>6
<1>8. /\ nodes'[f].next = Null /\ nodes'[f].msgs = <<>> /\ nodes'[f].live
      /\ nodes'[producer].next = f /\ nodes'[producer].msgs = nodes[producer].msgs /\ nodes'[producer].live = nodes[producer].live
      /\ \A n \in NodeIds \ {f, producer} : nodes'[n] = nodes[n]
  BY <1>2, <1>7 DEF NewNode, Node
<1>9. \A n \in NodeIds : n # f => nodes'[n].msgs = nodes[n].msgs /\ nodes'[n].live = nodes[n].live
  BY <1>8
<1>10. q[1] = consumer' /\ q[K] = producer' /\ T[1] = nodes'[consumer'].msgs
  <2>1. consumer \in NodeIds
    BY <1>1, <1>a, <1>6
  <2> QED BY <1>1, <1>a, <1>4, <1>7, <1>9, <2>1
<1>11. \A i, j \in 1..K : q[i] = q[j] => i = j
  BY <1>1, <1>3, <1>4, <1>6
<1>12. \A i \in 1..K : nodes'[q[i]].live
  <2> SUFFICES ASSUME NEW i \in 1..K PROVE nodes'[q[i]].live
    OBVIOUS
  <2>1. CASE i = K
    BY <1>4, <1>8, <2>1
  <2>2. CASE i # K
    <3>1. i \in 1..L
      BY <1>3, <2>2
    <3>2. q[i] = p[i] /\ p[i] \in NodeIds /\ p[i] # f /\ nodes[p[i]].live
      BY <1>1, <1>4, <1>6, <3>1
    <3> QED BY <1>9, <3>2
  <2> QED BY <2>1, <2>2
<1>13. ASSUME NEW i \in 1..(K - 1) PROVE nodes'[q[i]].next = q[i + 1] /\ T[i + 1] = T[i] \o nodes'[q[i + 1]].msgs
  <2>1. i \in 1..L
    BY <1>1, <1>3 DEF K
  <2>2. CASE i = L
    <3>1. i + 1 = K
      BY <2>2 DEF K
    <3>2. S[L] \o <<>> = S[L]
      BY <1>1, <1>a, ConcatEmptySeq
    <3>3. q[i] = producer /\ q[i + 1] = f /\ T[i] = S[L] /\ T[i + 1] = S[L]
      BY <1>1, <1>a, <1>4, <2>2, <3>1
    <3> QED BY <1>8, <3>2, <3>3
  <2>3. CASE i # L
    <3>1. i \in 1..(L - 1) /\ i + 1 \in 1..L
      BY <1>1, <2>1, <2>3
    <3>2. p[i] \notin {f, producer} /\ p[i] \in NodeIds /\ p[i + 1] \in NodeIds /\ p[i + 1] # f
      BY <1>1, <1>a, <1>6, <2>1, <2>3, <3>1
    <3>3. nodes'[p[i]] = nodes[p[i]] /\ nodes'[p[i + 1]].msgs = nodes[p[i + 1]].msgs
      BY <1>8, <1>9, <3>2
    <3>4. q[i] = p[i] /\ q[i + 1] = p[i + 1] /\ T[i] = S[i] /\ T[i + 1] = S[i + 1]
      BY <1>4, <2>1, <3>1
    <3>5. nodes[p[i]].next = p[i + 1] /\ S[i + 1] = S[i] \o nodes[p[i + 1]].msgs
      BY <1>1, <3>1
    <3> QED BY <3>3, <3>4, <3>5
  <2> QED BY <2>2, <2>3
<1>14. ASSUME NEW i \in 1..K, NEW j \in 1..K, i <= j PROVE Len(T[i]) <= Len(T[j])
  <2>1. ASSUME NEW k \in 1..K PROVE T[k] = S[IF k <= L THEN k ELSE L] /\ (IF k <= L THEN k ELSE L) \in 1..L
    BY <1>a, <1>3, <1>4
  <2>2. (IF i <= L THEN i ELSE L) <= (IF j <= L THEN j ELSE L)
    BY <1>1, <1>3, <1>14
  <2> QED BY <1>1, <2>1, <2>2
<1>15. ChainOf(K, q, T)'
  BY <1>3, <1>5, <1>10, <1>11, <1>12, <1>13, <1>14 DEF ChainOf
<1> QED BY <1>15 DEF K, q, T

\* Every step of the two threads leaves such a list, and is a step of one queue.
LEMMA ChainStep ==
  ASSUME SafetyInv, [Next]_vars, NEW L, NEW p, NEW S, ChainOf(L, p, S)
  PROVE  \E K, q, T : ChainOf(K, q, T)' /\ QueueStep(S[L], T[K])
<1> DEFINE Goal == \E K, q, T : ChainOf(K, q, T)' /\ QueueStep(S[L], T[K])
<1>1. /\ nodes \in [NodeIds -> Node] /\ consumer \in NodeIds /\ producer \in NodeIds
      /\ L \in Nat \ {0} /\ S \in [1..L -> Seq(Message)] /\ L \in 1..L
  BY DEF SafetyInv, NoUseAfterDelete, TypeOK, ChainOf
<1>2. ASSUME producer' = producer, consumer' = consumer,
             \A n \in NodeIds : /\ nodes'[n].next = nodes[n].next /\ nodes'[n].live = nodes[n].live
                                /\ nodes'[n].msgs = nodes[n].msgs
      PROVE  Goal
  <2>1. ChainOf(L, p, S)'
    BY <1>1, <1>2, ChainSame
  <2> QED BY <2>1 DEF QueueStep
<1>3. ASSUME NEW c, Link(c), consumer' = consumer PROVE Goal
  <2>1. PICK f : producer' = f
    OBVIOUS
  <2>2. /\ f \in NodeIds /\ ~nodes[f].live
        /\ nodes' = [nodes EXCEPT ![f] = NewNode(c), ![producer].next = f]
    BY <1>3, <2>1, LinkFresh
  <2> DEFINE K == L + 1
             q == [i \in 1..K |-> IF i <= L THEN p[i] ELSE f]
             T == [i \in 1..K |-> IF i <= L THEN S[i] ELSE S[L]]
  <2>3. ChainOf(K, q, T)'
    BY <1>3, <2>1, <2>2, ChainLinked
  <2>4. T[K] = S[L]
    BY <1>1
  <2> HIDE DEF K, q, T
  <2> QED BY <2>3, <2>4 DEF QueueStep
<1>4. ASSUME FinishAndCommitWrite PROVE Goal
  <2>0. PICK m : m = [id |-> sent + 1, size |-> psize]
    OBVIOUS
  <2> DEFINE old == nodes[producer]
             node == [old EXCEPT !.msgs = Append(@, m), !.used = @ + m.size]
             T == [S EXCEPT ![L] = Append(S[L], m)]
  <2>1. nodes' = [nodes EXCEPT ![producer] = node] /\ producer' = producer /\ consumer' = consumer
    BY <1>4, <2>0 DEF FinishAndCommitWrite, cvars
  <2>2. m \in Message
    BY <1>4, <2>0, BoundsAssumption DEF FinishAndCommitWrite, Message, SafetyInv, ProducerReady, NoUseAfterDelete, TypeOK
  <2>3. node.next = old.next /\ node.live = old.live /\ node.msgs = Append(old.msgs, m)
    BY <1>1, <2>2, NodeWritten
  <2> HIDE DEF node
  <2>4. /\ nodes'[producer].msgs = Append(nodes[producer].msgs, m)
        /\ \A n \in NodeIds : /\ nodes'[n].next = nodes[n].next /\ nodes'[n].live = nodes[n].live
                              /\ n # producer => nodes'[n].msgs = nodes[n].msgs
    BY <1>1, <2>1, <2>3
  <2>5. ChainOf(L, p, T)'
    BY <2>1, <2>2, <2>4, ChainWritten
  <2>6. T[L] = Append(S[L], m)
    BY <1>1
  <2> HIDE DEF T
  <2> QED BY <2>2, <2>5, <2>6 DEF QueueStep
<1>5. ASSUME FinishRead PROVE Goal
  <2> DEFINE old == nodes[consumer]
             node == [old EXCEPT !.held = @ + Head(old.msgs).size, !.msgs = Tail(@)]
             T == [i \in 1..L |-> Tail(S[i])]
  <2>1. nodes' = [nodes EXCEPT ![consumer] = node] /\ producer' = producer /\ consumer' = consumer /\ cpc = "reading"
    BY <1>5 DEF FinishRead, pvars
  <2>2. old.msgs # <<>>
    BY <2>1 DEF SafetyInv, SeenByConsumer
  <2>3. node.next = old.next /\ node.live = old.live /\ node.msgs = Tail(old.msgs)
    BY <1>1, <2>2, NodeRead
  <2> HIDE DEF node
  <2>4. /\ nodes'[consumer].msgs = Tail(nodes[consumer].msgs)
        /\ \A n \in NodeIds : /\ nodes'[n].next = nodes[n].next /\ nodes'[n].live = nodes[n].live
                              /\ n # consumer => nodes'[n].msgs = nodes[n].msgs
    BY <1>1, <2>1, <2>3
  <2>5. S[L] # <<>> /\ ChainOf(L, p, T)'
    BY <2>1, <2>2, <2>4, ChainRead
  <2>6. T[L] = Tail(S[L])
    BY <1>1
  <2> HIDE DEF T
  <2> QED BY <2>5, <2>6 DEF QueueStep
<1>6. ASSUME CommitRead PROVE Goal
  <2>1. CASE UNCHANGED nodes
    BY <1>2, <1>6, <2>1 DEF CommitRead, pvars
  <2>2. CASE nodes' = [nodes EXCEPT ![consumer].used = @ - nodes[consumer].held, ![consumer].held = 0]
    <3> DEFINE old == nodes[consumer]
               node == [old EXCEPT !.used = @ - old.held, !.held = 0]
    <3>1. nodes' = [nodes EXCEPT ![consumer] = node] /\ producer' = producer /\ consumer' = consumer
      BY <1>6, <2>2 DEF CommitRead, pvars
    <3>2. node.next = old.next /\ node.live = old.live /\ node.msgs = old.msgs
      BY <1>1, NodeCommitted
    <3> HIDE DEF node
    <3>3. \A n \in NodeIds : /\ nodes'[n].next = nodes[n].next /\ nodes'[n].live = nodes[n].live
                             /\ nodes'[n].msgs = nodes[n].msgs
      BY <1>1, <3>1, <3>2
    <3> QED BY <1>2, <3>1, <3>3
  <2> QED BY <1>6, <2>1, <2>2 DEF CommitRead
<1>7. ASSUME SwitchNode PROVE Goal
  <2>1. /\ nodes' = [nodes EXCEPT ![consumer] = Deleted] /\ consumer' = cnext
        /\ producer' = producer /\ cpc = "switch"
    BY <1>7 DEF SwitchNode, pvars
  <2>2. /\ nodes[consumer].msgs = <<>> /\ cnext # Null /\ cnext = nodes[consumer].next /\ nodes[consumer].live
    BY <2>1 DEF SafetyInv, SeenByConsumer, NoUseAfterDelete, NodesLive
  <2>3. consumer # producer
    BY <1>1, <2>2 DEF SafetyInv, Linked
  <2>4. \A n \in NodeIds : n # consumer => nodes'[n] = nodes[n]
    BY <1>1, <2>1
  <2> DEFINE K == L - 1
             q == [i \in 1..K |-> p[i + 1]]
             T == [i \in 1..K |-> S[i + 1]]
  <2>5. K \in Nat \ {0} /\ ChainOf(K, q, T)'
    BY <2>1, <2>2, <2>3, <2>4, ChainSwitched
  <2>6. T[K] = S[L]
    <3>1. K \in 1..K /\ K + 1 = L
      BY <1>1, <2>5
    <3> QED BY <3>1
  <2> HIDE DEF K, q, T
  <2> QED BY <2>5, <2>6 DEF QueueStep
<1>8. ASSUME NEW n \in Sizes, Grow(n) PROVE Goal
  BY <1>3, <1>8 DEF Grow, cvars
<1>9. ASSUME NEW c \in ShrinkCapacities, Shrink(c) PROVE Goal
  BY <1>3, <1>9 DEF Shrink, cvars
<1>10. CASE UNCHANGED <<nodes, producer, consumer>>
  BY <1>2, <1>10
<1>11. \/ UNCHANGED <<nodes, producer, consumer>>
       \/ \E n \in Sizes : Grow(n)
       \/ \E c \in ShrinkCapacities : Shrink(c)
       \/ FinishAndCommitWrite \/ FinishRead \/ CommitRead \/ SwitchNode
  BY DEF Next, Producer, Consumer, Poll, PrepareWrite, PrepareWriteFull, Exit, PrepareRead, LoadNext,
         RetryNode, FirstRead, EmptyNode, EmptyNext, vars, pvars, cvars
<1> QED BY <1>4, <1>5, <1>6, <1>7, <1>8, <1>9, <1>10, <1>11

\* The queue starts with one list of one node.
LEMMA InitInv == Init => IInv
<1> SUFFICES ASSUME Init PROVE IInv
  OBVIOUS
<1>1. SafetyInv
  BY SafetyInit
<1> DEFINE p == [i \in 1..1 |-> consumer]
           S == [i \in 1..1 |-> nodes[consumer].msgs]
<1>2. consumer = producer /\ consumer \in NodeIds /\ nodes[consumer].live /\ nodes[consumer].msgs \in Seq(Message)
  BY <1>1 DEF Init, SafetyInv, NoUseAfterDelete, NodesLive, TypeOK, Node
<1>3. ChainOf(1, p, S)
  <2>1. p \in [1..1 -> NodeIds] /\ S \in [1..1 -> Seq(Message)] /\ p[1] = consumer /\ S[1] = nodes[consumer].msgs
    BY <1>2
  <2>2. \A i \in 1..1 : i = 1
    OBVIOUS
  <2>3. 1..(1 - 1) = {}
    OBVIOUS
  <2>4. Len(S[1]) <= Len(S[1])
    <3>1. Len(S[1]) \in Nat
      BY <1>2, <2>1, LenProperties
    <3> QED BY <3>1
  <2> HIDE DEF p, S
  <2> QED BY <1>2, <2>1, <2>2, <2>3, <2>4 DEF ChainOf
<1> QED BY <1>1, <1>3 DEF IInv, Chained

\* Every step keeps the list, and what waits in it changes like one queue.
LEMMA NextInv == IInv /\ [Next]_vars => IInv' /\ QueueStep(Pending, Pending')
<1> SUFFICES ASSUME IInv, [Next]_vars PROVE IInv' /\ QueueStep(Pending, Pending')
  OBVIOUS
<1>1. SafetyInv /\ SafetyInv'
  BY SafetyNext DEF IInv
<1>2. PICK L, p, S : ChainOf(L, p, S)
  BY DEF IInv, Chained
<1>3. PICK K, q, T : ChainOf(K, q, T)' /\ QueueStep(S[L], T[K])
  BY <1>1, <1>2, ChainStep
<1>4. Pending = S[L]
  BY <1>1, <1>2, WalkVisits
<1>5. Pending' = T[K]
  BY <1>1, <1>3, WalkVisitsNext
<1>6. Chained'
  BY <1>3 DEF Chained
<1> QED BY <1>1, <1>3, <1>4, <1>5, <1>6 DEF IInv

-----------------------------------------------------------------------------
(***************************************************************************)
(* The theorems.                                                           *)
(***************************************************************************)

\* At every moment the nodes from the consumer's to the producer's are one list
\* of live nodes, on which both threads' pointers stay true.
THEOREM Invariance == Spec => []IInv
<1> QED BY InitInv, NextInv, PTL DEF Spec

\* Neither thread ever follows a pointer to a deleted node, although the consumer
\* deletes nodes while the producer links new ones, and what prepare_write hands
\* out always has room for the message.
THEOREM NodesStayLive == Spec => []NoUseAfterDelete
<1>1. IInv => NoUseAfterDelete
  BY DEF IInv, SafetyInv
<1> QED BY <1>1, Invariance, PTL

\* The queue of an exited thread is destroyed only when empty() has seen its last
\* node drained, and then no message is left in any node.
THEOREM RemovedWhenDrained == Spec => []RemovedOnlyWhenDrained
<1>1. IInv => RemovedOnlyWhenDrained
  <2> SUFFICES ASSUME IInv, cpc = "removed" PROVE Pending = <<>>
    BY DEF RemovedOnlyWhenDrained
  <2>1. nodes[consumer].msgs = <<>> /\ nodes[consumer].next = Null /\ SafetyInv
    BY DEF IInv, SafetyInv, SeenByConsumer
  <2>2. PICK L, p, S : ChainOf(L, p, S)
    BY DEF IInv, Chained
  <2>3. L = 1
    <3> SUFFICES ASSUME L # 1 PROVE FALSE
      OBVIOUS
    <3>1. L \in Nat \ {0} /\ p \in [1..L -> NodeIds]
      BY <2>2 DEF ChainOf
    <3>2. 1 \in 1..(L - 1) /\ 1 + 1 \in 1..L
      BY <3>1
    <3>3. nodes[p[1]].next = p[1 + 1] /\ p[1] = consumer /\ p[1 + 1] \in NodeIds
      BY <2>2, <3>1, <3>2 DEF ChainOf
    <3> QED BY <2>1, <3>3, BoundsAssumption
  <2>4. S[1] = <<>>
    BY <2>1, <2>2 DEF ChainOf
  <2> QED BY <2>1, <2>2, <2>3, <2>4, WalkVisits
<1> QED BY <1>1, Invariance, PTL

\* The list of nodes is one first-in first-out queue: messages come out once, whole
\* and in the order of their publication, also where the consumer moves on from a
\* node while the producer links another.  (That they all come out needs fairness.)
THEOREM RefinesFrontendQueue == Spec => Fifo!Spec
<1>1. Init => Fifo!Init
  <2> SUFFICES ASSUME Init PROVE Pending = <<>>
    BY DEF Fifo!Init
  <2>1. IInv /\ consumer = producer /\ nodes[consumer].msgs = <<>>
    <3>1. Min(NodeIds) \in NodeIds
      BY MinIsLeast, BoundsAssumption
    <3> QED BY <3>1, InitInv DEF Init, NewNode
  <2>2. PICK L, p, S : ChainOf(L, p, S)
    BY <2>1 DEF IInv, Chained
  <2>3. L = 1
    <3>1. L \in Nat \ {0} /\ 1 \in 1..L /\ L \in 1..L /\ p[1] = p[L]
      BY <2>1, <2>2 DEF ChainOf
    <3> QED BY <2>2, <3>1 DEF ChainOf
  <2>4. S[1] = <<>>
    BY <2>1, <2>2 DEF ChainOf
  <2> QED BY <2>1, <2>2, <2>3, <2>4, WalkVisits DEF IInv
<1>2. ASSUME IInv, [Next]_vars PROVE [Fifo!Next]_Pending
  <2>1. QueueStep(Pending, Pending')
    BY <1>2, NextInv
  <2>2. Pending \in Seq(Message)
    <3>1. PICK L, p, S : ChainOf(L, p, S)
      BY <1>2 DEF IInv, Chained
    <3>2. L \in 1..L /\ S[L] \in Seq(Message)
      BY <3>1 DEF ChainOf
    <3> QED BY <1>2, <3>1, <3>2, WalkVisits DEF IInv
  <2>3. ASSUME NEW m \in Message, Pending' = Append(Pending, m) PROVE Fifo!Enqueue
    <3> DEFINE q == Pending
               r == Append(q, m)
    <3>1. Len(q) \in Nat /\ r \in Seq(Message) /\ Len(r) = Len(q) + 1 /\ \A i \in 1..Len(q) : r[i] = q[i]
      BY <2>2, AppendProperties, LenProperties
    <3> HIDE DEF q, r
    <3>2. /\ SubSeq(r, 1, Len(q)) \in Seq(Message) /\ Len(SubSeq(r, 1, Len(q))) = Len(q)
          /\ \A i \in 1..Len(q) : SubSeq(r, 1, Len(q))[i] = r[i]
      <4>1. \A i \in 1..Len(q) : r[i] \in Message
        <5>1. \A i \in 1..Len(q) : i \in 1..Len(r)
          BY <3>1
        <5> QED BY <3>1, <5>1, ElementOfSeq
      <4> QED BY <3>1, <4>1, SubSeqProperties
    <3>3. SubSeq(r, 1, Len(q)) = q
      <4>1. \A i \in 1..Len(SubSeq(r, 1, Len(q))) : SubSeq(r, 1, Len(q))[i] = q[i]
        BY <3>1, <3>2
      <4>2. q \in Seq(Message)
        BY <2>2 DEF q
      <4> QED BY <3>2, <4>1, <4>2, SeqEqual
    <3> QED BY <2>3, <3>1, <3>3 DEF Fifo!Enqueue, q, r
  <2>4. ASSUME Pending # <<>>, Pending' = Tail(Pending) PROVE Fifo!Dequeue
    BY <2>4 DEF Fifo!Dequeue
  <2> QED BY <2>1, <2>3, <2>4 DEF QueueStep, Fifo!Next
<1> QED BY <1>1, <1>2, Invariance, PTL DEF Spec, Fifo!Spec
=============================================================================
