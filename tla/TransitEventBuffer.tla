------------------------- MODULE TransitEventBuffer -------------------------
(***************************************************************************)
(* The backend's ring buffer of decoded events (backend/                   *)
(* TransitEventBuffer.h), one per frontend thread.  Its positions count on *)
(* and wrap at the width of size_t; a slot is a position masked with the   *)
(* capacity.  A full buffer doubles, which may fail half way and must then *)
(* leave the events where they were; an empty one may shrink.              *)
(*                                                                         *)
(* back() hands out a slot that the caller fills and may then abandon: an  *)
(* event ahead of the cut-off, or an MDC event, is never pushed.           *)
(***************************************************************************)
EXTENDS Integers, Sequences

CONSTANTS Events,
          NoEvent,          \* a default-constructed or moved-from slot
          InitialCapacity,
          Capacities,       \* the capacities the buffer may take
          Wrap              \* 2^w for a size_t of w bits

ASSUME ConstantsAssumption ==
  /\ InitialCapacity \in Capacities
  /\ Wrap \in Nat
  /\ \A c \in Capacities : c \in Nat /\ c > 0 /\ c < Wrap /\ Wrap % c = 0

VARIABLES
  capacity, storage,     \* _storage, and its size
  readerPos, writerPos,
  shrinkRequested,
  filled,   \* back() was called and its slot filled, push_back() was not
  pending,  \* history: the event in that slot
  content   \* history: the events pushed and not popped

vars == <<capacity, storage, readerPos, writerPos, shrinkRequested, filled, pending, content>>

Slots == 0..(capacity - 1)

At(p) == storage[p % capacity]

Size == (writerPos - readerPos) % Wrap

Init ==
  /\ capacity = InitialCapacity
  /\ storage = [i \in Slots |-> NoEvent]
  /\ readerPos = 0 /\ writerPos = 0
  /\ shrinkRequested = FALSE
  /\ filled = FALSE /\ pending = NoEvent
  /\ content = <<>>

-----------------------------------------------------------------------------

\* back() of a buffer that is not full, and the caller filling the slot.
Back(e) ==
  /\ ~filled /\ Size # capacity
  /\ storage' = [storage EXCEPT ![writerPos % capacity] = e]
  /\ filled' = TRUE /\ pending' = e
  /\ UNCHANGED <<capacity, readerPos, writerPos, shrinkRequested, content>>

\* Mutant: the events move to the front, the positions stay.
ExpandKeepingPositions ==
  /\ ~filled /\ Size = capacity
  /\ 2 * capacity \in Capacities
  /\ capacity' = 2 * capacity
  /\ storage' = [i \in 0..(2 * capacity - 1) |->
                   IF i < Size THEN At((readerPos + i) % Wrap) ELSE NoEvent]
  /\ UNCHANGED <<readerPos, writerPos, shrinkRequested, filled, pending, content>>

\* back() of a full buffer expands it first: the events move to the front of
\* storage of twice the size.
Expand ==
  /\ ~filled /\ Size = capacity
  /\ 2 * capacity \in Capacities
  /\ capacity' = 2 * capacity
  /\ storage' = [i \in 0..(2 * capacity - 1) |->
                   IF i < Size THEN At((readerPos + i) % Wrap) ELSE NoEvent]
  /\ readerPos' = 0 /\ writerPos' = Size
  /\ UNCHANGED <<shrinkRequested, filled, pending, content>>

\* Constructing the new slots throws after the events were moved out: they
\* are moved back, and the caller does not get a slot.
ExpandThrows ==
  /\ ~filled /\ Size = capacity
  /\ LET moved == [i \in 0..(Size - 1) |-> At((readerPos + i) % Wrap)]
     IN  storage' = [s \in Slots |-> moved[(s - readerPos) % capacity]]
  /\ UNCHANGED <<capacity, readerPos, writerPos, shrinkRequested, filled, pending, content>>

PushBack ==
  /\ filled
  /\ writerPos' = (writerPos + 1) % Wrap
  /\ filled' = FALSE /\ pending' = NoEvent
  /\ content' = Append(content, pending)
  /\ UNCHANGED <<capacity, storage, readerPos, shrinkRequested>>

\* The caller returns without push_back().
Abandon ==
  /\ filled
  /\ filled' = FALSE /\ pending' = NoEvent
  /\ UNCHANGED <<capacity, storage, readerPos, writerPos, shrinkRequested, content>>

\* front() and, once the event is processed, pop_front().
PopFront ==
  /\ ~filled /\ readerPos # writerPos
  /\ readerPos' = (readerPos + 1) % Wrap
  /\ content' = Tail(content)
  /\ UNCHANGED <<capacity, storage, writerPos, shrinkRequested, filled, pending>>

RequestShrink ==
  /\ ~filled
  /\ shrinkRequested' = TRUE
  /\ UNCHANGED <<capacity, storage, readerPos, writerPos, filled, pending, content>>

\* try_shrink() of an empty buffer; it keeps the request of another.
TryShrink ==
  /\ ~filled /\ shrinkRequested /\ readerPos = writerPos
  /\ IF capacity > InitialCapacity
       THEN /\ capacity' = InitialCapacity
            /\ storage' = [i \in 0..(InitialCapacity - 1) |-> NoEvent]
            /\ readerPos' = 0 /\ writerPos' = 0
       ELSE UNCHANGED <<capacity, storage, readerPos, writerPos>>
  /\ shrinkRequested' = FALSE
  /\ UNCHANGED <<filled, pending, content>>

Next ==
  \/ \E e \in Events : Back(e)
  \/ Expand \/ ExpandThrows \/ PushBack \/ Abandon \/ PopFront
  \/ RequestShrink \/ TryShrink

Spec == Init /\ [][Next]_vars

-----------------------------------------------------------------------------
(***************************************************************************)
(* Properties.                                                             *)
(***************************************************************************)

\* The storage has the capacity's slots and the positions their width.
TypeOK ==
  /\ capacity \in Capacities
  /\ storage \in [Slots -> Events \cup {NoEvent}]
  /\ readerPos \in 0..(Wrap - 1) /\ writerPos \in 0..(Wrap - 1)
  /\ shrinkRequested \in BOOLEAN /\ filled \in BOOLEAN
  /\ pending \in Events \cup {NoEvent}
  /\ content \in Seq(Events)

\* size() counts the events, also across the wrap of the positions, and never
\* exceeds the capacity; a slot that back() handed out is free.
SizeIsRight ==
  /\ Size = Len(content) /\ Size <= capacity
  /\ filled => Size < capacity /\ At(writerPos) = pending /\ pending \in Events

\* The events between the positions are those pushed and not popped, in their
\* order, through every wrap, expansion, failed expansion and shrinking.
EventsIntact ==
  \A i \in 1..Len(content) : At((readerPos + i - 1) % Wrap) = content[i]
=============================================================================
