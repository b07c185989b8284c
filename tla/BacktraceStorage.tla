-------------------------- MODULE BacktraceStorage --------------------------
(***************************************************************************)
(* The backtrace of one logger (backend/BacktraceStorage.h): a vector that *)
(* grows to its capacity and is overwritten in a circle from then on.  The *)
(* backend creates it with the first InitBacktrace event.                  *)
(***************************************************************************)
EXTENDS Integers, Sequences

VARIABLES
  created,    \* _backtrace_storage is set
  capacity, index, stored,  \* its _capacity, _index and _stored_events
  output      \* history: the events that were handed out

Init ==
  /\ created = FALSE /\ capacity = 0 /\ index = 0 /\ stored = <<>>
  /\ output = <<>>

-----------------------------------------------------------------------------

\* Mutant: a full storage overwrites its first slot.
StoreAtFront(e) ==
  /\ IF Len(stored) < capacity THEN stored' = Append(stored, e)
     ELSE stored' = [stored EXCEPT ![1] = e]
  /\ UNCHANGED <<created, capacity, index, output>>

\* Its capacity is not 0: init_backtrace() refuses that.
Store(e) ==
  /\ IF Len(stored) < capacity THEN stored' = Append(stored, e) /\ UNCHANGED index
     ELSE /\ stored' = [stored EXCEPT ![index + 1] = e]
          /\ index' = IF index < capacity - 1 THEN index + 1 ELSE 0
  /\ UNCHANGED <<created, capacity, output>>

\* process() hands the events to its callback from _index on, in a circle.
Visited(k) == [i \in 1..k |-> stored[((index + i - 1) % Len(stored)) + 1]]

\* The callback may throw after k events; the storage is cleared in either case.
Process(k) ==
  /\ output' = output \o Visited(k)
  /\ stored' = <<>> /\ index' = 0
  /\ UNCHANGED <<created, capacity>>

\* The storage is created when needed.  set_capacity() of the capacity it has
\* keeps the events.
SetCapacity(c) ==
  /\ created' = TRUE
  /\ IF capacity # c
       THEN capacity' = c /\ index' = 0 /\ stored' = <<>>
       ELSE UNCHANGED <<capacity, index, stored>>
  /\ UNCHANGED output

\* What the backend does with the storage of a logger: it stores an event if
\* there is a storage, processes what is stored up to a failure of the callback,
\* or sets the capacity.
StorageNext(Event) ==
  \/ created /\ \E e \in Event : Store(e)
  \/ created /\ \E k \in 0..Len(stored) : Process(k)
  \/ \E c \in Nat \ {0} : SetCapacity(c)

StorageSpec(Event) == Init /\ [][StorageNext(Event)]_<<created, capacity, index, stored, output>>
=============================================================================
