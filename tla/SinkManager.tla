----------------------------- MODULE SinkManager -----------------------------
(***************************************************************************)
(* The registry of sinks (core/SinkManager.h).  A sink is constructed      *)
(* outside the lock, because a file sink runs user callbacks, after its id *)
(* was reserved under the lock; the registry only holds weak pointers, and *)
(* an entry whose sink is gone stays until the backend sweeps it or a new  *)
(* sink takes it over.                                                     *)
(*                                                                         *)
(* A sink object is its id and a token that tells the objects of one id    *)
(* apart.  Somebody (a caller, a logger) holds a shared pointer to it; the *)
(* thread that gives up the last one runs its destructor, which is a step  *)
(* of its own, outside the lock: meanwhile the weak pointer has expired,   *)
(* but a file is still flushed and closed.  A token is used again once     *)
(* nothing refers to it.                                                   *)
(***************************************************************************)
EXTENDS Integers, Sequences, FiniteSets

CONSTANTS Threads, Ids,
          NoSink,
          Instances   \* tells the sink objects of one id apart

Sink == [id : Ids, instance : Instances]

ASSUME ConstantsAssumption == Ids # {} /\ NoSink \notin Sink

VARIABLES
  sinks,    \* _sinks, sorted by id: the sinks of the entries of each id, in order
  pending,  \* _pending_sink_ids
  tpc,      \* "idle", "reserve", "construct", "publish", "abandon" or "destroy"
  want,     \* the id the thread is creating
  getting,  \* ... with create_or_get_sink; until the id is reserved
  made,     \* the sink it has constructed and not yet published, or is destroying
  held      \* the sinks it holds a shared pointer to

vars == <<sinks, pending, tpc, want, getting, made, held>>

\* A weak pointer to it can be locked.  There is none to a sink whose insertion
\* failed, which is destroyed as well.
Alive(s) ==
  s # NoSink /\ \E t \in Threads : s \in held[t] \/ (made[t] = s /\ tpc[t] = "publish")

\* Its destructor has not returned.
Exists(s) == s # NoSink /\ \E t \in Threads : s \in held[t] \/ made[t] = s

\* _find_sink: lower_bound finds the first entry of the id, whose weak pointer is locked.
FindSink(id) ==
  IF sinks[id] # <<>> /\ Alive(Head(sinks[id])) THEN Head(sinks[id]) ELSE NoSink

Init ==
  /\ sinks = [id \in Ids |-> <<>>] /\ pending = {}
  /\ tpc = [t \in Threads |-> "idle"]
  /\ want = [t \in Threads |-> CHOOSE id \in Ids : TRUE]
  /\ getting = [t \in Threads |-> FALSE]
  /\ made = [t \in Threads |-> NoSink] /\ held = [t \in Threads |-> {}]

-----------------------------------------------------------------------------

\* Either call first looks for the sink, under the lock.
Call(t, id, get) ==
  /\ tpc[t] = "idle"
  /\ tpc' = [tpc EXCEPT ![t] = "reserve"]
  /\ want' = [want EXCEPT ![t] = id] /\ getting' = [getting EXCEPT ![t] = get]
  /\ UNCHANGED <<sinks, pending, made, held>>

\* Frontend::create_sink and Frontend::create_or_get_sink.
CreateSink(t, id) == Call(t, id, FALSE)
CreateOrGetSink(t, id) == Call(t, id, TRUE)

\* _reserve_sink_id_for_creation finds a live sink: create_sink throws, and
\* create_or_get_sink returns it, or throws if it is of another type: then it
\* is dropped as any other shared pointer is.
ReserveFound(t) ==
  /\ tpc[t] = "reserve" /\ FindSink(want[t]) # NoSink
  /\ tpc' = [tpc EXCEPT ![t] = "idle"]
  /\ held' = IF getting[t] THEN [held EXCEPT ![t] = @ \cup {FindSink(want[t])}] ELSE held
  /\ getting' = [getting EXCEPT ![t] = FALSE]
  /\ UNCHANGED <<sinks, pending, want, made>>

\* Mutant: the live sink is not looked for again under the lock.
ReserveUnchecked(t) ==
  /\ tpc[t] = "reserve"
  /\ want[t] \notin pending
  /\ pending' = pending \cup {want[t]}
  /\ tpc' = [tpc EXCEPT ![t] = "construct"]
  /\ getting' = [getting EXCEPT ![t] = FALSE]
  /\ UNCHANGED <<sinks, want, made, held>>

\* ... or reserves the id.
ReserveId(t) ==
  /\ tpc[t] = "reserve" /\ FindSink(want[t]) = NoSink
  /\ want[t] \notin pending
  /\ pending' = pending \cup {want[t]}
  /\ tpc' = [tpc EXCEPT ![t] = "construct"]
  /\ getting' = [getting EXCEPT ![t] = FALSE]
  /\ UNCHANGED <<sinks, want, made, held>>

\* Inserting the id into _pending_sink_ids throws.
ReserveThrows(t) ==
  /\ tpc[t] = "reserve" /\ FindSink(want[t]) = NoSink
  /\ want[t] \notin pending
  /\ tpc' = [tpc EXCEPT ![t] = "idle"]
  /\ getting' = [getting EXCEPT ![t] = FALSE]
  /\ UNCHANGED <<sinks, pending, want, made, held>>

\* A caller that finds the id reserved by another sleeps and tries again.
ReserveRetry(t) ==
  /\ tpc[t] = "reserve" /\ FindSink(want[t]) = NoSink
  /\ want[t] \in pending
  /\ UNCHANGED vars

\* The objects of an id that do not exist and that no entry refers to.
Fresh(id) ==
  {s \in Sink : s.id = id /\ ~Exists(s) /\ \A i \in DOMAIN sinks[id] : sinks[id][i] # s}

\* Where there is no fresh object the allocation throws (ConstructThrows).
Construct(t) ==
  /\ tpc[t] = "construct" /\ Fresh(want[t]) # {}
  /\ made' = [made EXCEPT ![t] = CHOOSE s \in Fresh(want[t]) : TRUE]
  /\ tpc' = [tpc EXCEPT ![t] = "publish"]
  /\ UNCHANGED <<sinks, pending, want, getting, held>>

\* The constructor throws: _remove_pending_sink, which takes the lock, follows.
ConstructThrows(t) ==
  /\ tpc[t] = "construct"
  /\ tpc' = [tpc EXCEPT ![t] = "abandon"]
  /\ UNCHANGED <<sinks, pending, want, getting, made, held>>

\* _remove_pending_sink: the reservation is given up when the constructor threw.
RemovePending(t) ==
  /\ tpc[t] = "abandon"
  /\ pending' = pending \ {want[t]}
  /\ tpc' = [tpc EXCEPT ![t] = "idle"]
  /\ UNCHANGED <<sinks, want, getting, made, held>>

\* _insert_sink: the first entry of the id is taken over if its sink is gone;
\* otherwise a new entry is inserted before it.
Expired(id) == sinks[id] # <<>> /\ ~Alive(Head(sinks[id]))
InsertSink(s) ==
  IF Expired(s.id)
  THEN [sinks EXCEPT ![s.id][1] = s]
  ELSE [sinks EXCEPT ![s.id] = <<s>> \o @]

Publish(t) ==
  /\ tpc[t] = "publish"
  /\ sinks' = InsertSink(made[t])
  /\ pending' = pending \ {want[t]}
  /\ held' = [held EXCEPT ![t] = @ \cup {made[t]}]
  /\ made' = [made EXCEPT ![t] = NoSink]
  /\ tpc' = [tpc EXCEPT ![t] = "idle"]
  /\ UNCHANGED <<want, getting>>

\* Mutant: a failed insertion starts over with the reservation kept.
PublishRetries(t) ==
  /\ tpc[t] = "publish"
  /\ made' = [made EXCEPT ![t] = NoSink]
  /\ tpc' = [tpc EXCEPT ![t] = "construct"]
  /\ UNCHANGED <<sinks, pending, want, getting, held>>

\* Inserting a new entry throws: the reservation is undone under the lock.  The
\* sink is a local variable of the caller, _create_reserved_sink, and is
\* destroyed when the exception has left the lock.
PublishThrows(t) ==
  /\ tpc[t] = "publish" /\ ~Expired(want[t])
  /\ pending' = pending \ {want[t]}
  /\ tpc' = [tpc EXCEPT ![t] = "destroy"]
  /\ UNCHANGED <<sinks, want, getting, made, held>>

\* The destructor returns.
Destroyed(t) ==
  /\ tpc[t] = "destroy"
  /\ made' = [made EXCEPT ![t] = NoSink]
  /\ tpc' = [tpc EXCEPT ![t] = "idle"]
  /\ UNCHANGED <<sinks, pending, want, getting, held>>

\* get_sink throws, or returns the live sink of the id.
GetSink(t, id) ==
  /\ tpc[t] = "idle" /\ FindSink(id) # NoSink
  /\ held' = [held EXCEPT ![t] = @ \cup {FindSink(id)}]
  /\ UNCHANGED <<sinks, pending, tpc, want, getting, made>>

\* A shared pointer goes away, a caller's or, when the thread is the backend's,
\* that of a logger; whoever gives up the last one destroys the sink.
Drop(t, s) ==
  /\ tpc[t] = "idle" /\ s \in held[t]
  /\ held' = [held EXCEPT ![t] = @ \ {s}]
  /\ \/ /\ \E u \in Threads \ {t} : s \in held[u]
        /\ UNCHANGED <<tpc, made>>
     \/ /\ \A u \in Threads \ {t} : s \notin held[u]
        /\ tpc' = [tpc EXCEPT ![t] = "destroy"]
        /\ made' = [made EXCEPT ![t] = s]
  /\ UNCHANGED <<sinks, pending, want, getting>>

\* The entries whose sink is not gone, in their order.
Unexpired(entries) ==
  LET live == {i \in DOMAIN entries : Alive(entries[i])}
  IN  [n \in 1..Cardinality(live) |->
         entries[CHOOSE i \in live : Cardinality({j \in live : j <= i}) = n]]

\* cleanup_unused_sinks, by the backend.
CleanupUnusedSinks ==
  /\ \E id \in Ids : \E i \in DOMAIN sinks[id] : ~Alive(sinks[id][i])
  /\ sinks' = [id \in Ids |-> Unexpired(sinks[id])]
  /\ UNCHANGED <<pending, tpc, want, getting, made, held>>

Proceed(t) ==
  \/ ReserveFound(t) \/ ReserveId(t) \/ ReserveThrows(t) \/ Construct(t) \/ ConstructThrows(t)
  \/ RemovePending(t) \/ Publish(t) \/ PublishThrows(t) \/ Destroyed(t)

Next ==
  \/ \E t \in Threads :
       \/ \E id \in Ids : CreateSink(t, id) \/ CreateOrGetSink(t, id) \/ GetSink(t, id)
       \/ Proceed(t) \/ ReserveRetry(t)
       \/ \E s \in held[t] : Drop(t, s)
  \/ CleanupUnusedSinks

Spec == Init /\ [][Next]_vars

\* A thread inside a create call, or a destructor, keeps running.
FairSpec == Spec /\ \A t \in Threads : WF_vars(Proceed(t))

-----------------------------------------------------------------------------
(***************************************************************************)
(* Properties.                                                             *)
(***************************************************************************)

\* The shape of the registry and of the callers' state.
TypeOK ==
  /\ sinks \in [Ids -> Seq(Sink)] /\ pending \subseteq Ids
  /\ tpc \in [Threads -> {"idle", "reserve", "construct", "publish", "abandon", "destroy"}]
  /\ want \in [Threads -> Ids] /\ getting \in [Threads -> BOOLEAN]
  /\ made \in [Threads -> Sink \cup {NoSink}] /\ held \in [Threads -> SUBSET Sink]

\* Two sinks of one id are never owned at the same time, although they are
\* constructed outside the lock: a race of two creators has one winner.  A sink
\* that is being destroyed has no owner any more.
OneOwned ==
  \A s1, s2 \in Sink : Alive(s1) /\ Alive(s2) /\ s1.id = s2.id => s1 = s2

\* Nobody is given a sink whose destructor runs, and no two threads run it.
DestroyedOnce ==
  \A t \in Threads : tpc[t] = "destroy" =>
    ~Alive(made[t]) /\ \A u \in Threads \ {t} : made[u] # made[t]

\* Does not hold: a sink is constructed, and opens its file, while another of
\* the same id is being destroyed and has not closed it.  That one's insertion
\* failed and its reservation was given up before it was destroyed, or its last
\* pointer was given up, which needs no lock.
OneExists ==
  \A s1, s2 \in Sink : Exists(s1) /\ Exists(s2) /\ s1.id = s2.id => s1 = s2

\* Between its reservation and its publication.
Reserving(t) == tpc[t] \in {"construct", "publish", "abandon"}

\* A reserved id has exactly one thread that is constructing its sink, so no
\* failure leaves a reservation behind.
ReservationHasOwner ==
  \A id \in Ids : id \in pending <=>
    \E t \in Threads : /\ Reserving(t) /\ want[t] = id
                       /\ \A u \in Threads \ {t} : Reserving(u) => want[u] # id

\* A sink somebody got from the registry is the one the registry finds for its
\* id: an expired entry never hides a live sink, and an id has one entry.
HeldIsRegistered ==
  /\ \A t \in Threads : \A s \in held[t] : FindSink(s.id) = s
  /\ \A id \in Ids : Len(sinks[id]) <= 1

\* A race of creators of one id has one winner at every stage: one reservation
\* at a time, with one owner, and one sink with an owner, which the registry
\* finds, while those it replaces are being destroyed and are found by nobody.
OneSinkPerId ==
  TypeOK /\ OneOwned /\ DestroyedOnce /\ ReservationHasOwner /\ HeldIsRegistered

\* A reservation ends, whether or not the sink could be constructed, so those
\* who wait for it in _reserve_sink_id_for_creation look again.
ReservationsEnd == \A id \in Ids : (id \in pending) ~> (id \notin pending)
=============================================================================
