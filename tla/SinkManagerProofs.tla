-------------------------- MODULE SinkManagerProofs --------------------------
(***************************************************************************)
(* One sink per id, for any number of threads and ids, although sinks are  *)
(* constructed and destroyed outside the lock.                             *)
(*                                                                         *)
(* Below it, the rotating file: the next rotation lies ahead of what the   *)
(* current file holds, for every configuration and whichever system call   *)
(* of a rotation fails or is the last one.  The invariant follows a        *)
(* record from the buffer to the file: which records may be in a file at   *)
(* all, which in the current one, and which may be buffered although       *)
(* nothing was written.  And it follows a rotation from one rename to the  *)
(* next, for no name may be given twice although the renames are done one  *)
(* by one.  The last two parts are about the headers of CSV files and the  *)
(* size of the current file, which bounds what a file may hold.            *)
(***************************************************************************)
EXTENDS SinkManager, RotatingSink, FiniteSetTheorems, SequenceTheorems, WellFoundedInduction, TLAPS

\* An id is reserved while somebody, and only one, is creating its sink.
OneCreator ==
  /\ \A t, u \in Threads : Reserving(t) /\ Reserving(u) /\ want[t] = want[u] => t = u
  /\ \A id \in Ids : id \in pending <=> \E t \in Threads : Reserving(t) /\ want[t] = id

\* A sink that was constructed and is not yet published is in no entry, and a
\* sink that is constructed or destroyed is so by one thread, and held by nobody.
MadeIsPrivate ==
  \A t \in Threads :
    /\ made[t] # NoSink <=> tpc[t] \in {"publish", "destroy"}
    /\ tpc[t] = "publish" => /\ made[t].id = want[t]
                             /\ \A i \in DOMAIN sinks[want[t]] : sinks[want[t]][i] # made[t]
    /\ \A u \in Threads :
         /\ made[t] # NoSink /\ made[u] = made[t] => u = t
         /\ made[t] \notin held[u]

\* Nobody holds a sink of an id whose sink is being created.
CreatedAnew ==
  \A t, u \in Threads : Reserving(t) => \A s \in held[u] : s.id # want[t]

\* An id has one entry, of a sink of that id, and it is the sink that is held.
EntriesRight ==
  /\ \A id \in Ids : Len(sinks[id]) <= 1 /\ \A i \in DOMAIN sinks[id] : sinks[id][i].id = id
  /\ \A t \in Threads : \A s \in held[t] : sinks[s.id] # <<>> /\ sinks[s.id][1] = s

IInv == TypeOK /\ OneCreator /\ MadeIsPrivate /\ CreatedAnew /\ EntriesRight

-----------------------------------------------------------------------------
(***************************************************************************)
(* The registry with at most one entry for an id.                          *)
(***************************************************************************)

\* A sink that is found is alive, registered under its id, and held by somebody.
LEMMA FindSinkFinds ==
  ASSUME IInv, NEW id \in Ids, FindSink(id) # NoSink
  PROVE  /\ FindSink(id) \in Sink /\ FindSink(id).id = id
         /\ sinks[id] # <<>> /\ FindSink(id) = sinks[id][1]
         /\ \E t \in Threads : FindSink(id) \in held[t]
         /\ \A t \in Threads : Reserving(t) => want[t] # id
<1>1. sinks[id] # <<>> /\ Alive(sinks[id][1]) /\ FindSink(id) = sinks[id][1]
  BY DEF FindSink
<1>2. sinks[id] \in Seq(Sink) /\ 1 \in DOMAIN sinks[id]
  BY <1>1 DEF IInv, TypeOK
<1>3. FindSink(id) \in Sink /\ FindSink(id).id = id
  BY <1>1, <1>2 DEF IInv, EntriesRight
<1>4. \E t \in Threads : FindSink(id) \in held[t]
  BY <1>1, <1>2, <1>3 DEF IInv, Alive, MadeIsPrivate
<1>5. \A t \in Threads : Reserving(t) => want[t] # id
  BY <1>3, <1>4 DEF IInv, CreatedAnew
<1> QED BY <1>1, <1>3, <1>4, <1>5

\* A new object is none that exists, and in no entry.
LEMMA NewSinkIsFresh ==
  ASSUME IInv, NEW t \in Threads, Construct(t)
  PROVE  \E s \in Sink :
           /\ s # NoSink /\ s.id = want[t] /\ made' = [made EXCEPT ![t] = s]
           /\ \A i \in DOMAIN sinks[want[t]] : sinks[want[t]][i] # s
           /\ \A u \in Threads : s \notin held[u] /\ made[u] # s
<1> DEFINE s == CHOOSE x \in Fresh(want[t]) : TRUE
<1>1. s \in Fresh(want[t]) /\ made' = [made EXCEPT ![t] = s]
  <2>1. Fresh(want[t]) # {} /\ made' = [made EXCEPT ![t] = s]
    BY DEF Construct
  <2> QED BY <2>1
<1> HIDE DEF s
<1>2. /\ s \in Sink /\ s.id = want[t] /\ ~Exists(s)
      /\ \A i \in DOMAIN sinks[want[t]] : sinks[want[t]][i] # s
  BY <1>1 DEF Fresh
<1>3. s # NoSink
  BY <1>2, ConstantsAssumption
<1> QED BY <1>1, <1>2, <1>3 DEF Exists

\* The sink that is published becomes the only entry of its id.
LEMMA InsertSinkReplaces ==
  ASSUME IInv, NEW t \in Threads, tpc[t] = "publish"
  PROVE  InsertSink(made[t]) = [sinks EXCEPT ![want[t]] = <<made[t]>>]
<1> DEFINE s == made[t]
           id == want[t]
<1>1. id \in Ids /\ sinks \in [Ids -> Seq(Sink)] /\ sinks[id] \in Seq(Sink) /\ Len(sinks[id]) <= 1 /\ s \in Sink /\ s.id = id /\ s # NoSink
  BY DEF IInv, TypeOK, EntriesRight, MadeIsPrivate
<1>2. CASE sinks[id] = <<>>
  <2>1. <<s>> \o sinks[id] = <<s>>
    BY <1>2
  <2> QED BY <1>1, <1>2, <2>1 DEF InsertSink, Expired
<1>3. CASE sinks[id] # <<>>
  <2>1. Len(sinks[id]) = 1 /\ Head(sinks[id]) = sinks[id][1] /\ sinks[id][1] \in Sink /\ 1 \in DOMAIN sinks[id]
    <3> DEFINE q == sinks[id]
    <3>1. q \in Seq(Sink) /\ Len(q) <= 1 /\ q # <<>>
      BY <1>1, <1>3
    <3> HIDE DEF q
    <3>2. Len(q) \in Nat \ {0} /\ DOMAIN q = 1..Len(q)
      BY <3>1, EmptySeq, LenProperties
    <3>3. Len(q) = 1 /\ Head(q) = q[1] /\ q[1] \in Sink /\ 1 \in DOMAIN q
      BY <3>1, <3>2
    <3> QED BY <3>3 DEF q
  <2>2. sinks[id][1].id = id
    BY <1>1, <2>1 DEF IInv, EntriesRight
  <2>3. ~Alive(sinks[id][1])
    <3>1. \A u \in Threads : sinks[id][1] \notin held[u]
      BY <2>2 DEF IInv, CreatedAnew, Reserving
    <3>2. ASSUME NEW u \in Threads, tpc[u] = "publish", made[u] = sinks[id][1] PROVE FALSE
      <4>1. want[u] = id
        BY <2>2, <3>2 DEF IInv, MadeIsPrivate
      <4> QED BY <2>1, <3>2, <4>1 DEF IInv, MadeIsPrivate
    <3> QED BY <3>1, <3>2 DEF Alive
  <2>4. [sinks[id] EXCEPT ![1] = s] = <<s>>
    BY <1>1, <2>1
  <2> QED BY <1>1, <1>3, <2>1, <2>3, <2>4 DEF InsertSink, Expired
<1> QED BY <1>2, <1>3

\* A sweep leaves the entry of an id exactly if its sink is alive.
LEMMA UnexpiredEntry ==
  ASSUME IInv, NEW id \in Ids
  PROVE  Unexpired(sinks[id]) =
           IF sinks[id] # <<>> /\ Alive(sinks[id][1]) THEN sinks[id] ELSE <<>>
<1> DEFINE q == sinks[id]
           live == {i \in DOMAIN q : Alive(q[i])}
           R(n) == q[CHOOSE i \in live : Cardinality({j \in live : j <= i}) = n]
<1>1. q \in Seq(Sink) /\ Len(q) <= 1 /\ (q # <<>> <=> Len(q) = 1)
  <2>1. q \in Seq(Sink) /\ Len(q) <= 1
    BY DEF IInv, TypeOK, EntriesRight
  <2> HIDE DEF q
  <2>2. CASE q = <<>>
    BY <2>1, <2>2
  <2>3. CASE q # <<>>
    <3>1. Len(q) \in Nat \ {0}
      BY <2>1, <2>3, EmptySeq
    <3>2. Len(q) = 1
      BY <2>1, <3>1
    <3> QED BY <2>1, <2>3, <3>2
  <2> QED BY <2>2, <2>3
<1>2. Unexpired(q) = [n \in 1..Cardinality(live) |-> R(n)]
  BY DEF Unexpired
<1>3. CASE q # <<>> /\ Alive(q[1])
  <2>1. live = {1}
    BY <1>1, <1>3
  <2>2. Cardinality({1}) = 1
    BY FS_Singleton
  <2>3. {j \in live : j <= 1} = {1}
    BY <2>1
  <2>4. R(1) = q[1]
    <3> HIDE DEF q
    <3>1. (CHOOSE i \in live : Cardinality({j \in live : j <= i}) = 1) = 1
      BY <2>1, <2>2, <2>3
    <3> QED BY <3>1
  <2>5. Unexpired(q) = [n \in 1..1 |-> R(n)]
    BY <1>2, <2>1, <2>2
  <2>6. q = [n \in 1..1 |-> q[n]]
    BY <1>1, <1>3
  <2>7. [n \in 1..1 |-> R(n)] = [n \in 1..1 |-> q[n]]
    <3>1. \A n \in 1..1 : n = 1
      OBVIOUS
    <3> HIDE DEF q, R
    <3> QED BY <2>4, <3>1
  <2> QED BY <1>3, <2>5, <2>6, <2>7
<1>4. CASE ~(q # <<>> /\ Alive(q[1]))
  <2>1. live = {}
    BY <1>1, <1>4
  <2>2. Cardinality({}) = 0
    BY FS_EmptySet
  <2>3. Unexpired(q) = [n \in 1..0 |-> R(n)]
    BY <1>2, <2>1, <2>2
  <2>4. [n \in 1..0 |-> R(n)] = <<>>
    <3> HIDE DEF R
    <3> QED OBVIOUS
  <2> QED BY <1>4, <2>3, <2>4
<1> QED BY <1>3, <1>4

-----------------------------------------------------------------------------
(***************************************************************************)
(* The invariant.                                                          *)
(***************************************************************************)

\* The registry starts empty.
LEMMA InitInv == Init => IInv
<1> SUFFICES ASSUME Init PROVE IInv
  OBVIOUS
<1>1. (CHOOSE id \in Ids : TRUE) \in Ids
  BY ConstantsAssumption
<1>2. TypeOK
  BY <1>1 DEF Init, TypeOK
<1>3. OneCreator /\ MadeIsPrivate /\ CreatedAnew
  BY DEF Init, OneCreator, MadeIsPrivate, CreatedAnew, Reserving
<1>4. EntriesRight
  BY DEF Init, EntriesRight
<1> QED BY <1>2, <1>3, <1>4 DEF IInv

\* Every step of a creator, of a holder and of the sweep keeps one sink per id.
LEMMA NextInv == IInv /\ [Next]_vars => IInv'
<1> SUFFICES ASSUME IInv, [Next]_vars PROVE IInv'
  OBVIOUS
<1>0. NoSink \notin Sink
  BY ConstantsAssumption
<1>f. \A id \in Ids : FindSink(id) # NoSink =>
        /\ FindSink(id) \in Sink /\ FindSink(id).id = id
        /\ sinks[id] # <<>> /\ FindSink(id) = sinks[id][1]
        /\ \A t \in Threads : Reserving(t) => want[t] # id
        /\ \A t \in Threads : made[t] # FindSink(id)
  <2>1. \A s, t \in Threads : made[t] \notin held[s]
    BY DEF IInv, MadeIsPrivate
  <2> QED BY <2>1, FindSinkFinds
<1> USE <1>0 DEF IInv, TypeOK, OneCreator, MadeIsPrivate, CreatedAnew, EntriesRight, Reserving
<1>1. ASSUME NEW t \in Threads, NEW id \in Ids, NEW get \in BOOLEAN, Call(t, id, get) PROVE IInv'
  <2>1. TypeOK'
    BY <1>1 DEF Call
  <2>2. OneCreator'
    <3>1. \A u \in Threads : Reserving(u)' <=> Reserving(u)
      BY <1>1 DEF Call
    <3>2. \A u \in Threads : Reserving(u) => want'[u] = want[u]
      BY <1>1 DEF Call
    <3>3. pending' = pending /\ OneCreator
      BY <1>1 DEF Call
    <3> HIDE DEF IInv, Reserving
    <3>4. \A u, v \in Threads : Reserving(u)' /\ Reserving(v)' /\ want'[u] = want'[v] => u = v
      BY <3>1, <3>2, <3>3
    <3>5. \A x \in Ids : x \in pending' <=> \E u \in Threads : Reserving(u)' /\ want'[u] = x
      BY <3>1, <3>2, <3>3
    <3> QED BY <3>4, <3>5
  <2>3. MadeIsPrivate'
    BY <1>1 DEF Call
  <2>4. CreatedAnew' /\ EntriesRight'
    BY <1>1 DEF Call
  <2> QED BY <2>1, <2>2, <2>3, <2>4
<1>2. ASSUME NEW t \in Threads, NEW id \in Ids, GetSink(t, id) PROVE IInv'
  BY <1>2, <1>f DEF GetSink
<1>3. ASSUME NEW t \in Threads, ReserveFound(t) PROVE IInv'
  <2>1. want[t] \in Ids
    OBVIOUS
  <2>2. CASE held' = held
    BY <1>3, <2>2 DEF ReserveFound
  <2>3. CASE held' = [held EXCEPT ![t] = @ \cup {FindSink(want[t])}]
    BY <1>3, <1>f, <2>1, <2>3 DEF ReserveFound
  <2> QED BY <1>3, <2>2, <2>3 DEF ReserveFound
<1>4. ASSUME NEW t \in Threads, ReserveId(t) PROVE IInv'
  <2>1. TypeOK' /\ OneCreator' /\ MadeIsPrivate' /\ EntriesRight'
    BY <1>4 DEF ReserveId
  <2>2. CreatedAnew'
    <3>1. \A u \in Threads : \A s \in held[u] : s.id # want[t]
      <4> SUFFICES ASSUME NEW u \in Threads, NEW s \in held[u], s.id = want[t] PROVE FALSE
        OBVIOUS
      <4>1. s \in Sink /\ Alive(s) /\ sinks[want[t]] # <<>> /\ sinks[want[t]][1] = s
        BY DEF Alive
      <4>2. FindSink(want[t]) = s
        BY <4>1 DEF FindSink
      <4> QED BY <4>1, <4>2, <1>4 DEF ReserveId
    <3> QED BY <3>1, <1>4 DEF ReserveId
  <2> QED BY <2>1, <2>2
<1>5. ASSUME NEW t \in Threads, ReserveRetry(t) PROVE IInv'
  BY <1>5 DEF ReserveRetry, vars
<1>6. ASSUME NEW t \in Threads, Construct(t) PROVE IInv'
  <2>1. PICK s \in Sink :
           /\ s # NoSink /\ s.id = want[t] /\ made' = [made EXCEPT ![t] = s]
           /\ \A i \in DOMAIN sinks[want[t]] : sinks[want[t]][i] # s
           /\ \A u \in Threads : s \notin held[u] /\ made[u] # s
    BY <1>6, NewSinkIsFresh
  <2>2. /\ tpc[t] = "construct" /\ tpc' = [tpc EXCEPT ![t] = "publish"]
        /\ UNCHANGED <<sinks, pending, want, getting, held>>
    BY <1>6 DEF Construct
  <2>3. TypeOK' /\ EntriesRight'
    BY <2>1, <2>2
  <2>4. OneCreator' /\ CreatedAnew'
    BY <2>2
  <2>5. MadeIsPrivate'
    <3>1. MadeIsPrivate /\ t \in DOMAIN made /\ t \in DOMAIN tpc
      OBVIOUS
    <3>2. made'[t] = s /\ tpc'[t] = "publish" /\ \A u \in Threads \ {t} : made'[u] = made[u] /\ tpc'[u] = tpc[u]
      BY <2>1, <2>2, <3>1
    <3> HIDE DEF IInv
    <3> QED BY <2>1, <2>2, <3>1, <3>2
  <2> QED BY <2>3, <2>4, <2>5
<1>7. ASSUME NEW t \in Threads, ConstructThrows(t) PROVE IInv'
  BY <1>7 DEF ConstructThrows
<1>8. ASSUME NEW t \in Threads, RemovePending(t) PROVE IInv'
  BY <1>8 DEF RemovePending
<1>9. ASSUME NEW t \in Threads, Publish(t) PROVE IInv'
  <2>1. sinks' = [sinks EXCEPT ![want[t]] = <<made[t]>>]
    BY <1>9, InsertSinkReplaces DEF Publish
  <2>2. want[t] \in Ids /\ made[t] \in Sink /\ made[t].id = want[t]
    BY <1>9 DEF Publish
  <2>3. <<made[t]>> \in Seq(Sink) /\ Len(<<made[t]>>) = 1 /\ <<made[t]>>[1] = made[t] /\ <<made[t]>> # <<>> /\ DOMAIN <<made[t]>> = {1}
    BY <2>2
  <2>4. TypeOK'
    BY <1>9, <2>1, <2>2, <2>3 DEF Publish
  <2>5. OneCreator' /\ CreatedAnew'
    BY <1>9, <2>2 DEF Publish
  <2>6. MadeIsPrivate'
    BY <1>9, <2>1, <2>2, <2>3 DEF Publish
  <2>7. EntriesRight'
    BY <1>9, <2>1, <2>2, <2>3 DEF Publish
  <2> QED BY <2>4, <2>5, <2>6, <2>7
<1>10. ASSUME NEW t \in Threads, PublishThrows(t) PROVE IInv'
  BY <1>10 DEF PublishThrows
<1>11. ASSUME NEW t \in Threads, NEW s \in held[t], Drop(t, s) PROVE IInv'
  <2>1. CASE UNCHANGED <<tpc, made>>
    BY <1>11, <2>1 DEF Drop
  <2>2. CASE /\ \A u \in Threads \ {t} : s \notin held[u]
             /\ tpc' = [tpc EXCEPT ![t] = "destroy"]
             /\ made' = [made EXCEPT ![t] = s]
    <3>1. /\ s \in Sink /\ s # NoSink /\ tpc[t] = "idle" /\ held' = [held EXCEPT ![t] = @ \ {s}]
          /\ UNCHANGED <<sinks, pending, want, getting>>
      BY <1>11 DEF Drop
    <3>2. TypeOK' /\ CreatedAnew' /\ EntriesRight'
      <4>1. TypeOK'
        BY <2>2, <3>1
      <4>2. CreatedAnew'
        BY <2>2, <3>1
      <4>3. EntriesRight'
        BY <3>1
      <4> QED BY <4>1, <4>2, <4>3
    <3>3. OneCreator'
      <4>1. \A u \in Threads : Reserving(u)' <=> Reserving(u)
        BY <2>2, <3>1
      <4>2. OneCreator
        OBVIOUS
      <4> HIDE DEF IInv, Reserving
      <4> QED BY <3>1, <4>1, <4>2
    <3>4. MadeIsPrivate'
      <4>1. /\ MadeIsPrivate /\ made[t] = NoSink /\ \A u \in Threads : made[u] # s
            /\ \A u \in Threads : s \notin held'[u]
        BY <2>2, <3>1
      <4>2. /\ made'[t] = s /\ tpc'[t] = "destroy"
            /\ \A u \in Threads \ {t} : made'[u] = made[u] /\ tpc'[u] = tpc[u]
        BY <2>2
      <4>3. \A u \in Threads : held'[u] \subseteq held[u]
        BY <3>1
      <4> HIDE DEF IInv
      <4> QED BY <3>1, <4>1, <4>2, <4>3
    <3> QED BY <3>2, <3>3, <3>4
  <2> QED BY <1>11, <2>1, <2>2 DEF Drop
<1>12. ASSUME CleanupUnusedSinks PROVE IInv'
  <2>1. \A id \in Ids : sinks'[id] = IF sinks[id] # <<>> /\ Alive(sinks[id][1]) THEN sinks[id] ELSE <<>>
    BY <1>12, UnexpiredEntry DEF CleanupUnusedSinks
  <2>2. \A id \in Ids : sinks'[id] = sinks[id] \/ sinks'[id] = <<>>
    BY <2>1
  <2>3. \A t \in Threads : \A s \in held[t] : s.id \in Ids /\ sinks'[s.id] = sinks[s.id]
    <3> SUFFICES ASSUME NEW t \in Threads, NEW s \in held[t] PROVE s.id \in Ids /\ sinks'[s.id] = sinks[s.id]
      OBVIOUS
    <3>1. s \in Sink /\ s.id \in Ids /\ s # NoSink
      BY DEF Sink
    <3>2. sinks[s.id] # <<>> /\ sinks[s.id][1] = s /\ Alive(s)
      BY <3>1 DEF Alive
    <3> QED BY <2>1, <3>1, <3>2
  <2>4. <<>> \in Seq(Sink) /\ Len(<<>>) = 0 /\ DOMAIN <<>> = {}
    OBVIOUS
  <2>5. sinks' \in [Ids -> Seq(Sink)]
    <3>1. sinks' = [id \in Ids |-> Unexpired(sinks[id])]
      BY <1>12 DEF CleanupUnusedSinks
    <3>2. ASSUME NEW id \in Ids PROVE sinks'[id] \in Seq(Sink)
      <4>1. sinks[id] \in Seq(Sink)
        OBVIOUS
      <4> HIDE DEF IInv
      <4> QED BY <2>2, <2>4, <4>1
    <3> HIDE DEF IInv
    <3> QED BY <3>1, <3>2
  <2>6. TypeOK' /\ OneCreator' /\ CreatedAnew'
    BY <1>12, <2>5 DEF CleanupUnusedSinks
  <2>7. EntriesRight'
    <3>1. ASSUME NEW id \in Ids
          PROVE  Len(sinks'[id]) <= 1 /\ \A i \in DOMAIN sinks'[id] : sinks'[id][i].id = id
      <4>1. CASE sinks'[id] = sinks[id]
        BY <4>1
      <4>2. CASE sinks'[id] = <<>>
        BY <4>2, <2>4
      <4> QED BY <2>2, <4>1, <4>2
    <3>2. ASSUME NEW t \in Threads, NEW s \in held[t]
          PROVE  sinks'[s.id] # <<>> /\ sinks'[s.id][1] = s
      BY <2>3
    <3> QED BY <1>12, <3>1, <3>2 DEF CleanupUnusedSinks
  <2>8. MadeIsPrivate'
    <3>1. ASSUME NEW t \in Threads, tpc[t] = "publish"
          PROVE  \A i \in DOMAIN sinks'[want[t]] : sinks'[want[t]][i] # made[t]
      <4>1. CASE sinks'[want[t]] = sinks[want[t]]
        BY <3>1, <4>1
      <4>2. CASE sinks'[want[t]] = <<>>
        BY <4>2, <2>4
      <4> QED BY <2>2, <4>1, <4>2
    <3>2. MadeIsPrivate /\ UNCHANGED <<made, tpc, want, held>>
      BY <1>12 DEF CleanupUnusedSinks
    <3> HIDE DEF IInv
    <3> QED BY <3>1, <3>2
  <2> QED BY <2>6, <2>7, <2>8
<1>13. ASSUME UNCHANGED vars PROVE IInv'
  BY <1>13 DEF vars
<1>14. ASSUME NEW t \in Threads, ReserveThrows(t) PROVE IInv'
  BY <1>14 DEF ReserveThrows
<1>15. ASSUME NEW t \in Threads, Destroyed(t) PROVE IInv'
  <2>1. TypeOK' /\ OneCreator'
    BY <1>15 DEF Destroyed
  <2>2. CreatedAnew'
    BY <1>15 DEF Destroyed
  <2>3. EntriesRight'
    BY <1>15 DEF Destroyed
  <2>4. MadeIsPrivate'
    <3>1. /\ MadeIsPrivate /\ made'[t] = NoSink /\ tpc'[t] = "idle" /\ UNCHANGED <<sinks, want, held>>
          /\ \A u \in Threads \ {t} : made'[u] = made[u] /\ tpc'[u] = tpc[u]
          /\ \A u \in Threads : NoSink \notin held[u]
      BY <1>15 DEF Destroyed
    <3> HIDE DEF IInv
    <3> QED BY <3>1
  <2> QED BY <2>1, <2>2, <2>3, <2>4
<1> HIDE DEF IInv, TypeOK, OneCreator, MadeIsPrivate, CreatedAnew, EntriesRight, Reserving
<1> QED
  BY <1>1, <1>2, <1>3, <1>4, <1>5, <1>6, <1>7, <1>8, <1>9, <1>10, <1>11, <1>12, <1>13,
     <1>14, <1>15
  DEF Next, Proceed, CreateSink, CreateOrGetSink

\* At every moment each id has at most one creator, one entry and one sink
\* that is not being destroyed.
THEOREM Invariance == Spec => []IInv
<1> QED BY InitInv, NextInv, PTL DEF Spec

\* Sinks are constructed and destroyed outside the lock of SinkManager, and yet
\* an id has one reservation at a time, with one owner, and one sink that is
\* owned, which is the one the registry finds: an expired entry hides no live
\* sink, and a sink whose destructor runs is found by nobody.
THEOREM OneSinkForEachId == Spec => []OneSinkPerId
<1>1. IInv => OneOwned
  <2> SUFFICES ASSUME IInv, NEW s1 \in Sink, NEW s2 \in Sink, Alive(s1), Alive(s2), s1.id = s2.id
               PROVE  s1 = s2
    BY DEF OneOwned
  <2>1. \A s \in Sink : Alive(s) => \E t \in Threads : s \in held[t] \/ (made[t] = s /\ Reserving(t) /\ want[t] = s.id)
    BY DEF IInv, MadeIsPrivate, Alive, Reserving
  <2>2. PICK t \in Threads : s1 \in held[t] \/ (made[t] = s1 /\ Reserving(t) /\ want[t] = s1.id)
    BY <2>1
  <2>3. PICK u \in Threads : s2 \in held[u] \/ (made[u] = s2 /\ Reserving(u) /\ want[u] = s2.id)
    BY <2>1
  <2> QED BY <2>2, <2>3 DEF IInv, OneCreator, CreatedAnew, EntriesRight
<1>2. IInv => ReservationHasOwner
  BY DEF IInv, TypeOK, OneCreator, Reserving, ReservationHasOwner
<1>3. IInv => HeldIsRegistered
  <2> SUFFICES ASSUME IInv PROVE HeldIsRegistered
    OBVIOUS
  <2>1. ASSUME NEW t \in Threads, NEW s \in held[t] PROVE FindSink(s.id) = s
    <3>1. s \in Sink /\ s # NoSink
      BY <2>1, ConstantsAssumption DEF IInv, TypeOK
    <3>2. sinks[s.id] # <<>> /\ sinks[s.id][1] = s /\ Alive(s)
      BY <2>1, <3>1 DEF IInv, EntriesRight, Alive
    <3> QED BY <3>2 DEF FindSink
  <2> QED BY <2>1 DEF IInv, EntriesRight, HeldIsRegistered
<1>4. IInv => DestroyedOnce
  BY DEF IInv, MadeIsPrivate, DestroyedOnce, Alive
<1>5. IInv => OneSinkPerId
  BY <1>1, <1>2, <1>3, <1>4 DEF IInv, OneSinkPerId
<1> QED BY <1>5, Invariance, PTL
-----------------------------------------------------------------------------
(***************************************************************************)
(* The state of a log file.                                                *)
(***************************************************************************)

Fields == {"disk", "file", "pending", "size", "wrote", "fresh", "due", "log"}

\* A set of records that pieces of its records and longer statements belong to.
RecordSet(A) ==
  /\ A \subseteq Record
  /\ \A r \in A : Torn(r) \in A /\ \A n \in Nat : [r EXCEPT !.size = @ + n] \in A

\* The names N, the records A of all files, B of the current file, and E of what
\* is buffered although nothing was written.
FileSets(N, A, B, E) ==
  /\ Base \in N /\ B \subseteq A /\ RecordSet(A) /\ RecordSet(B)
  /\ \A c \in FileSinkConfig : Header(c) \in B /\ Header(c) \in E

DiskInv(disk, M, N, A, B) ==
  /\ IsFiniteSet(DOMAIN disk) /\ M \subseteq DOMAIN disk /\ DOMAIN disk \subseteq N
  /\ disk \in [DOMAIN disk -> Seq(A)]
  /\ Base \in DOMAIN disk => disk[Base] \in Seq(B)

FileInv(g, M, N, A, B, E) ==
  /\ DOMAIN g = Fields
  /\ DiskInv(g.disk, M, N, A, B)
  /\ g.pending \in Seq(B)
  /\ g.file \in {"closed", "open", "unlinked"} /\ g.wrote \in BOOLEAN
  /\ g.file = "open" => Base \in DOMAIN g.disk
  /\ g.file = "closed" => g.pending = <<>>
  /\ ~g.wrote => g.pending \in Seq(E)

\* Less is kept, more is allowed.
LEMMA FileInvWeaker ==
  ASSUME NEW g, NEW M, NEW N, NEW A, NEW B, NEW E, FileInv(g, M, N, A, B, E),
         NEW M1, NEW A1, NEW B1, NEW E1, M1 \subseteq M, A \subseteq A1, B \subseteq B1, E \subseteq E1
  PROVE  FileInv(g, M1, N, A1, B1, E1)
<1>1. Seq(A) \subseteq Seq(A1) /\ Seq(B) \subseteq Seq(B1) /\ Seq(E) \subseteq Seq(E1)
  BY SeqMonotonic
<1>2. DiskInv(g.disk, M1, N, A1, B1)
  <2> DEFINE d == g.disk
  <2>1. DiskInv(d, M, N, A, B)
    BY DEF FileInv
  <2> HIDE DEF d
  <2>2. d \in [DOMAIN d -> Seq(A1)]
    BY <1>1, <2>1 DEF DiskInv
  <2> QED BY <1>1, <2>1, <2>2 DEF DiskInv, d
<1> QED BY <1>1, <1>2 DEF FileInv

LEMMA DiskPut ==
  ASSUME NEW d, NEW M, NEW N, NEW A, NEW B, NEW s, DiskInv(d, M, N, A, B),
         Base \in N, B \subseteq A, s \in Seq(B)
  PROVE  /\ DiskInv(Put(d, Base, s), M, N, A, B)
         /\ Base \in DOMAIN Put(d, Base, s) /\ Put(d, Base, s)[Base] = s
<1> DEFINE e == [m \in DOMAIN d \cup {Base} |-> IF m = Base THEN s ELSE d[m]]
<1>1. e = Put(d, Base, s)
  BY DEF Put
<1>2. s \in Seq(A)
  BY SeqMonotonic
<1>3. DOMAIN e = DOMAIN d \cup {Base} /\ e[Base] = s
  OBVIOUS
<1>4. e \in [DOMAIN e -> Seq(A)]
  BY <1>2 DEF DiskInv
<1>5. IsFiniteSet(DOMAIN e)
  BY <1>3, FS_AddElement DEF DiskInv
<1> HIDE DEF e
<1>6. DiskInv(e, M, N, A, B)
  BY <1>3, <1>4, <1>5 DEF DiskInv
<1> QED BY <1>1, <1>3, <1>6

\* A file may also start afresh, whatever the current one held.
LEMMA DiskFresh ==
  ASSUME NEW d, NEW M, NEW N, NEW A, NEW B, NEW B1, DiskInv(d, M, N, A, B),
         Base \in N, B1 \subseteq A
  PROVE  DiskInv(Put(d, Base, <<>>), M, N, A, B1)
<1> DEFINE e == [m \in DOMAIN d \cup {Base} |-> IF m = Base THEN <<>> ELSE d[m]]
<1>1. e = Put(d, Base, <<>>)
  BY DEF Put
<1>2. <<>> \in Seq(A) /\ <<>> \in Seq(B1)
  OBVIOUS
<1>3. DOMAIN e = DOMAIN d \cup {Base} /\ e[Base] = <<>>
  OBVIOUS
<1>4. e \in [DOMAIN e -> Seq(A)]
  BY <1>2 DEF DiskInv
<1>5. IsFiniteSet(DOMAIN e)
  BY <1>3, FS_AddElement DEF DiskInv
<1> HIDE DEF e
<1>6. DiskInv(e, M, N, A, B1)
  BY <1>2, <1>3, <1>4, <1>5 DEF DiskInv
<1> QED BY <1>1, <1>6

LEMMA DiskExtend ==
  ASSUME NEW d, NEW M, NEW N, NEW A, NEW B, NEW s, DiskInv(d, M, N, A, B),
         B \subseteq A, s \in Seq(B), Base \in DOMAIN d
  PROVE  /\ DiskInv([d EXCEPT ![Base] = s], M, N, A, B)
         /\ DOMAIN [d EXCEPT ![Base] = s] = DOMAIN d /\ [d EXCEPT ![Base] = s][Base] = s
<1> DEFINE e == [d EXCEPT ![Base] = s]
<1>1. s \in Seq(A)
  BY SeqMonotonic
<1>2. DOMAIN e = DOMAIN d /\ e[Base] = s
  BY DEF DiskInv
<1>3. e \in [DOMAIN e -> Seq(A)]
  BY <1>1 DEF DiskInv
<1> HIDE DEF e
<1>4. DiskInv(e, M, N, A, B)
  BY <1>2, <1>3 DEF DiskInv
<1> QED BY <1>2, <1>4 DEF e

\* Drain: what is buffered goes to the current file.
LEMMA DrainInv ==
  ASSUME NEW g, NEW M, NEW N, NEW A, NEW B, NEW E, FileSets(N, A, B, E), FileInv(g, M, N, A, B, E)
  PROVE  /\ FileInv(Drain(g), M, N, A, B, E)
         /\ Drain(g).pending = <<>> /\ Drain(g).file = g.file /\ Drain(g).wrote = g.wrote
         /\ DOMAIN Drain(g).disk = DOMAIN g.disk
         /\ g.file # "open" => Drain(g).disk = g.disk
<1>1. DOMAIN g = Fields /\ B \subseteq A
  BY DEF FileInv, FileSets
<1>2. CASE g.file = "open"
  <2> DEFINE s == g.disk[Base] \o g.pending
  <2>1. Base \in DOMAIN g.disk /\ g.disk[Base] \in Seq(B) /\ g.pending \in Seq(B) /\ DiskInv(g.disk, M, N, A, B)
    BY <1>2 DEF FileInv, DiskInv
  <2>2. s \in Seq(B)
    BY <2>1, ConcatProperties
  <2>3. Drain(g) = [g EXCEPT !.disk[Base] = s, !.pending = <<>>]
    BY <1>2 DEF Drain
  <2> HIDE DEF s
  <2>4. /\ DOMAIN Drain(g) = Fields /\ Drain(g).disk = [g.disk EXCEPT ![Base] = s]
        /\ Drain(g).pending = <<>> /\ Drain(g).file = g.file /\ Drain(g).wrote = g.wrote
    BY <1>1, <2>3 DEF Fields
  <2>5. DiskInv(Drain(g).disk, M, N, A, B) /\ DOMAIN Drain(g).disk = DOMAIN g.disk
    BY <1>1, <2>1, <2>2, <2>4, DiskExtend
  <2>6. FileInv(Drain(g), M, N, A, B, E)
    BY <2>4, <2>5, <2>1, EmptySeq DEF FileInv
  <2> QED BY <2>4, <2>5, <2>6, <1>2
<1>3. CASE g.file # "open"
  <2> DEFINE l == WithoutLast(g.log, Len(Whole(g.pending)))
  <2>1. Drain(g) = [g EXCEPT !.pending = <<>>, !.log = l]
    BY <1>3 DEF Drain
  <2> HIDE DEF l
  <2>2. /\ DOMAIN Drain(g) = Fields /\ Drain(g).disk = g.disk
        /\ Drain(g).pending = <<>> /\ Drain(g).file = g.file /\ Drain(g).wrote = g.wrote
    BY <1>1, <2>1 DEF Fields
  <2>3. FileInv(Drain(g), M, N, A, B, E)
    BY <2>2, EmptySeq DEF FileInv
  <2> QED BY <2>2, <2>3
<1> QED BY <1>2, <1>3

\* close_file.
LEMMA CloseInv ==
  ASSUME NEW g, NEW c, NEW M, NEW N, NEW A, NEW B, NEW E, FileSets(N, A, B, E), FileInv(g, M, N, A, B, E)
  PROVE  /\ FileInv(CloseFile(g, c), M, N, A, B, E)
         /\ CloseFile(g, c).pending = <<>> /\ CloseFile(g, c).file = "closed" /\ CloseFile(g, c).wrote = g.wrote
         /\ DOMAIN CloseFile(g, c).disk = DOMAIN g.disk
<1> DEFINE h == CloseFile(g, c)  e == Drain(g)
<1>1. CASE g.file = "closed"
  <2>1. h = g
    BY <1>1 DEF CloseFile, NativeClose, StreamClose
  <2> QED BY <2>1, <1>1 DEF FileInv
<1>2. CASE g.file # "closed"
  <2>1. /\ FileInv(e, M, N, A, B, E) /\ e.pending = <<>> /\ e.wrote = g.wrote /\ DOMAIN e.disk = DOMAIN g.disk
    BY DrainInv
  <2>2. h = [e EXCEPT !.file = "closed"] \/ h = [e EXCEPT !.file = "closed", !.pending = <<>>]
    BY <1>2 DEF CloseFile, NativeClose, StreamClose
  <2>3. DOMAIN e = Fields
    BY <2>1 DEF FileInv
  <2> HIDE DEF h, e
  <2>4. /\ DOMAIN h = Fields /\ h.disk = e.disk /\ h.pending = <<>> /\ h.file = "closed" /\ h.wrote = e.wrote
    BY <2>1, <2>2, <2>3 DEF Fields
  <2>5. FileInv(h, M, N, A, B, E)
    BY <2>1, <2>4, EmptySeq DEF FileInv
  <2> QED BY <2>1, <2>4, <2>5 DEF h
<1> QED BY <1>1, <1>2

\* A file that was just opened gets its header, or not.
LEMMA AfterOpenInv ==
  ASSUME NEW g, NEW c \in FileSinkConfig, NEW M, NEW N, NEW A, NEW B, NEW E,
         FileSets(N, A, B, E), FileInv(g, M, N, A, B, E), g.file = "open"
  PROVE  /\ FileInv(AfterOpen(g, c), M, N, A, B, E)
         /\ AfterOpen(g, c).file = "open" /\ AfterOpen(g, c).wrote = g.wrote
         /\ DOMAIN AfterOpen(g, c).disk = DOMAIN g.disk
<1> DEFINE h == AfterOpen(g, c)
<1>1. DOMAIN g = Fields /\ B \subseteq A /\ Header(c) \in B /\ Header(c) \in E /\ Base \in DOMAIN g.disk
  BY DEF FileInv, FileSets
<1>2. h = g \/ h = [g EXCEPT !.fresh = FALSE] \/ h = WriteHeader(g, c)
  BY DEF AfterOpen
<1>3. CASE h = g
  BY <1>3
<1>4. CASE h = [g EXCEPT !.fresh = FALSE]
  <2>1. DOMAIN h = Fields /\ h.disk = g.disk /\ h.file = g.file /\ h.pending = g.pending /\ h.wrote = g.wrote
    BY <1>1, <1>4 DEF Fields
  <2> HIDE DEF h
  <2>2. FileInv(h, M, N, A, B, E)
    BY <2>1 DEF FileInv
  <2> QED BY <2>1, <2>2 DEF h
<1>5. CASE h = WriteHeader(g, c) /\ c.native
  <2> DEFINE s == Append(g.disk[Base], Header(c))
  <2>1. DiskInv(g.disk, M, N, A, B) /\ g.disk[Base] \in Seq(B)
    BY <1>1 DEF FileInv, DiskInv
  <2>2. s \in Seq(B)
    BY <1>1, <2>1, AppendProperties
  <2>3. h = [g EXCEPT !.disk[Base] = s]
    BY <1>5 DEF WriteHeader
  <2> HIDE DEF s, h
  <2>4. /\ DOMAIN h = Fields /\ h.disk = [g.disk EXCEPT ![Base] = s] /\ h.file = g.file
        /\ h.pending = g.pending /\ h.wrote = g.wrote
    BY <1>1, <2>3 DEF Fields
  <2>5. DiskInv(h.disk, M, N, A, B) /\ DOMAIN h.disk = DOMAIN g.disk
    BY <1>1, <2>1, <2>2, <2>4, DiskExtend
  <2>6. FileInv(h, M, N, A, B, E)
    BY <1>1, <2>4, <2>5 DEF FileInv
  <2> QED BY <2>4, <2>5, <2>6 DEF h
<1>6. CASE h = WriteHeader(g, c) /\ ~c.native
  <2> DEFINE p == Append(g.pending, Header(c))
  <2>1. p \in Seq(B) /\ (~g.wrote => p \in Seq(E))
    BY <1>1, AppendProperties DEF FileInv
  <2>2. h = [g EXCEPT !.pending = p]
    BY <1>6 DEF WriteHeader
  <2> HIDE DEF p, h
  <2>3. /\ DOMAIN h = Fields /\ h.disk = g.disk /\ h.file = g.file
        /\ h.pending = p /\ h.wrote = g.wrote
    BY <1>1, <2>2 DEF Fields
  <2>4. FileInv(h, M, N, A, B, E)
    BY <1>1, <2>1, <2>3 DEF FileInv
  <2> QED BY <2>3, <2>4 DEF h
<1> QED BY <1>2, <1>3, <1>4, <1>5, <1>6

\* open_file of a closed sink.  What the current file may hold can be chosen anew
\* when the file is new or truncated.
LEMMA OpenInv ==
  ASSUME NEW g, NEW c \in FileSinkConfig, NEW mode, NEW M, NEW N, NEW A, NEW B, NEW E, NEW B1,
         FileInv(g, M, N, A, B, E), g.file = "closed", FileSets(N, A, B1, E),
         B \subseteq B1 \/ mode = "w" \/ Base \notin DOMAIN g.disk
  PROVE  /\ FileInv(OpenFile(g, c, mode), M, N, A, B1, E)
         /\ OpenFile(g, c, mode).file = "open" /\ OpenFile(g, c, mode).wrote = g.wrote
         /\ DOMAIN OpenFile(g, c, mode).disk = DOMAIN g.disk \cup {Base}
<1> DEFINE h == IF c.native THEN NativeOpen(g, mode) ELSE StreamOpen(g, mode)
<1>1. DOMAIN g = Fields /\ B1 \subseteq A /\ Base \in N /\ g.pending = <<>> /\ g.wrote \in BOOLEAN
  BY DEF FileInv, FileSets
<1>2. DOMAIN Opened(g.disk, mode) = DOMAIN g.disk \cup {Base}
  BY DEF Opened, Put
<1>3. DiskInv(Opened(g.disk, mode), M, N, A, B1)
  <2> DEFINE d == g.disk
  <2>1. DiskInv(d, M, N, A, B)
    BY DEF FileInv
  <2> HIDE DEF d
  <2>2. CASE mode = "w" \/ Base \notin DOMAIN d
    <3>1. Opened(d, mode) = Put(d, Base, <<>>)
      BY <2>2 DEF Opened
    <3> QED BY <1>1, <2>1, <3>1, DiskFresh DEF d
  <2>3. CASE ~(mode = "w" \/ Base \notin DOMAIN d)
    <3>1. Opened(d, mode) = Put(d, Base, d[Base])
      BY <2>3 DEF Opened
    <3>2. d[Base] \in Seq(B) /\ B \subseteq B1
      BY <2>1, <2>3 DEF DiskInv, d
    <3>3. d[Base] \in Seq(B1)
      BY <3>2, SeqMonotonic
    <3>4. DiskInv(d, M, N, A, B1)
      BY <2>1, <3>3 DEF DiskInv
    <3> QED BY <1>1, <3>1, <3>3, <3>4, DiskPut DEF d
  <2> QED BY <2>2, <2>3
<1>4. /\ DOMAIN h = Fields /\ h.disk = Opened(g.disk, mode) /\ h.file = "open" /\ h.pending = <<>>
      /\ h.wrote = g.wrote
  <2>1. CASE c.native
    BY <1>1, <2>1 DEF NativeOpen, Fields
  <2>2. CASE ~c.native
    BY <1>1, <2>2 DEF StreamOpen, Fields
  <2> QED BY <2>1, <2>2
<1>5. OpenFile(g, c, mode) = AfterOpen(h, c)
  BY DEF OpenFile
<1> HIDE DEF h
<1>6. FileInv(h, M, N, A, B1, E)
  BY <1>1, <1>2, <1>3, <1>4, EmptySeq DEF FileInv
<1> QED BY <1>2, <1>4, <1>5, <1>6, AfterOpenInv

\* The size and the history are not in the invariant.
LEMMA OtherFields ==
  ASSUME NEW g, NEW h, NEW M, NEW N, NEW A, NEW B, NEW E, FileInv(g, M, N, A, B, E),
         DOMAIN h = Fields, h.disk = g.disk, h.file = g.file, h.pending = g.pending, h.wrote = g.wrote
  PROVE  FileInv(h, M, N, A, B, E)
BY DEF FileInv

\* The tail of flush_sink when the file is gone.
LEMMA ReopenInv ==
  ASSUME NEW g, NEW c \in FileSinkConfig, NEW M, NEW N, NEW A, NEW B, NEW E, NEW B1,
         FileInv(g, M, N, A, B, E), FileSets(N, A, B, E), FileSets(N, A, B1, E), Base \notin DOMAIN g.disk
  PROVE  /\ FileInv(Reopen(g, c), M, N, A, B1, E)
         /\ Reopen(g, c).file = "open"
<1> DEFINE e == CloseFile(g, c)  h == OpenFile(e, c, c.mode)
<1>1. FileInv(e, M, N, A, B, E) /\ e.file = "closed" /\ Base \notin DOMAIN e.disk
  BY CloseInv
<1>2. FileInv(h, M, N, A, B1, E) /\ h.file = "open"
  <2> HIDE DEF e
  <2> QED BY <1>1, OpenInv
<1>3. Reopen(g, c) = [h EXCEPT !.size = FileSize(h.disk, Base)]
  BY DEF Reopen
<1>4. DOMAIN h = Fields
  BY <1>2 DEF FileInv
<1> HIDE DEF h
<1>5. /\ DOMAIN Reopen(g, c) = Fields /\ Reopen(g, c).disk = h.disk /\ Reopen(g, c).file = h.file
      /\ Reopen(g, c).pending = h.pending /\ Reopen(g, c).wrote = h.wrote
  BY <1>3, <1>4 DEF Fields
<1> QED BY <1>2, <1>5, OtherFields

\* A statement enters the buffer.
LEMMA TakenInv ==
  ASSUME NEW g, NEW c \in FileSinkConfig, NEW r, NEW M, NEW N, NEW A, NEW B, NEW E,
         FileSets(N, A, B, E), FileInv(g, M, N, A, B, E), r \in B, g.file # "closed"
  PROVE  FileInv(Taken(g, c, r), M, N, A, B, E) /\ Taken(g, c, r).file = g.file
<1> DEFINE q == [r EXCEPT !.size = @ + c.growth]
           h == Taken(g, c, r)
<1>1. DOMAIN g = Fields /\ q \in B /\ g.pending \in Seq(B)
  <2>1. c.growth \in Nat
    BY DEF FileSinkConfig
  <2> QED BY <2>1 DEF FileInv, FileSets, RecordSet
<1> DEFINE p == Append(g.pending, q)  s == g.size + r.size + c.growth  l == g.log \o Whole(<<r>>)
<1>2. h = [g EXCEPT !.pending = p, !.size = s, !.wrote = TRUE, !.log = l]
  BY DEF Taken
<1>3. p \in Seq(B)
  <2> HIDE DEF q
  <2> QED BY <1>1, AppendProperties
<1> HIDE DEF p, s, l, h
<1>4. /\ DOMAIN h = Fields /\ h.disk = g.disk /\ h.file = g.file /\ h.pending = p /\ h.wrote = TRUE
  BY <1>1, <1>2 DEF Fields
<1>5. FileInv(h, M, N, A, B, E)
  BY <1>3, <1>4 DEF FileInv
<1> QED BY <1>4, <1>5 DEF h

\* Writing a statement.
LEMMA WriteInv ==
  ASSUME NEW g, NEW c \in FileSinkConfig, NEW r, NEW M, NEW N, NEW A, NEW B, NEW E,
         FileSets(N, A, B, E), FileInv(g, M, N, A, B, E), r \in B
  PROVE  /\ FileInv(WriteStatement(g, c, r), M, N, A, B, E)
         /\ WriteStatement(g, c, r).file = g.file
<1>1. CASE g.file = "closed"
  BY <1>1 DEF WriteStatement, NativeWrite, StreamWrite
<1>2. CASE g.file # "closed" /\ ~c.native
  BY <1>2, TakenInv DEF WriteStatement, StreamWrite
<1>3. CASE g.file # "closed" /\ c.native
  <2> DEFINE e == IF Fits(g, c, r) THEN g ELSE Drain(g)
             t == Taken(e, c, r)
  <2>1. FileInv(e, M, N, A, B, E) /\ e.file = g.file
    BY DrainInv
  <2> HIDE DEF e
  <2>2. FileInv(t, M, N, A, B, E) /\ t.file = g.file
    BY <1>3, <2>1, TakenInv
  <2>3. WriteStatement(g, c, r) = t \/ WriteStatement(g, c, r) = Drain(t)
    BY <1>3 DEF WriteStatement, NativeWrite, e
  <2> HIDE DEF t
  <2> QED BY <2>2, <2>3, DrainInv
<1> QED BY <1>1, <1>2, <1>3

\* A write is forgotten by the flush.
LEMMA NotWrittenInv ==
  ASSUME NEW g, NEW M, NEW N, NEW A, NEW B, NEW E, FileInv(g, M, N, A, B, E), g.pending = <<>>
  PROVE  /\ FileInv([g EXCEPT !.wrote = FALSE], M, N, A, B, E)
         /\ [g EXCEPT !.wrote = FALSE].file = g.file /\ [g EXCEPT !.wrote = FALSE].disk = g.disk
         /\ [g EXCEPT !.wrote = FALSE].pending = <<>>
<1> DEFINE h == [g EXCEPT !.wrote = FALSE]
<1>1. DOMAIN g = Fields
  BY DEF FileInv
<1>2. DOMAIN h = Fields /\ h.disk = g.disk /\ h.file = g.file /\ h.pending = g.pending /\ h.wrote = FALSE
  BY <1>1 DEF Fields
<1> HIDE DEF h
<1>3. FileInv(h, M, N, A, B, E)
  BY <1>2, EmptySeq DEF FileInv
<1> QED BY <1>2, <1>3 DEF h

\* The three ways through flush_sink of an open file.
LEMMA FlushCases ==
  ASSUME NEW g, NEW c \in FileSinkConfig, NEW M, NEW N, NEW A, NEW B, NEW E,
         FileSets(N, A, B, E), FileInv(g, M, N, A, B, E), g.file # "closed"
  PROVE  \/ ~g.wrote /\ FlushSink(g, c) = g
         \/ \E e : /\ FileInv(e, M, N, A, B, E) /\ e.pending = <<>> /\ e.file = g.file
                   /\ IF Base \in DOMAIN e.disk THEN FlushSink(g, c) = e ELSE FlushSink(g, c) = Reopen(e, c)
<1>1. CASE ~g.wrote
  BY <1>1 DEF FlushSink, NativeFlush, StreamFlush
<1>2. CASE g.wrote
  <2> DEFINE d == Drain(g)  e == [d EXCEPT !.wrote = FALSE]
  <2>1. FileInv(d, M, N, A, B, E) /\ d.pending = <<>> /\ d.file = g.file
    BY DrainInv
  <2>2. FlushSink(g, c) = IF Base \in DOMAIN e.disk THEN e ELSE Reopen(e, c)
    BY <1>2 DEF FlushSink, NativeFlush, StreamFlush
  <2> HIDE DEF d
  <2>3. FileInv(e, M, N, A, B, E) /\ e.pending = <<>> /\ e.file = g.file
    BY <2>1, NotWrittenInv
  <2> HIDE DEF e
  <2> QED BY <2>2, <2>3
<1> QED BY <1>1, <1>2 DEF FileInv

LEMMA FlushInv ==
  ASSUME NEW g, NEW c \in FileSinkConfig, NEW M, NEW N, NEW A, NEW B, NEW E,
         FileSets(N, A, B, E), FileInv(g, M, N, A, B, E), g.file # "closed"
  PROVE  FileInv(FlushSink(g, c), M, N, A, B, E) /\ FlushSink(g, c).file # "closed"
<1>1. CASE ~g.wrote /\ FlushSink(g, c) = g
  BY <1>1
<1>2. ASSUME NEW e, FileInv(e, M, N, A, B, E), e.pending = <<>>, e.file = g.file,
             IF Base \in DOMAIN e.disk THEN FlushSink(g, c) = e ELSE FlushSink(g, c) = Reopen(e, c)
      PROVE  FileInv(FlushSink(g, c), M, N, A, B, E) /\ FlushSink(g, c).file # "closed"
  <2>1. CASE Base \in DOMAIN e.disk
    BY <1>2, <2>1
  <2>2. CASE Base \notin DOMAIN e.disk
    <3>1. FileInv(Reopen(e, c), M, N, A, B, E) /\ Reopen(e, c).file = "open"
      BY <1>2, <2>2, ReopenInv
    <3> QED BY <1>2, <2>2, <3>1
  <2> QED BY <2>1, <2>2
<1> QED BY <1>1, <1>2, FlushCases

\* A flush that throws: nothing, a part, or all of what is buffered was written.
LEMMA NativeFailsInv ==
  ASSUME NEW g, NEW M, NEW N, NEW A, NEW B, NEW E, NEW records \in Seq(B),
         FileSets(N, A, B, E), FileInv(g, M, N, A, B, E),
         NEW h \in NativeWriteFails(g, records)
  PROVE  FileInv(h, M, N, A, B, E)
<1>1. CASE h = g
  BY <1>1
<1>2. CASE h # g
  <2> DEFINE s == Append(g.disk[Base], Torn(Head(records)))
  <2>1. records # <<>> /\ g.file = "open" /\ h = [g EXCEPT !.disk[Base] = s]
    BY <1>2 DEF NativeWriteFails
  <2>2. Head(records) \in B
    BY <2>1, HeadTailProperties
  <2>3. Torn(Head(records)) \in B
    BY <2>2 DEF FileSets, RecordSet
  <2>4. DOMAIN g = Fields /\ Base \in DOMAIN g.disk /\ g.disk[Base] \in Seq(B) /\ DiskInv(g.disk, M, N, A, B)
    BY <2>1 DEF FileInv, DiskInv
  <2>5. s \in Seq(B)
    BY <2>3, <2>4, AppendProperties
  <2> HIDE DEF s
  <2>6. /\ DOMAIN h = Fields /\ h.disk = [g.disk EXCEPT ![Base] = s] /\ h.file = g.file
        /\ h.pending = g.pending /\ h.wrote = g.wrote
    BY <2>1, <2>4 DEF Fields
  <2>7. DiskInv(h.disk, M, N, A, B) /\ DOMAIN h.disk = DOMAIN g.disk
    BY <2>4, <2>5, <2>6, DiskExtend DEF FileSets
  <2> QED BY <2>6, <2>7 DEF FileInv
<1> QED BY <1>1, <1>2

LEMMA FlushThrowsInv ==
  ASSUME NEW g, NEW c \in FileSinkConfig, NEW M, NEW N, NEW A, NEW B, NEW E,
         FileSets(N, A, B, E), FileInv(g, M, N, A, B, E), NEW h \in FlushThrows(g, c)
  PROVE  FileInv(h, M, N, A, B, E)
<1> DEFINE e == CloseFile(g, c)
<1>1. FileInv(e, M, N, A, B, E) /\ e.pending = <<>>
  BY CloseInv
<1>2. g.pending \in Seq(B)
  BY DEF FileInv
<1>3. \/ h = g \/ h = Drain(g) \/ h = [e EXCEPT !.wrote = FALSE]
      \/ h \in NativeWriteFails(g, g.pending)
  BY DEF FlushThrows, NativeFlushThrows, StreamFlushThrows
<1> HIDE DEF e
<1> QED BY <1>1, <1>2, <1>3, DrainInv, NotWrittenInv, NativeFailsInv

\* A write that throws.  Where a piece of a statement may be buffered, E must
\* allow it.
LEMMA WriteThrowsInv ==
  ASSUME NEW g, NEW c \in FileSinkConfig, NEW r, NEW M, NEW N, NEW A, NEW B, NEW E,
         FileSets(N, A, B, E), FileInv(g, M, N, A, B, E), r \in B, B \subseteq E,
         NEW h \in WriteThrows(g, c, r)
  PROVE  FileInv(h, M, N, A, B, E)
<1> DEFINE e == Drain(g)
<1>1. FileInv(e, M, N, A, B, E)
  BY DrainInv
<1>2. g.pending \in Seq(B) /\ <<r>> \in Seq(B) /\ DOMAIN g = Fields
  BY DEF FileInv
<1>3. CASE c.native
  <2>1. h \in NativeWriteFails(g, g.pending) \/ h \in NativeWriteFails(e, <<r>>)
    BY <1>3 DEF WriteThrows, NativeWriteThrows
  <2> HIDE DEF e
  <2> QED BY <1>1, <1>2, <2>1, NativeFailsInv
<1>4. CASE ~c.native /\ h = g
  BY <1>4
<1>5. CASE ~c.native /\ h # g
  <2> DEFINE p == Append(g.pending, Torn(r))
  <2>1. h = [g EXCEPT !.pending = p] /\ g.file # "closed"
    BY <1>5 DEF WriteThrows, StreamWriteThrows
  <2>2. Torn(r) \in B
    BY DEF FileSets, RecordSet
  <2>3. p \in Seq(B)
    BY <1>2, <2>2, AppendProperties
  <2>4. p \in Seq(E)
    BY <2>3, SeqMonotonic
  <2> HIDE DEF p
  <2>5. /\ DOMAIN h = Fields /\ h.disk = g.disk /\ h.file = g.file
        /\ h.pending = p /\ h.wrote = g.wrote
    BY <1>2, <2>1 DEF Fields
  <2> QED BY <2>1, <2>3, <2>4, <2>5 DEF FileInv
<1> QED BY <1>3, <1>4, <1>5

\* The process dies: what the file holds stays.
LEMMA KilledInv ==
  ASSUME NEW g, NEW M, NEW N, NEW A, NEW B, NEW E, FileInv(g, M, N, A, B, E)
  PROVE  FileInv(Killed(g), M, N, A, B, E) /\ Killed(g).file = "closed"
<1> DEFINE h == Killed(g)  l == WithoutLast(g.log, Len(Whole(g.pending)))
<1>1. DOMAIN g = Fields
  BY DEF FileInv
<1>2. h = [g EXCEPT !.file = "closed", !.pending = <<>>, !.size = 0, !.wrote = FALSE, !.fresh = FALSE,
                    !.due = FALSE, !.log = l]
  BY DEF Killed
<1> HIDE DEF h, l
<1>3. DOMAIN h = Fields /\ h.disk = g.disk /\ h.file = "closed" /\ h.pending = <<>> /\ h.wrote = FALSE
  BY <1>1, <1>2 DEF Fields
<1>4. FileInv(h, M, N, A, B, E)
  BY <1>3, EmptySeq DEF FileInv
<1> QED BY <1>3, <1>4 DEF h

\* Files are removed.
LEMMA DiskUnlink ==
  ASSUME NEW g, NEW M, NEW N, NEW A, NEW B, NEW names, DiskInv(g.disk, M, N, A, B)
  PROVE  /\ DiskInv(Unlink(g.disk, names), DOMAIN g.disk \ names, N, A, B)
         /\ DOMAIN Unlink(g.disk, names) = DOMAIN g.disk \ names
<1> DEFINE d == g.disk  e == [m \in DOMAIN d \ names |-> d[m]]
<1>1. DiskInv(d, M, N, A, B)
  OBVIOUS
<1>2. e = Unlink(d, names)
  BY DEF Unlink
<1> HIDE DEF d
<1>3. DOMAIN e = DOMAIN d \ names /\ \A m \in DOMAIN e : e[m] = d[m]
  OBVIOUS
<1>4. IsFiniteSet(DOMAIN e)
  BY <1>1, <1>3, FS_Subset DEF DiskInv
<1>5. e \in [DOMAIN e -> Seq(A)]
  BY <1>1 DEF DiskInv
<1> HIDE DEF e
<1>6. DiskInv(e, DOMAIN d \ names, N, A, B)
  BY <1>1, <1>3, <1>4, <1>5 DEF DiskInv
<1> QED BY <1>2, <1>3, <1>6 DEF d

LEMMA DeletedInv ==
  ASSUME NEW g, NEW M, NEW N, NEW A, NEW B, NEW E, FileInv(g, M, N, A, B, E), Base \notin M
  PROVE  FileInv(Deleted(g), M, N, A, B, E) /\ Deleted(g).file = "unlinked"
<1> DEFINE h == Deleted(g)  n == Len(Whole(g.pending))  m == Len(g.log) - n - Len(Whole(g.disk[Base]))
           l == SubSeq(g.log, 1, m) \o SubSeq(g.log, Len(g.log) - n + 1, Len(g.log))
           d == Unlink(g.disk, {Base})
<1>1. DOMAIN g = Fields
  BY DEF FileInv
<1>2. h = [g EXCEPT !.disk = d, !.file = "unlinked", !.log = l]
  BY DEF Deleted
<1>3. DiskInv(d, M, N, A, B)
  <2>1. DiskInv(g.disk, M, N, A, B)
    BY DEF FileInv
  <2>2. M \subseteq DOMAIN g.disk \ {Base}
    BY <2>1 DEF DiskInv
  <2>3. DiskInv(d, DOMAIN g.disk \ {Base}, N, A, B) /\ DOMAIN d = DOMAIN g.disk \ {Base}
    BY <2>1, DiskUnlink
  <2> HIDE DEF d
  <2> QED BY <2>2, <2>3 DEF DiskInv
<1> HIDE DEF h, l, d
<1>4. /\ DOMAIN h = Fields /\ h.disk = d /\ h.file = "unlinked" /\ h.pending = g.pending /\ h.wrote = g.wrote
  BY <1>1, <1>2 DEF Fields
<1>5. FileInv(h, M, N, A, B, E)
  BY <1>3, <1>4 DEF FileInv
<1> QED BY <1>4, <1>5 DEF h

-----------------------------------------------------------------------------
(***************************************************************************)
(* The size of a file.                                                     *)
(***************************************************************************)

LEMMA LeastNumber ==
  ASSUME NEW S, S \subseteq Nat, S # {}
  PROVE  \E x \in S : \A y \in S : x <= y
<1> DEFINE R == OpToRel(<, Nat)
<1>1. IsWellFoundedOn(R, Nat)
  BY NatLessThanWellFounded
<1>2. \A x, y \in Nat : x < y => <<x, y>> \in R
  BY DEF OpToRel
<1> HIDE DEF R
<1>3. PICK x \in S : \A y \in S : <<y, x>> \notin R
  BY <1>1, WFMin
<1>4. ASSUME NEW y \in S PROVE x <= y
  <2>1. ~(y < x)
    BY <1>2, <1>3
  <2> QED BY <2>1
<1> QED BY <1>4

\* A set of numbers that has 0 and, with each number below n, the next, has all
\* up to n.
LEMMA UpTo ==
  ASSUME NEW n \in Nat, NEW S, 0 \in S, \A k \in 0..(n - 1) : k \in S => k + 1 \in S
  PROVE  \A k \in 0..n : k \in S
<1> SUFFICES ASSUME {k \in 0..n : k \notin S} # {} PROVE FALSE
  OBVIOUS
<1> DEFINE Bad == {k \in 0..n : k \notin S}
<1>1. PICK b \in Bad : \A y \in Bad : b <= y
  <2>1. Bad \subseteq Nat /\ Bad # {}
    OBVIOUS
  <2> HIDE DEF Bad
  <2> QED BY <2>1, LeastNumber
<1>2. b \in 0..n /\ b \notin S /\ b # 0
  BY <1>1
<1>3. b - 1 \in 0..(n - 1) /\ b - 1 \notin Bad
  BY <1>1, <1>2
<1>4. b - 1 \in S
  BY <1>3
<1>5. (b - 1) + 1 \in S
  BY <1>3, <1>4
<1> QED BY <1>2, <1>5

\* The running sums of a sequence of records.
LEMMA BytesFacts ==
  ASSUME NEW s \in Seq(Record)
  PROVE  \E g \in [0..Len(s) -> Nat] :
           /\ Bytes(s) = g[Len(s)] /\ g[0] = 0
           /\ \A i \in 1..Len(s) : g[i] = g[i - 1] + s[i].size
<1> DEFINE k == Len(s)
           Sums(g, n) == g = [i \in 0..n |-> IF i = 0 THEN 0 ELSE g[i - 1] + s[i].size]
           S == {n \in 0..k : \E g : Sums(g, n) /\ g \in [0..n -> Nat]}
<1>1. k \in Nat /\ \A i \in 1..k : s[i].size \in Nat
  <2>1. \A r \in Record : r.size \in Nat
    BY DEF Record
  <2>2. k \in Nat /\ \A i \in 1..k : s[i] \in Record
    OBVIOUS
  <2> QED BY <2>1, <2>2
<1>2. 0 \in S
  <2> DEFINE e == [i \in 0..0 |-> 0]
  <2>1. e = [i \in 0..0 |-> IF i = 0 THEN 0 ELSE e[i - 1] + s[i].size]
    OBVIOUS
  <2>2. e \in [0..0 -> Nat] /\ 0 \in 0..k
    BY <1>1
  <2> HIDE DEF e
  <2> QED BY <2>1, <2>2
<1>3. ASSUME NEW n \in 0..(k - 1), n \in S PROVE n + 1 \in S
  <2>1. PICK g : Sums(g, n) /\ g \in [0..n -> Nat]
    BY <1>3
  <2>2. n \in Nat /\ n + 1 \in 1..k
    BY <1>1
  <2> DEFINE new == g[n] + s[n + 1].size
             h == [i \in 0..(n + 1) |-> IF i = n + 1 THEN new ELSE g[i]]
  <2>3. new \in Nat
    BY <1>1, <2>1, <2>2
  <2>4. h \in [0..(n + 1) -> Nat]
    <3> HIDE DEF new
    <3>1. \A i \in 0..(n + 1) : i # n + 1 => g[i] \in Nat
      BY <2>1, <2>2
    <3> QED BY <2>3, <3>1
  <2>5. ASSUME NEW i \in 0..(n + 1)
        PROVE  h[i] = IF i = 0 THEN 0 ELSE h[i - 1] + s[i].size
    <3>1. CASE i = n + 1
      <4>1. i # 0 /\ i - 1 = n /\ n \in 0..(n + 1) /\ n # n + 1
        BY <2>2, <3>1
      <4> HIDE DEF new
      <4>2. h[i] = new /\ h[i - 1] = g[n]
        BY <3>1, <4>1
      <4> QED BY <3>1, <4>1, <4>2 DEF new
    <3>2. CASE i # n + 1
      <4>1. i \in 0..n /\ (i # 0 => i - 1 \in 0..n /\ i - 1 # n + 1)
        BY <2>2, <3>2
      <4> HIDE DEF new
      <4>2. h[i] = g[i] /\ (i # 0 => h[i - 1] = g[i - 1])
        BY <2>2, <3>2, <4>1
      <4>3. g[i] = IF i = 0 THEN 0 ELSE g[i - 1] + s[i].size
        BY <2>1, <4>1
      <4> HIDE DEF h
      <4> QED BY <4>2, <4>3
    <3> QED BY <3>1, <3>2
  <2>6. Sums(h, n + 1)
    <3> DEFINE e == [i \in 0..(n + 1) |-> IF i = 0 THEN 0 ELSE h[i - 1] + s[i].size]
    <3>1. \A i \in 0..(n + 1) : h[i] = e[i]
      BY <2>5
    <3>2. h = [i \in 0..(n + 1) |-> h[i]] /\ e = [i \in 0..(n + 1) |-> e[i]]
      OBVIOUS
    <3> HIDE DEF h, e
    <3>3. h = e
      BY <3>1, <3>2
    <3> QED BY <3>3 DEF e
  <2> HIDE DEF h, Sums
  <2> QED BY <1>1, <2>2, <2>4, <2>6
<1>4. \E g : Sums(g, k) /\ g \in [0..k -> Nat]
  <2>1. \A n \in 0..(k - 1) : n \in S => n + 1 \in S
    BY <1>3
  <2>2. k \in 0..k
    BY <1>1
  <2> HIDE DEF S
  <2>3. k \in S
    BY <1>1, <1>2, <2>1, <2>2, UpTo
  <2> QED BY <2>3 DEF S
<1> DEFINE fl == CHOOSE g : Sums(g, k)
<1>5. Bytes(s) = fl[k]
  BY DEF Bytes
<1>6. PICK a : Sums(a, k) /\ a \in [0..k -> Nat]
  BY <1>4
<1>7. Sums(fl, k)
  BY <1>6
<1> HIDE DEF fl
<1>8. /\ fl = [i \in 0..k |-> fl[i]]
      /\ \A i \in 0..k : fl[i] = IF i = 0 THEN 0 ELSE fl[i - 1] + s[i].size
  BY <1>7
<1> DEFINE T == {i \in 0..k : fl[i] \in Nat}
<1>9. 0 \in T
  BY <1>1, <1>8
<1>10. ASSUME NEW i \in 0..(k - 1), i \in T PROVE i + 1 \in T
  <2>1. i + 1 \in 1..k /\ (i + 1) - 1 = i /\ i + 1 # 0 /\ i + 1 \in 0..k
    BY <1>1
  <2>2. fl[i + 1] = fl[i] + s[i + 1].size
    BY <1>8, <2>1
  <2> QED BY <1>1, <1>10, <2>1, <2>2
<1>11. \A i \in 0..k : fl[i] \in Nat
  <2>1. \A i \in 0..(k - 1) : i \in T => i + 1 \in T
    BY <1>10
  <2> HIDE DEF T
  <2>2. \A i \in 0..k : i \in T
    BY <1>1, <1>9, <2>1, UpTo
  <2> QED BY <2>2 DEF T
<1>12. fl \in [0..k -> Nat]
  BY <1>8, <1>11
<1>13. fl[0] = 0 /\ \A i \in 1..k : fl[i] = fl[i - 1] + s[i].size
  <2>1. 0 \in 0..k /\ \A i \in 1..k : i \in 0..k /\ i # 0
    BY <1>1
  <2> QED BY <1>8, <2>1
<1> HIDE DEF k, Sums
<1> QED BY <1>5, <1>12, <1>13 DEF k

\* A file of size 0 holds nothing but statements of size 0.
LEMMA NoBytes ==
  ASSUME NEW s \in Seq(Record), Bytes(s) = 0
  PROVE  \A i \in 1..Len(s) : s[i].size = 0
<1> DEFINE k == Len(s)
<1>1. k \in Nat /\ \A i \in 1..k : s[i].size \in Nat
  <2>1. \A r \in Record : r.size \in Nat
    BY DEF Record
  <2>2. k \in Nat /\ \A i \in 1..k : s[i] \in Record
    OBVIOUS
  <2> QED BY <2>1, <2>2
<1>2. PICK g \in [0..k -> Nat] : Bytes(s) = g[k] /\ g[0] = 0 /\ \A i \in 1..k : g[i] = g[i - 1] + s[i].size
  BY BytesFacts
<1> HIDE DEF k
<1> DEFINE S == {n \in 0..k : g[k - n] = 0}
<1>3. 0 \in S
  BY <1>1, <1>2
<1>4. ASSUME NEW n \in 0..(k - 1), n \in S PROVE n + 1 \in S
  <2>1. k - n \in 1..k /\ (k - n) - 1 = k - (n + 1) /\ k - (n + 1) \in 0..k /\ n + 1 \in 0..k
    BY <1>1
  <2>2. g[k - n] = g[k - (n + 1)] + s[k - n].size
    BY <1>2, <2>1
  <2>3. g[k - n] = 0 /\ g[k - (n + 1)] \in Nat /\ s[k - n].size \in Nat
    BY <1>1, <1>4, <2>1
  <2>4. g[k - (n + 1)] = 0
    <3> DEFINE a == g[k - (n + 1)]  b == s[k - n].size
    <3>1. a + b = 0 /\ a \in Nat /\ b \in Nat
      BY <2>2, <2>3
    <3> HIDE DEF a, b
    <3>2. a = 0
      BY <3>1
    <3> QED BY <3>2 DEF a
  <2> QED BY <2>1, <2>4
<1>5. \A n \in 0..k : g[k - n] = 0
  <2>1. \A n \in 0..(k - 1) : n \in S => n + 1 \in S
    BY <1>4
  <2> HIDE DEF S
  <2>2. \A n \in 0..k : n \in S
    BY <1>1, <1>3, <2>1, UpTo
  <2> QED BY <2>2 DEF S
<1>6. ASSUME NEW i \in 1..k PROVE s[i].size = 0
  <2>1. k - i \in 0..k /\ k - (k - i) = i /\ k - (i - 1) \in 0..k /\ k - (k - (i - 1)) = i - 1
    BY <1>1
  <2>2. g[i] = 0 /\ g[i - 1] = 0
    BY <1>5, <2>1
  <2>3. g[i] = g[i - 1] + s[i].size /\ s[i].size \in Nat
    BY <1>1, <1>2
  <2> QED BY <2>2, <2>3
<1> QED BY <1>6 DEF k

\* A flush after which the file is empty: what may be in the file can be chosen
\* anew, if it allows what was buffered without a write and what has no size.
LEMMA FlushEmptyInv ==
  ASSUME NEW g, NEW c \in FileSinkConfig, NEW M, NEW N, NEW A, NEW B, NEW E, NEW B1,
         FileSets(N, A, B, E), FileSets(N, A, B1, E), FileInv(g, M, N, A, B, E), g.file # "closed",
         E \subseteq B1, \A r \in B : r.size = 0 => r \in B1,
         FileSize(FlushSink(g, c).disk, Base) = 0
  PROVE  FileInv(FlushSink(g, c), M, N, A, B1, E)
<1>1. ASSUME NEW e, FileInv(e, M, N, A, B, E), e.pending \in Seq(E), FileSize(e.disk, Base) = 0
      PROVE  FileInv(e, M, N, A, B1, E)
  <2> DEFINE d == e.disk
  <2>1. DiskInv(d, M, N, A, B)
    BY <1>1 DEF FileInv
  <2>2. Base \in DOMAIN d => d[Base] \in Seq(B1)
    <3> SUFFICES ASSUME Base \in DOMAIN d PROVE d[Base] \in Seq(B1)
      OBVIOUS
    <3>1. d[Base] \in Seq(B) /\ B \subseteq Record
      BY <2>1 DEF DiskInv, FileSets, RecordSet
    <3>2. d[Base] \in Seq(Record)
      BY <3>1, SeqMonotonic
    <3>3. Bytes(d[Base]) = 0
      BY <1>1 DEF FileSize
    <3> HIDE DEF d
    <3>4. \A i \in 1..Len(d[Base]) : d[Base][i].size = 0 /\ d[Base][i] \in B
      BY <3>1, <3>2, <3>3, NoBytes, ElementOfSeq
    <3>5. \A i \in 1..Len(d[Base]) : d[Base][i] \in B1
      BY <3>4
    <3> QED BY <3>1, <3>5, IsASeq
  <2> HIDE DEF d
  <2>3. DiskInv(d, M, N, A, B1)
    BY <2>1, <2>2 DEF DiskInv
  <2>4. e.pending \in Seq(B1)
    BY <1>1, SeqMonotonic
  <2> QED BY <1>1, <2>3, <2>4 DEF FileInv, d
<1>2. CASE ~g.wrote /\ FlushSink(g, c) = g
  <2>1. g.pending \in Seq(E)
    BY <1>2 DEF FileInv
  <2> QED BY <1>1, <1>2, <2>1
<1>3. ASSUME NEW e, FileInv(e, M, N, A, B, E), e.pending = <<>>, e.file = g.file,
             IF Base \in DOMAIN e.disk THEN FlushSink(g, c) = e ELSE FlushSink(g, c) = Reopen(e, c)
      PROVE  FileInv(FlushSink(g, c), M, N, A, B1, E)
  <2>1. CASE Base \in DOMAIN e.disk
    <3>1. e.pending \in Seq(E)
      BY <1>3
    <3> QED BY <1>1, <1>3, <2>1, <3>1
  <2>2. CASE Base \notin DOMAIN e.disk
    BY <1>3, <2>2, ReopenInv
  <2> QED BY <2>1, <2>2
<1> QED BY <1>2, <1>3, FlushCases

\* A file is renamed, over another one if there is one.
LEMMA DiskMoved ==
  ASSUME NEW d, NEW M, NEW N, NEW A, NEW B, NEW from \in DOMAIN d, NEW to \in N,
         DiskInv(d, M, N, A, B), to = Base => A \subseteq B
  PROVE  /\ DiskInv(Moved(d, from, to), {}, N, A, B)
         /\ DOMAIN Moved(d, from, to) = (DOMAIN d \ {from}) \cup {to}
<1> DEFINE u == [m \in DOMAIN d \ {from} |-> d[m]]  s == d[from]
           e == [m \in DOMAIN u \cup {to} |-> IF m = to THEN s ELSE u[m]]
<1>1. DOMAIN e = (DOMAIN d \ {from}) \cup {to} /\ \A m \in DOMAIN e : e[m] = IF m = to THEN s ELSE d[m]
  OBVIOUS
<1>2. s \in Seq(A)
  BY DEF DiskInv
<1>3. Moved(d, from, to) = e
  BY DEF Moved, Put, Unlink
<1> HIDE DEF s, e
<1>4. e \in [DOMAIN e -> Seq(A)]
  <2>1. e = [m \in DOMAIN e |-> e[m]]
    BY DEF e
  <2>2. \A m \in DOMAIN e : e[m] \in Seq(A)
    BY <1>1, <1>2 DEF DiskInv
  <2> QED BY <2>1, <2>2
<1>5. IsFiniteSet(DOMAIN e)
  <2>1. IsFiniteSet(DOMAIN d)
    BY DEF DiskInv
  <2>2. IsFiniteSet(DOMAIN d \ {from})
    BY <2>1, FS_RemoveElement
  <2>3. IsFiniteSet((DOMAIN d \ {from}) \cup {to})
    BY <2>2, FS_AddElement
  <2> QED BY <1>1, <2>3
<1>6. Base \in DOMAIN e => e[Base] \in Seq(B)
  <2>1. CASE to = Base
    BY <1>1, <1>2, <2>1, SeqMonotonic
  <2>2. CASE to # Base
    BY <1>1, <2>2 DEF DiskInv
  <2> QED BY <2>1, <2>2
<1>7. DiskInv(e, {}, N, A, B)
  BY <1>1, <1>4, <1>5, <1>6 DEF DiskInv
<1> QED BY <1>1, <1>3, <1>7

\* Any other disk.
LEMMA OtherDisk ==
  ASSUME NEW g, NEW d, NEW M, NEW N, NEW A, NEW B, NEW E, NEW M1, NEW A1, NEW B1,
         FileInv(g, M, N, A, B, E), DiskInv(d, M1, N, A1, B1), g.file = "closed"
  PROVE  FileInv([g EXCEPT !.disk = d], M1, N, A1, B1, E)
<1> DEFINE h == [g EXCEPT !.disk = d]
<1>1. DOMAIN g = Fields
  BY DEF FileInv
<1>2. DOMAIN h = Fields /\ h.disk = d /\ h.file = g.file /\ h.pending = g.pending /\ h.wrote = g.wrote
  BY <1>1 DEF Fields
<1> HIDE DEF h
<1>3. h.pending = <<>>
  BY <1>2 DEF FileInv
<1>4. FileInv(h, M1, N, A1, B1, E)
  BY <1>2, <1>3, EmptySeq DEF FileInv
<1> QED BY <1>4 DEF h

-----------------------------------------------------------------------------
(***************************************************************************)
(* The order of the files.                                                 *)
(***************************************************************************)

Olders(S, n) == {m \in S : Older(m, n)}
Rank(S, n) == Cardinality(Olders(S, n))

LEMMA OlderIsAnOrder ==
  ASSUME NEW a \in Name, NEW b \in Name
  PROVE  /\ ~Older(a, a)
         /\ Older(a, b) \/ Older(b, a) \/ a = b
         /\ \A c \in Name : Older(a, b) /\ Older(b, c) => Older(a, c)
<1>1. a.date \in Nat /\ a.index \in Nat /\ b.date \in Nat /\ b.index \in Nat
  BY DEF Name
<1>2. a = [date |-> a.date, index |-> a.index] /\ b = [date |-> b.date, index |-> b.index]
  BY DEF Name
<1>3. ~Older(a, a)
  BY <1>1 DEF Older
<1>4. Older(a, b) \/ Older(b, a) \/ a = b
  <2>1. CASE a.date # b.date
    BY <1>1, <2>1 DEF Older
  <2>2. CASE a.date = b.date /\ a.index # b.index
    BY <1>1, <2>2 DEF Older
  <2>3. CASE a.date = b.date /\ a.index = b.index
    BY <1>2, <2>3
  <2> QED BY <2>1, <2>2, <2>3
<1>5. ASSUME NEW c \in Name, Older(a, b), Older(b, c) PROVE Older(a, c)
  <2>1. c.date \in Nat /\ c.index \in Nat
    BY DEF Name
  <2> QED BY <1>1, <1>5, <2>1 DEF Older
<1> QED BY <1>3, <1>4, <1>5

LEMMA RankFacts ==
  ASSUME NEW S, IsFiniteSet(S), S \subseteq Name, NEW n \in S
  PROVE  /\ Rank(S, n) \in 0..(Cardinality(S) - 1)
         /\ \A m \in S : Older(m, n) => Rank(S, m) < Rank(S, n)
<1>1. IsFiniteSet(Olders(S, n)) /\ Olders(S, n) \subseteq S /\ n \notin Olders(S, n)
  <2>1. Olders(S, n) \subseteq S
    BY DEF Olders
  <2> QED BY <2>1, FS_Subset, OlderIsAnOrder DEF Olders
<1>2. Rank(S, n) \in Nat /\ Cardinality(S) \in Nat /\ Rank(S, n) <= Cardinality(S) /\ Rank(S, n) # Cardinality(S)
  BY <1>1, FS_CardinalityType, FS_Subset DEF Rank
<1>3. ASSUME NEW m \in S, Older(m, n) PROVE Rank(S, m) < Rank(S, n)
  <2>1. Olders(S, m) \subseteq Olders(S, n) /\ m \in Olders(S, n) /\ m \notin Olders(S, m)
    BY <1>3, OlderIsAnOrder DEF Olders
  <2>2. IsFiniteSet(Olders(S, m)) /\ Rank(S, m) <= Rank(S, n) /\ Rank(S, m) # Rank(S, n)
    BY <1>1, <2>1, FS_Subset DEF Rank
  <2>3. Rank(S, m) \in Nat
    BY <2>2, FS_CardinalityType DEF Rank
  <2> QED BY <1>2, <2>2, <2>3
<1> QED BY <1>2, <1>3

\* As many files as there are, each once, oldest first.
LEMMA OldestFirstFacts ==
  ASSUME NEW S, IsFiniteSet(S), S \subseteq Name
  PROVE  /\ OldestFirst(S) \in Seq(S) /\ Len(OldestFirst(S)) = Cardinality(S) /\ Cardinality(S) \in Nat
         /\ \A i, j \in 1..Cardinality(S) : i < j => Older(OldestFirst(S)[i], OldestFirst(S)[j])
<1> DEFINE c == Cardinality(S)
           f0 == [n \in S |-> Rank(S, n)]
           q == [i \in 1..c |-> CHOOSE n \in S : Rank(S, n) = i - 1]
<1>1. c \in Nat
  BY FS_CardinalityType
<1>2. f0 \in [S -> 0..(c - 1)]
  BY RankFacts
<1>3. \A m, n \in S : Rank(S, m) = Rank(S, n) => m = n
  <2> SUFFICES ASSUME NEW m \in S, NEW n \in S, Rank(S, m) = Rank(S, n), m # n PROVE FALSE
    OBVIOUS
  <2>1. Older(m, n) \/ Older(n, m)
    BY OlderIsAnOrder
  <2>2. Rank(S, m) \in Int
    BY RankFacts
  <2>3. Rank(S, m) < Rank(S, n) \/ Rank(S, n) < Rank(S, m)
    BY <2>1, RankFacts
  <2> QED BY <2>2, <2>3
<1>4. f0 \in Injection(S, 0..(c - 1))
  BY <1>2, <1>3 DEF Injection, IsInjective
<1>5. IsFiniteSet(0..(c - 1)) /\ Cardinality(0..(c - 1)) = c
  <2>1. 0 \in Int /\ c - 1 \in Int
    BY <1>1
  <2>2. Cardinality(0..(c - 1)) = IF 0 > c - 1 THEN 0 ELSE (c - 1) - 0 + 1
    BY <2>1, FS_Interval
  <2> HIDE DEF c
  <2> QED BY <1>1, <2>1, <2>2, FS_Interval
<1>6. f0 \in Surjection(S, 0..(c - 1))
  BY <1>4, <1>5, FS_Injection
<1>7. \A i \in 1..c : \E n \in S : Rank(S, n) = i - 1
  <2>1. \A k \in 0..(c - 1) : \E n \in S : f0[n] = k
    BY <1>6 DEF Surjection
  <2>2. \A i \in 1..c : i - 1 \in 0..(c - 1)
    BY <1>1
  <2> QED BY <2>1, <2>2
<1>8. q = OldestFirst(S)
  BY DEF OldestFirst, Rank, Olders
<1>9. \A i \in 1..c : q[i] \in S /\ Rank(S, q[i]) = i - 1
  BY <1>7
<1> HIDE DEF c
<1>10. Len(q) = c /\ q = [i \in 1..c |-> q[i]]
  BY <1>1
<1> HIDE DEF q
<1>11. q \in Seq(S)
  BY <1>1, <1>9, <1>10
<1>12. ASSUME NEW i \in 1..c, NEW j \in 1..c, i < j PROVE Older(q[i], q[j])
  <2>1. Rank(S, q[i]) = i - 1 /\ Rank(S, q[j]) = j - 1 /\ q[i] \in S /\ q[j] \in S
    BY <1>9
  <2>2. ~Older(q[j], q[i])
    <3>1. ~(j - 1 < i - 1)
      BY <1>12
    <3> QED BY <2>1, <3>1, RankFacts
  <2>3. q[i] # q[j]
    <3>1. i - 1 # j - 1
      BY <1>12
    <3> QED BY <2>1, <3>1
  <2> QED BY <2>1, <2>2, <2>3, OlderIsAnOrder
<1> QED BY <1>1, <1>8, <1>10, <1>11, <1>12 DEF c

-----------------------------------------------------------------------------
(***************************************************************************)
(* The invariant of the rotating sink.                                     *)
(***************************************************************************)

\* The names its files may have.
Allowed ==
  {n \in Name : \/ n = Base
                \/ IF cfg.scheme = "Index" THEN n.date = 0 /\ n.index > 0 ELSE n.date > 0}

\* The records whose id and time stamp are a pair of K.
RecordsOf(K) == {r \in Record : <<r.id, r.ts>> \in K /\ (r.id # 0 => r.size > 0)}

Live == pc # "down" /\ Enabled /\ Rotates(cfg)
NoFault == spent.faults = 0
OnTime == Live /\ NoFault /\ ~Refused /\ Lateness[cfg.scheme] = 0

\* Records of the last period, or of an earlier run.  One that has reached the
\* next rotation is appended to a file without records of this run.
Recent(k) == k[1] < spent.first \/ (k[2] >= nextRotation - Period /\ ~(pc = "append" /\ why = "time"))

\* By id and time stamp: all records that may have been written ...
Known == {k \in (0..spent.records) \X (0..now) : Live => k[2] < nextRotation}
\* ... those that may be in the current file ...
InFile == {k \in Known : OnTime => Recent(k)}
\* ... and what may be buffered although nothing was written.
Unwritten == IF NoFault THEN {<<0, 0>>} ELSE Known

Renaming == pc \in {"rename", "undo"}

\* While nothing fails, the files of the list exist.
Kept == IF NoFault /\ ~Renaming THEN Range(created) \ {Base} ELSE {}

After(i) == IF Renames(created[i]) THEN NewName(created[i]) ELSE created[i]

SpentInv ==
  /\ cfg \in Configs /\ now \in Nat /\ nextRotation \in Nat /\ opened \in Nat
  /\ spent \in [records : Nat, starts : Nat, faults : Nat, deletes : Nat, stale : Nat, first : Nat]
  /\ spent.first <= spent.records + 1
  /\ pc \in {"down", "ready", "rotate", "rename", "undo", "append"}
  /\ pc # "down" => spent.first > 0

\* Files of one date have their indices in order, the newest file first.
InOrder(names) ==
  \A i, j \in 1..Len(names) :
    i < j /\ names[i].date = names[j].date => names[i].index < names[j].index

ListInv ==
  /\ created \in Seq(Allowed) /\ InOrder(created)
  /\ pc # "down" /\ Enabled => created[1] = Base

CurFacts ==
  /\ cur \in Record /\ (cur.id # 0 => cur.size > 0)
  /\ cur.id <= spent.records /\ cur.ts <= now
  /\ Lateness[cfg.scheme] = 0 => cur.ts = now
  /\ IF why = "time" THEN Live /\ cur.ts >= nextRotation ELSE Live => cur.ts < nextRotation

CallInv ==
  /\ pc \in {"rotate", "append"} => why # "start"
  /\ (pc \in {"rotate", "append"} \/ Renaming) /\ why # "start" => CurFacts
  /\ Renaming \/ pc = "rotate" => Enabled /\ ~Refused
  /\ Renaming \/ pc = "down" => f.file = "closed"
  /\ NoFault /\ pc \in {"ready", "rotate", "append"} => f.file # "closed"

\* The renames that are done, and the files that are still to be renamed.
DoneInv ==
  /\ left \in 0..Len(created)
  /\ done \in Seq([from : Allowed, to : Allowed, at : Nat])
  /\ \A k \in 1..Len(done) :
       /\ done[k].at \in (left + 1)..Len(created)
       /\ Renames(created[done[k].at]) /\ done[k].to = NewName(created[done[k].at])
       /\ done[k].from = created[done[k].at] /\ done[k].to \in DOMAIN f.disk
  /\ \A k, l \in 1..Len(done) : k < l => done[k].at > done[l].at

RenameInv ==
  /\ Renaming => DoneInv
  /\ pc = "rename" =>
       /\ \A i \in (left + 1)..Len(created) :
            Renames(created[i]) => \E k \in 1..Len(done) : done[k].at = i
       /\ left = 0 => Base \notin DOMAIN f.disk
       /\ NoFault => /\ \A i \in 1..left : created[i] \in DOMAIN f.disk
                     /\ \A i \in (left + 1)..Len(created) : After(i) \in DOMAIN f.disk
  /\ pc = "undo" => ~NoFault

OnBoundary(t) ==
  \E k \in Nat : t = IF cfg.frequency = "daily" THEN k * DayLength + cfg.daily ELSE k * cfg.unit

Boundary == Live => nextRotation > 0 /\ nextRotation - Period <= now /\ OnBoundary(nextRotation)

DiskFits ==
  FileInv(f, Kept, Allowed, RecordsOf(Known), RecordsOf(InFile), RecordsOf(Unwritten))

RotatingIInv == SpentInv /\ ListInv /\ CallInv /\ RenameInv /\ Boundary /\ DiskFits

-----------------------------------------------------------------------------

LEMMA ConfigFacts ==
  ASSUME cfg \in Configs
  PROVE  /\ cfg \in Config /\ cfg.file \in FileSinkConfig /\ cfg.scheme \in Scheme
         /\ cfg.unit \in Nat /\ cfg.unit > 0 /\ cfg.interval \in Nat /\ cfg.daily \in Nat
         /\ cfg.frequency = "interval" => cfg.interval > 0
         /\ cfg.daily < DayLength /\ DayLength \in Nat /\ DayLength > 0
         /\ cfg.maxBackup \in Nat /\ cfg.overwrite \in BOOLEAN
         /\ cfg.frequency \in {"disabled", "interval", "daily"}
         /\ Lateness[cfg.scheme] \in Nat
<1>1. cfg \in Config /\ (cfg.frequency = "interval" => cfg.interval > 0)
  BY ConfigAssumption
<1>2. DayLength \in Nat /\ DayLength > 0 /\ Lateness \in [Scheme -> Nat]
  BY TimeAssumption
<1>3. cfg.daily \in 0..DayLength - 1
  BY <1>1 DEF Config, DailyTime
<1> QED BY <1>1, <1>2, <1>3 DEF Config

LEMMA RecordsOfSet ==
  ASSUME NEW K
  PROVE  /\ RecordSet(RecordsOf(K))
         /\ <<0, 0>> \in K => \A c \in FileSinkConfig : Header(c) \in RecordsOf(K)
<1>1. ASSUME NEW r \in RecordsOf(K)
      PROVE  Torn(r) \in RecordsOf(K) /\ \A n \in Nat : [r EXCEPT !.size = @ + n] \in RecordsOf(K)
  <2>1. /\ r \in Record /\ <<r.id, r.ts>> \in K /\ (r.id # 0 => r.size > 0)
        /\ r.size \in Nat
    BY DEF RecordsOf, Record
  <2>2. Torn(r) \in Record /\ Torn(r).id = r.id /\ Torn(r).ts = r.ts /\ Torn(r).size = 1
    BY <2>1 DEF Torn, Record
  <2>3. Torn(r) \in RecordsOf(K)
    BY <2>1, <2>2 DEF RecordsOf
  <2>4. ASSUME NEW n \in Nat PROVE [r EXCEPT !.size = @ + n] \in RecordsOf(K)
    <3> DEFINE q == [r EXCEPT !.size = @ + n]
    <3>1. r.size + n \in Nat /\ (r.size > 0 => r.size + n > 0)
      BY <2>1
    <3>2. q \in Record /\ q.id = r.id /\ q.ts = r.ts /\ q.size = r.size + n
      BY <2>1, <3>1 DEF Record
    <3> HIDE DEF q
    <3>3. q \in RecordsOf(K)
      BY <2>1, <3>1, <3>2 DEF RecordsOf
    <3> QED BY <3>3 DEF q
  <2> QED BY <2>3, <2>4
<1>2. RecordsOf(K) \subseteq Record
  BY DEF RecordsOf
<1>3. ASSUME <<0, 0>> \in K, NEW c \in FileSinkConfig PROVE Header(c) \in RecordsOf(K)
  <2>1. c.header \in Nat
    BY DEF FileSinkConfig
  <2>2. Header(c) \in Record /\ Header(c).id = 0 /\ Header(c).ts = 0
    BY <2>1 DEF Header, Record
  <2> QED BY <1>3, <2>2 DEF RecordsOf
<1> QED BY <1>1, <1>2, <1>3 DEF RecordSet

LEMMA RecordsOfGrow ==
  ASSUME NEW K, NEW L, K \subseteq L
  PROVE  RecordsOf(K) \subseteq RecordsOf(L)
BY DEF RecordsOf

LEMMA PairsMakeSets ==
  ASSUME NEW N, NEW K, NEW L, NEW U, Base \in N, L \subseteq K, <<0, 0>> \in L, <<0, 0>> \in U
  PROVE  FileSets(N, RecordsOf(K), RecordsOf(L), RecordsOf(U))
BY RecordsOfSet, RecordsOfGrow DEF FileSets

\* What belongs to the sets does so in every state.
LEMMA PairFacts ==
  ASSUME SpentInv, Boundary
  PROVE  /\ <<0, 0>> \in Known /\ <<0, 0>> \in InFile /\ <<0, 0>> \in Unwritten
         /\ InFile \subseteq Known /\ Unwritten \subseteq Known /\ Unwritten \subseteq InFile
         /\ Base \in Allowed /\ Allowed \subseteq Name
         /\ FileSets(Allowed, RecordsOf(Known), RecordsOf(InFile), RecordsOf(Unwritten))
<1>1. spent.records \in Nat /\ now \in Nat /\ (Live => 0 < nextRotation)
  BY DEF SpentInv, Boundary
<1>2. <<0, 0>> \in Known
  BY <1>1 DEF Known
<1>3. OnTime => Recent(<<0, 0>>)
  <2>1. Live => 0 < spent.first
    BY DEF SpentInv, Live
  <2> QED BY <2>1 DEF Recent, OnTime
<1>4. <<0, 0>> \in InFile
  BY <1>2, <1>3 DEF InFile
<1>5. <<0, 0>> \in Unwritten /\ InFile \subseteq Known /\ Unwritten \subseteq Known
  BY <1>2 DEF Unwritten, InFile
<1>6. Unwritten \subseteq InFile
  BY <1>4 DEF Unwritten, InFile, OnTime
<1>7. Base \in Allowed /\ Allowed \subseteq Name
  BY DEF Allowed, Base, Name
<1> QED BY <1>2, <1>4, <1>5, <1>6, <1>7, PairsMakeSets

-----------------------------------------------------------------------------
(***************************************************************************)
(* What most steps leave alone.                                            *)
(***************************************************************************)

\* What a step within one run of the sink does to the bounds.
SpentStep ==
  /\ spent' \in [records : Nat, starts : Nat, faults : Nat, deletes : Nat, stale : Nat, first : Nat]
  /\ spent'.records >= spent.records /\ spent'.first = spent.first
  /\ NoFault' => NoFault

LEMMA SpentSame ==
  ASSUME SpentInv, spent' = spent
  PROVE  SpentStep /\ NoFault' = NoFault /\ spent'.records = spent.records
BY DEF SpentInv, SpentStep, NoFault

LEMMA SpentFault ==
  ASSUME SpentInv, Fault
  PROVE  SpentStep /\ ~NoFault' /\ spent'.records = spent.records
<1>1. spent' = [spent EXCEPT !.faults = @ + 1] /\ spent.faults \in Nat
  BY DEF Fault, SpentInv
<1>2. spent'.faults = spent.faults + 1 /\ spent'.records = spent.records /\ spent'.first = spent.first
  BY <1>1 DEF SpentInv
<1>3. spent' \in [records : Nat, starts : Nat, faults : Nat, deletes : Nat, stale : Nat, first : Nat]
  BY <1>1 DEF SpentInv
<1>4. spent.records \in Nat /\ spent'.faults # 0
  BY <1>1, <1>2 DEF SpentInv
<1> QED BY <1>2, <1>3, <1>4 DEF SpentStep, NoFault

\* The sets of pairs grow in a step that leaves the list, the next rotation and
\* the clock alone.
LEMMA PairsGrow ==
  ASSUME SpentInv, Boundary, SpentStep,
         cfg' = cfg, created' = created, nextRotation' = nextRotation, now' = now,
         pc # "down", pc' # "down",
         OnTime' /\ pc' = "append" /\ why' = "time" => pc = "append" /\ why = "time"
  PROVE  /\ Allowed' = Allowed /\ Live' = Live /\ Refused' = Refused /\ Enabled' = Enabled
         /\ Known \subseteq Known' /\ InFile \subseteq InFile' /\ Unwritten \subseteq Unwritten'
<1>1. Allowed' = Allowed /\ Refused' = Refused /\ Enabled' = Enabled
  BY DEF Allowed, Refused, Enabled
<1>2. Live' = Live
  BY DEF Live, Enabled
<1>3. Known \subseteq Known'
  <2>1. spent.records \in Nat /\ spent'.records \in Nat /\ spent'.records >= spent.records
    BY DEF SpentInv, SpentStep
  <2>2. (0..spent.records) \subseteq 0..spent'.records
    BY <2>1
  <2> QED BY <1>2, <2>2 DEF Known
<1>4. OnTime' => OnTime
  BY <1>1, <1>2 DEF OnTime, SpentStep
<1>5. ASSUME OnTime', NEW k, Recent(k) PROVE Recent(k)'
  <2>1. Period' = Period /\ spent'.first = spent.first
    BY DEF Period, SpentStep
  <2>2. pc' = "append" /\ why' = "time" => pc = "append" /\ why = "time"
    BY <1>5
  <2> QED BY <1>5, <2>1, <2>2 DEF Recent
<1>6. InFile \subseteq InFile'
  BY <1>3, <1>4, <1>5 DEF InFile
<1>7. Unwritten \subseteq Unwritten'
  BY <1>3, PairFacts DEF Unwritten, SpentStep
<1> QED BY <1>1, <1>2, <1>3, <1>6, <1>7

\* So the file fits if it fitted the old sets.
LEMMA DiskStillFits ==
  ASSUME Allowed' = Allowed, Known \subseteq Known', InFile \subseteq InFile', Unwritten \subseteq Unwritten',
         NEW M, Kept' \subseteq M,
         FileInv(f', M, Allowed, RecordsOf(Known), RecordsOf(InFile), RecordsOf(Unwritten))
  PROVE  DiskFits'
<1> DEFINE K == RecordsOf(Known')  I == RecordsOf(InFile')  U == RecordsOf(Unwritten')
<1>1. RecordsOf(Known) \subseteq K /\ RecordsOf(InFile) \subseteq I /\ RecordsOf(Unwritten) \subseteq U
  BY RecordsOfGrow
<1> HIDE DEF K, I, U
<1>2. FileInv(f', Kept', Allowed, K, I, U)
  BY <1>1, FileInvWeaker
<1>3. K = RecordsOf(Known)' /\ I = RecordsOf(InFile)' /\ U = RecordsOf(Unwritten)'
  BY DEF RecordsOf, K, I, U
<1> QED BY <1>2, <1>3 DEF DiskFits

\* The parts of the invariant about the list and the boundary.
LEMMA SameList ==
  ASSUME SpentInv, ListInv, Boundary, cfg' = cfg, created' = created, nextRotation' = nextRotation,
         now' = now, pc # "down", pc' # "down"
  PROVE  ListInv' /\ Boundary'
<1>1. Allowed' = Allowed /\ Enabled' = Enabled
  BY DEF Allowed, Enabled
<1>2. Live' = Live /\ OnBoundary(nextRotation)' = OnBoundary(nextRotation) /\ Period' = Period
  BY <1>1 DEF Live, OnBoundary, Period
<1>3. InOrder(created)' = InOrder(created)
  BY DEF InOrder
<1> QED BY <1>1, <1>2, <1>3 DEF ListInv, Boundary

LEMMA SameSpent ==
  ASSUME SpentInv, SpentStep, cfg' = cfg, now' = now, nextRotation' \in Nat, opened' \in Nat,
         pc # "down", pc' \in {"ready", "rotate", "rename", "undo", "append"}
  PROVE  SpentInv'
<1>1. spent.first <= spent.records + 1 /\ spent.records \in Nat /\ spent'.records \in Nat
      /\ spent'.records >= spent.records /\ spent'.first = spent.first /\ spent.first > 0
      /\ spent.first \in Nat
  BY DEF SpentInv, SpentStep
<1>2. spent'.first <= spent'.records + 1 /\ spent'.first > 0
  BY <1>1
<1> QED BY <1>2 DEF SpentInv, SpentStep

\* The record of the call is the same.
LEMMA SameCur ==
  ASSUME SpentInv, SpentStep, CurFacts, cfg' = cfg, now' = now, nextRotation' = nextRotation,
         cur' = cur, why' = why, Live' = Live
  PROVE  CurFacts'
<1>1. cur \in Record /\ cur.id \in Nat /\ spent.records \in Nat /\ spent'.records \in Nat
      /\ spent'.records >= spent.records
  BY DEF CurFacts, Record, SpentInv, SpentStep
<1>2. cur.id <= spent'.records
  BY <1>1 DEF CurFacts
<1> QED BY <1>2 DEF CurFacts

-----------------------------------------------------------------------------
(***************************************************************************)
(* Writing, and the beginning of a rotation.                               *)
(***************************************************************************)

LEMMA WriteLogStep ==
  ASSUME RotatingIInv, NEW r \in Record, WriteLog(r), SpentStep, r.id # 0 => r.size > 0,
         r.id <= spent'.records, r.ts <= now, Lateness[cfg.scheme] = 0 => r.ts = now,
         f'.file = f.file,
         FileInv(f', Kept, Allowed, RecordsOf(Known), RecordsOf(InFile), RecordsOf(Unwritten))
  PROVE  RotatingIInv'
<1>1. /\ pc = "ready" /\ cur' = r
      /\ cfg' = cfg /\ created' = created /\ nextRotation' = nextRotation /\ opened' = opened /\ now' = now
      /\ why' \in {"time", "size", "none"}
      /\ why' = "time" <=> Enabled /\ TimeRotation(r.ts)
      /\ why' = "size" => Enabled
      /\ pc' = IF why' = "none" \/ Refused THEN "append" ELSE "rotate"
  BY DEF WriteLog
<1>2. SpentInv /\ ListInv /\ Boundary /\ nextRotation \in Nat /\ opened \in Nat
  BY DEF RotatingIInv, SpentInv
<1>3. SpentInv' /\ ListInv' /\ Boundary'
  BY <1>1, <1>2, SameList, SameSpent
<1>4. /\ Allowed' = Allowed /\ Live' = Live /\ Refused' = Refused /\ Enabled' = Enabled
      /\ Known \subseteq Known' /\ InFile \subseteq InFile' /\ Unwritten \subseteq Unwritten'
  <2>1. OnTime' /\ pc' = "append" /\ why' = "time" => FALSE
    <3>1. Refused' = Refused
      BY <1>1 DEF Refused
    <3> QED BY <1>1, <3>1 DEF OnTime
  <2>2. pc # "down" /\ pc' # "down"
    BY <1>1
  <2> QED BY <1>1, <1>2, <2>1, <2>2, PairsGrow
<1>5. ~Renaming /\ ~Renaming' /\ pc' # "down" /\ pc' # "rename" /\ pc' # "undo"
  BY <1>1 DEF Renaming
<1>6. CurFacts'
  <2>1. Live' <=> Enabled /\ Rotates(cfg)
    BY <1>1, <1>4 DEF Live
  <2>2. nextRotation \in Nat /\ r.ts \in Nat
    BY <1>2 DEF Record
  <2>3. IF why' = "time" THEN Live' /\ r.ts >= nextRotation ELSE Live' => r.ts < nextRotation
    BY <1>1, <2>1, <2>2 DEF TimeRotation
  <2> QED BY <1>1, <2>3 DEF CurFacts
<1>7. CallInv'
  <2>1. NoFault' => f'.file # "closed"
    BY <1>1 DEF RotatingIInv, CallInv, SpentStep
  <2>2. pc' = "rotate" => Enabled' /\ ~Refused'
    BY <1>1, <1>4
  <2> QED BY <1>1, <1>5, <1>6, <2>1, <2>2 DEF CallInv
<1>8. RenameInv'
  BY <1>5 DEF RenameInv
<1>9. Kept' \subseteq Kept
  BY <1>1, <1>5 DEF Kept, SpentStep
<1>10. DiskFits'
  BY <1>4, <1>9, DiskStillFits
<1> QED BY <1>3, <1>7, <1>8, <1>10 DEF RotatingIInv

LEMMA WriteRecordStep ==
  ASSUME RotatingIInv, NEW size \in Sizes, NEW t \in 0..now, Lateness[cfg.scheme] = 0 => t = now,
         WriteRecord(size, t)
  PROVE  RotatingIInv'
<1> DEFINE r == [id |-> spent.records + 1, size |-> size, ts |-> t, whole |-> TRUE]
<1>1. /\ spent' = [spent EXCEPT !.records = @ + 1] /\ f' = f /\ WriteLog(r)
  BY DEF WriteRecord
<1>2. SpentInv /\ spent.records \in Nat /\ now \in Nat
  BY DEF RotatingIInv, SpentInv
<1>3. size \in Nat /\ size > 0
  BY SizesAssumption
<1>4. r \in Record /\ r.id = spent.records + 1 /\ r.size = size /\ r.ts = t /\ t <= now
  BY <1>2, <1>3 DEF Record
<1>5. spent'.records = spent.records + 1 /\ spent'.first = spent.first /\ spent'.faults = spent.faults
  BY <1>1, <1>2 DEF SpentInv
<1>6. spent' \in [records : Nat, starts : Nat, faults : Nat, deletes : Nat, stale : Nat, first : Nat]
  BY <1>1, <1>2 DEF SpentInv
<1>7. SpentStep
  BY <1>2, <1>5, <1>6 DEF SpentStep, NoFault
<1>8. FileInv(f', Kept, Allowed, RecordsOf(Known), RecordsOf(InFile), RecordsOf(Unwritten))
  BY <1>1 DEF RotatingIInv, DiskFits
<1>9. r.id # 0 => r.size > 0
  BY <1>3, <1>4
<1>10. r.id <= spent'.records
  BY <1>2, <1>4, <1>5
<1> HIDE DEF r
<1> QED BY <1>1, <1>4, <1>7, <1>8, <1>9, <1>10, WriteLogStep

LEMMA WriteFirstHeaderStep ==
  ASSUME RotatingIInv, NEW t \in 0..now, Lateness[cfg.scheme] = 0 => t = now, WriteFirstHeader(t)
  PROVE  RotatingIInv'
<1> DEFINE r == [Header(cfg.file) EXCEPT !.ts = t]
<1>1. f' = [f EXCEPT !.due = FALSE] /\ spent' = spent /\ WriteLog(r)
  BY DEF WriteFirstHeader
<1>2. SpentInv /\ spent.records \in Nat /\ now \in Nat /\ cfg \in Configs
  BY DEF RotatingIInv, SpentInv
<1>3. cfg.file.header \in Nat
  BY <1>2, ConfigFacts DEF FileSinkConfig
<1>4. r \in Record /\ r.id = 0 /\ r.ts = t /\ t <= now
  <2>1. Header(cfg.file) \in [id : {0}, size : Nat, ts : Nat, whole : BOOLEAN]
    BY <1>3 DEF Header
  <2>2. t \in Nat /\ t <= now
    BY <1>2
  <2>3. r \in [id : {0}, size : Nat, ts : {t}, whole : BOOLEAN]
    BY <2>1, <2>2
  <2> HIDE DEF r
  <2> QED BY <2>2, <2>3 DEF Record
<1>5. SpentStep /\ spent'.records = spent.records
  BY <1>1, <1>2, SpentSame
<1>6. FileInv(f, Kept, Allowed, RecordsOf(Known), RecordsOf(InFile), RecordsOf(Unwritten))
  BY DEF RotatingIInv, DiskFits
<1>7. DOMAIN f = Fields
  BY <1>6 DEF FileInv
<1>8. DOMAIN f' = Fields /\ f'.disk = f.disk /\ f'.file = f.file /\ f'.pending = f.pending /\ f'.wrote = f.wrote
  BY <1>1, <1>7 DEF Fields
<1>9. FileInv(f', Kept, Allowed, RecordsOf(Known), RecordsOf(InFile), RecordsOf(Unwritten))
  BY <1>6, <1>8, OtherFields
<1>10. r.id <= spent'.records
  BY <1>2, <1>4, <1>5
<1> HIDE DEF r
<1> QED BY <1>1, <1>4, <1>5, <1>8, <1>9, <1>10, WriteLogStep

\* A step within a call, or back to rest, that leaves the list and the next
\* rotation alone.
LEMMA CallStep ==
  ASSUME RotatingIInv, SpentStep,
         cfg' = cfg, created' = created, nextRotation' = nextRotation, now' = now, opened' \in Nat,
         pc # "down", pc' \in {"ready", "rotate", "rename", "undo", "append"},
         OnTime' /\ pc' = "append" /\ why' = "time" => pc = "append" /\ why = "time",
         CallInv', RenameInv', NEW M, Kept' \subseteq M,
         FileInv(f', M, Allowed, RecordsOf(Known), RecordsOf(InFile), RecordsOf(Unwritten))
  PROVE  RotatingIInv'
<1>1. SpentInv /\ ListInv /\ Boundary /\ nextRotation \in Nat /\ pc' # "down"
  BY DEF RotatingIInv, SpentInv
<1>2. SpentInv' /\ ListInv' /\ Boundary'
  BY <1>1, SameList, SameSpent
<1>3. /\ Allowed' = Allowed
      /\ Known \subseteq Known' /\ InFile \subseteq InFile' /\ Unwritten \subseteq Unwritten'
  BY <1>1, PairsGrow
<1>4. DiskFits'
  BY <1>3, DiskStillFits
<1> QED BY <1>2, <1>4 DEF RotatingIInv

\* What a call knows of its record stays known.
LEMMA CallKeepsCur ==
  ASSUME RotatingIInv, SpentStep, cfg' = cfg, created' = created, nextRotation' = nextRotation, now' = now,
         cur' = cur, why' = why, pc \in {"rotate", "rename", "undo", "append"}, pc' # "down", why # "start"
  PROVE  CurFacts'
<1>1. SpentInv /\ CurFacts
  BY DEF RotatingIInv, CallInv, Renaming
<1>2. Live' = Live
  BY DEF Live, Enabled
<1> QED BY <1>1, <1>2, SameCur

LEMMA FileFits ==
  ASSUME RotatingIInv
  PROVE  /\ FileInv(f, Kept, Allowed, RecordsOf(Known), RecordsOf(InFile), RecordsOf(Unwritten))
         /\ FileSets(Allowed, RecordsOf(Known), RecordsOf(InFile), RecordsOf(Unwritten))
         /\ cfg.file \in FileSinkConfig
BY PairFacts, ConfigFacts DEF RotatingIInv, DiskFits, SpentInv

\* The size that is noted last.
LEMMA SizedInv ==
  ASSUME NEW g, NEW size, NEW M, NEW N, NEW A, NEW B, NEW E, FileInv(g, M, N, A, B, E)
  PROVE  FileInv([g EXCEPT !.size = size], M, N, A, B, E) /\ [g EXCEPT !.size = size].file = g.file
         /\ [g EXCEPT !.size = size].disk = g.disk
<1> DEFINE h == [g EXCEPT !.size = size]
<1>1. DOMAIN g = Fields
  BY DEF FileInv
<1>2. DOMAIN h = Fields /\ h.disk = g.disk /\ h.file = g.file /\ h.pending = g.pending /\ h.wrote = g.wrote
  BY <1>1 DEF Fields
<1> HIDE DEF h
<1>3. FileInv(h, M, N, A, B, E)
  BY <1>2, OtherFields
<1> QED BY <1>2, <1>3 DEF h

\* While a sink runs, a rotation is done for a record.
LEMMA RotateReopensStep ==
  ASSUME RotatingIInv, RotateReopens
  PROVE  RotatingIInv'
<1> DEFINE g == OpenFile(f, cfg.file, ReopenMode)  size == FileSize(g.disk, Base)
<1>1. /\ pc = "rotate" /\ f.file = "closed" /\ f' = [g EXCEPT !.size = size] /\ opened' = cur.ts /\ pc' = "append"
      /\ cfg' = cfg /\ created' = created /\ nextRotation' = nextRotation /\ now' = now /\ spent' = spent
      /\ cur' = cur /\ why' = why
  BY DEF RotateReopens, call
<1>2. SpentStep /\ NoFault' = NoFault
  BY <1>1, SpentSame DEF RotatingIInv
<1>3. ~NoFault /\ why # "start" /\ CurFacts
  BY <1>1 DEF RotatingIInv, CallInv
<1>4. CurFacts' /\ opened' \in Nat
  BY <1>1, <1>2, <1>3, CallKeepsCur DEF CurFacts, Record
<1>5. FileInv(g, Kept, Allowed, RecordsOf(Known), RecordsOf(InFile), RecordsOf(Unwritten))
  BY <1>1, FileFits, OpenInv
<1> HIDE DEF g, size
<1>6. FileInv(f', Kept, Allowed, RecordsOf(Known), RecordsOf(InFile), RecordsOf(Unwritten))
  BY <1>1, <1>5, SizedInv
<1>7. CallInv' /\ RenameInv'
  BY <1>1, <1>2, <1>3, <1>4 DEF CallInv, RenameInv, Renaming
<1>8. Kept' \subseteq Kept
  BY <1>2, <1>3 DEF Kept
<1>9. ~OnTime'
  BY <1>2, <1>3 DEF OnTime
<1> QED BY <1>1, <1>2, <1>4, <1>6, <1>7, <1>8, <1>9, CallStep

LEMMA PairFactsAlways ==
  SpentInv /\ Boundary =>
    /\ <<0, 0>> \in InFile /\ InFile \subseteq Known /\ Unwritten \subseteq InFile /\ Base \in Allowed
BY PairFacts

LEMMA PairFactsNext ==
  (SpentInv /\ Boundary =>
     /\ <<0, 0>> \in InFile /\ InFile \subseteq Known /\ Unwritten \subseteq InFile /\ Base \in Allowed)'
BY PairFactsAlways, PTL

LEMMA RotateEmptyStep ==
  ASSUME RotatingIInv, RotateEmpty
  PROVE  RotatingIInv'
<1>1. /\ pc = "rotate" /\ f.file # "closed" /\ f' = FlushSink(f, cfg.file) /\ FileSize(f'.disk, Base) = 0
      /\ pc' = "append"
      /\ cfg' = cfg /\ created' = created /\ nextRotation' = nextRotation /\ now' = now /\ spent' = spent
      /\ cur' = cur /\ why' = why /\ opened' = opened
  BY DEF RotateEmpty, call
<1>2. SpentInv /\ ListInv /\ Boundary /\ nextRotation \in Nat /\ opened' \in Nat
  BY <1>1 DEF RotatingIInv, SpentInv
<1>3. SpentStep /\ NoFault' = NoFault
  BY <1>1, <1>2, SpentSame
<1>4. SpentInv' /\ ListInv' /\ Boundary'
  <2>1. pc # "down" /\ pc' # "down" /\ pc' \in {"ready", "rotate", "rename", "undo", "append"}
    BY <1>1
  <2>2. nextRotation' \in Nat
    BY <1>1, <1>2
  <2> QED BY <1>1, <1>2, <1>3, <2>1, <2>2, SameList, SameSpent
<1>5. Allowed' = Allowed /\ Live' = Live
  BY <1>1 DEF Allowed, Live, Enabled
<1>6. Known' = Known /\ Unwritten' = Unwritten
  BY <1>1, <1>3, <1>5 DEF Known, Unwritten
<1>7. CurFacts' /\ why # "start"
  <2>1. why # "start"
    BY <1>1 DEF RotatingIInv, CallInv
  <2> QED BY <1>1, <1>3, <2>1, CallKeepsCur
<1>8. FileSets(Allowed, RecordsOf(Known), RecordsOf(InFile'), RecordsOf(Unwritten))
  BY <1>2, <1>4, <1>5, <1>6, PairFacts, PairFactsNext, PairsMakeSets
<1>9. ASSUME NEW r \in RecordsOf(InFile), r.size = 0 PROVE r \in RecordsOf(InFile')
  <2>1. r \in Record /\ r.id = 0 /\ <<0, r.ts>> \in Known'
    BY <1>6, <1>9 DEF RecordsOf, InFile
  <2>2. 0 < spent'.first
    BY <1>1, <1>4 DEF SpentInv
  <2>3. Recent(<<0, r.ts>>)'
    BY <2>2 DEF Recent
  <2>4. <<0, r.ts>> \in InFile'
    BY <2>1, <2>3 DEF InFile
  <2> QED BY <2>1, <2>4 DEF RecordsOf
<1>10. FileInv(f', Kept, Allowed, RecordsOf(Known), RecordsOf(InFile'), RecordsOf(Unwritten))
  <2>1. Unwritten \subseteq InFile'
    BY <1>4, <1>6, PairFactsNext
  <2> DEFINE I == RecordsOf(InFile')
  <2>2. RecordsOf(Unwritten) \subseteq I /\ \A r \in RecordsOf(InFile) : r.size = 0 => r \in I
    BY <1>9, <2>1, RecordsOfGrow
  <2>3. FileSets(Allowed, RecordsOf(Known), I, RecordsOf(Unwritten))
    BY <1>8
  <2> HIDE DEF I
  <2>4. FileInv(f', Kept, Allowed, RecordsOf(Known), I, RecordsOf(Unwritten))
    BY <1>1, <2>2, <2>3, FileFits, FlushEmptyInv
  <2> QED BY <2>4 DEF I
<1>11. Kept' \subseteq Kept
  BY <1>1, <1>3 DEF Kept, Renaming
<1>12. DiskFits'
  <2> DEFINE K == RecordsOf(Known')  I == RecordsOf(InFile')  U == RecordsOf(Unwritten')
  <2>1. FileInv(f', Kept, Allowed', K, I, U)
    BY <1>5, <1>6, <1>10
  <2>2. K = RecordsOf(Known)' /\ I = RecordsOf(InFile)' /\ U = RecordsOf(Unwritten)'
    BY DEF RecordsOf
  <2> HIDE DEF K, I, U
  <2>3. FileInv(f', Kept', Allowed', K, I, U)
    BY <1>11, <2>1, FileInvWeaker
  <2> QED BY <2>2, <2>3 DEF DiskFits
<1>13. CallInv'
  <2>1. f'.file # "closed"
    BY <1>1, FileFits, FlushInv
  <2> QED BY <1>1, <1>7, <2>1 DEF CallInv, Renaming
<1>14. RenameInv'
  BY <1>1 DEF RenameInv, Renaming
<1> QED BY <1>4, <1>12, <1>13, <1>14 DEF RotatingIInv

LEMMA FileOnDisk ==
  ASSUME NEW d, FileSize(d, Base) > 0
  PROVE  Base \in DOMAIN d
BY DEF FileSize

LEMMA RotateClosesStep ==
  ASSUME RotatingIInv, RotateCloses
  PROVE  RotatingIInv'
<1> DEFINE g == FlushSink(f, cfg.file)
<1>1. /\ pc = "rotate" /\ f.file # "closed" /\ FileSize(g.disk, Base) > 0 /\ f' = CloseFile(g, cfg.file)
      /\ pc' = "rename" /\ left' = Len(created) /\ done' = <<>>
      /\ cfg' = cfg /\ created' = created /\ nextRotation' = nextRotation /\ now' = now /\ spent' = spent
      /\ cur' = cur /\ why' = why /\ opened' = opened
  BY DEF RotateCloses
<1>2. SpentStep /\ NoFault' = NoFault
  BY <1>1, SpentSame DEF RotatingIInv
<1>3. why # "start" /\ CurFacts /\ Enabled /\ ~Refused /\ opened \in Nat
  BY <1>1 DEF RotatingIInv, CallInv, SpentInv
<1>4. CurFacts'
  BY <1>1, <1>2, <1>3, CallKeepsCur
<1>5. FileInv(g, Kept, Allowed, RecordsOf(Known), RecordsOf(InFile), RecordsOf(Unwritten))
  BY <1>1, FileFits, FlushInv
<1>6. Base \in DOMAIN g.disk
  BY <1>1, FileOnDisk
<1> HIDE DEF g
<1>7. /\ FileInv(f', Kept, Allowed, RecordsOf(Known), RecordsOf(InFile), RecordsOf(Unwritten))
      /\ f'.file = "closed" /\ DOMAIN f'.disk = DOMAIN g.disk
  BY <1>1, <1>5, FileFits, CloseInv
<1>8. CallInv'
  <2>1. Enabled' /\ ~Refused'
    BY <1>1, <1>3 DEF Enabled, Refused
  <2> QED BY <1>1, <1>4, <1>7, <2>1 DEF CallInv, Renaming
<1>9. Kept' = {}
  BY <1>1 DEF Kept, Renaming
<1>10. RenameInv'
  <2>1. PICK S : created \in Seq(S)
    BY DEF RotatingIInv, ListInv
  <2>2. Len(created) \in Nat /\ Len(created) # 0
    BY <1>3, <2>1, EmptySeq DEF Enabled
  <2>3. Len(done') = 0 /\ done' \in Seq([from : Allowed', to : Allowed', at : Nat])
    BY <1>1
  <2>4. DoneInv'
    BY <1>1, <2>2, <2>3 DEF DoneInv
  <2>5. NoFault => \A i \in 1..Len(created) : created[i] \in DOMAIN f'.disk
    <3> SUFFICES ASSUME NoFault, NEW i \in 1..Len(created), created[i] # Base
                 PROVE  created[i] \in DOMAIN f'.disk
      BY <1>6, <1>7
    <3>1. created[i] \in Kept
      BY <1>1, <2>1, <2>2 DEF Kept, Renaming, Range
    <3> QED BY <1>7, <3>1 DEF FileInv, DiskInv
  <2>6. \A i \in (left' + 1)..Len(created') : FALSE
    BY <1>1, <2>2
  <2>7. left' # 0
    BY <1>1, <2>2
  <2> QED BY <1>1, <1>2, <2>4, <2>5, <2>6, <2>7 DEF RenameInv
<1> QED BY <1>1, <1>2, <1>3, <1>7, <1>8, <1>9, <1>10, CallStep

LEMMA MarkedInv ==
  ASSUME NEW g, NEW M, NEW N, NEW A, NEW B, NEW E, FileInv(g, M, N, A, B, E)
  PROVE  FileInv([g EXCEPT !.wrote = TRUE], M, N, A, B, E)
<1> DEFINE h == [g EXCEPT !.wrote = TRUE]
<1>1. DOMAIN g = Fields
  BY DEF FileInv
<1>2. DOMAIN h = Fields /\ h.disk = g.disk /\ h.file = g.file /\ h.pending = g.pending /\ h.wrote = TRUE
  BY <1>1 DEF Fields
<1> HIDE DEF h
<1>3. FileInv(h, M, N, A, B, E)
  BY <1>2 DEF FileInv
<1> QED BY <1>3 DEF h

LEMMA RotateThrowsStep ==
  ASSUME RotatingIInv, RotateThrows
  PROVE  RotatingIInv'
<1> DEFINE g == FlushSink(f, cfg.file)
<1>1. /\ pc = "rotate" /\ Fault /\ pc' = "ready"
      /\ cfg' = cfg /\ created' = created /\ nextRotation' = nextRotation /\ now' = now /\ opened' = opened
  BY DEF RotateThrows
<1>2. SpentStep /\ ~NoFault'
  BY <1>1, SpentFault DEF RotatingIInv
<1>3. opened \in Nat
  BY DEF RotatingIInv, SpentInv
<1>4. \/ f' = f
      \/ f.file # "closed" /\ f' \in FlushThrows(f, cfg.file)
      \/ f.file # "closed" /\ f' = [g EXCEPT !.wrote = TRUE]
      \/ f.file # "closed" /\ f' = CloseFile(g, cfg.file)
  BY DEF RotateThrows
<1>5. f.file # "closed" =>
        FileInv(g, Kept, Allowed, RecordsOf(Known), RecordsOf(InFile), RecordsOf(Unwritten))
  BY FileFits, FlushInv
<1> HIDE DEF g
<1>6. FileInv(f', Kept, Allowed, RecordsOf(Known), RecordsOf(InFile), RecordsOf(Unwritten))
  BY <1>4, <1>5, FileFits, FlushThrowsInv, MarkedInv, CloseInv
<1>7. CallInv' /\ RenameInv'
  BY <1>1, <1>2 DEF CallInv, RenameInv, Renaming
<1>8. Kept' \subseteq Kept
  BY <1>2 DEF Kept
<1> QED BY <1>1, <1>2, <1>3, <1>6, <1>7, <1>8, CallStep

-----------------------------------------------------------------------------
(***************************************************************************)
(* The renames.                                                            *)
(***************************************************************************)

\* The new name of a file is one of this sink and not that of the file being
\* written.
LEMMA NewNameFacts ==
  ASSUME SpentInv, NEW n \in Allowed, Renames(n)
  PROVE  /\ NewName(n) \in Allowed /\ NewName(n) # Base
         /\ NewName(n).date = Suffix(opened)
         /\ n.date = NewName(n).date => NewName(n).index > n.index
         /\ n.date # NewName(n).date => n = Base /\ NewName(n).index = 0
<1>1. /\ cfg.scheme \in Scheme /\ opened \in Nat /\ DayLength \in Nat /\ DayLength > 0
  BY ConfigFacts DEF SpentInv
<1>2. opened \div DayLength \in Nat
  <2>1. PICK m \in Nat : m = opened
    BY <1>1
  <2>2. PICK d \in Nat : d = DayLength /\ d > 0
    BY <1>1
  <2>3. m \div d \in Nat
    BY <2>2
  <2> QED BY <2>1, <2>2, <2>3
<1>3. Suffix(opened) \in Nat /\ (Suffix(opened) = 0 <=> cfg.scheme = "Index")
  <2>1. PICK q \in Nat : q = opened \div DayLength
    BY <1>2
  <2>2. opened \div DayLength + 1 \in Nat /\ opened \div DayLength + 1 # 0
    BY <2>1
  <2>3. opened + 1 \in Nat /\ opened + 1 # 0
    BY <1>1
  <2> QED BY <1>1, <2>2, <2>3 DEF Suffix, Scheme
<1>4. n \in Name /\ n.date \in Nat /\ n.index \in Nat
  BY DEF Allowed, Name, Base
<1>5. NewName(n) = [date |-> Suffix(opened),
                    index |-> IF cfg.scheme = "Index" \/ n.date = Suffix(opened) THEN n.index + 1 ELSE n.index]
  BY DEF NewName, GetFilename
<1>6. NewName(n) \in Name /\ NewName(n).date = Suffix(opened)
      /\ NewName(n).index = IF cfg.scheme = "Index" \/ n.date = Suffix(opened) THEN n.index + 1 ELSE n.index
  BY <1>3, <1>4, <1>5 DEF Name
<1>7. CASE cfg.scheme = "Index"
  <2>1. n.date = 0
    BY <1>7 DEF Allowed, Base
  <2>2. NewName(n).index = n.index + 1 /\ NewName(n).date = 0 /\ NewName(n).index > 0
    BY <1>3, <1>4, <1>6, <1>7
  <2>3. NewName(n) \in Allowed
    BY <1>6, <1>7, <2>2 DEF Allowed
  <2>4. NewName(n) # Base
    BY <2>2 DEF Base
  <2> QED BY <1>4, <1>6, <2>1, <2>2, <2>3, <2>4
<1>8. CASE cfg.scheme # "Index"
  <2>1. NewName(n).date > 0
    BY <1>3, <1>6, <1>8
  <2>2. NewName(n) \in Allowed
    BY <1>6, <1>8, <2>1 DEF Allowed
  <2>3. NewName(n) # Base
    BY <2>1 DEF Base
  <2>4. n.date # Suffix(opened) => n.date = 0 /\ n = Base
    BY <1>4, <1>8 DEF Renames, Allowed
  <2>5. n = Base => n.index = 0
    BY DEF Base
  <2> QED BY <1>4, <1>6, <1>8, <2>2, <2>3, <2>4, <2>5
<1> QED BY <1>7, <1>8

LEMMA BaseRenames ==
  Renames(Base)
BY DEF Renames, Base

\* The list has no name twice, and a new name is not one that is still to be
\* looked at.
LEMMA ListIsDistinct ==
  ASSUME RotatingIInv, pc # "down", Enabled, NEW i \in 1..Len(created), NEW j \in 1..Len(created), i < j
  PROVE  created[i] # created[j] /\ created[j] # Base /\ After(j) # created[i]
<1>1. /\ ListInv /\ SpentInv /\ Len(created) \in Nat
      /\ created[i] \in Allowed /\ created[j] \in Allowed
  <2>1. created \in Seq(Allowed)
    BY DEF RotatingIInv, ListInv
  <2> QED BY <2>1 DEF RotatingIInv
<1>2. \A n \in Allowed : n.date \in Nat /\ n.index \in Nat
  BY DEF Allowed, Name, Base
<1>3. created[i].date = created[j].date => created[i].index < created[j].index
  BY <1>1 DEF ListInv, InOrder
<1>4. created[j] # Base
  <2>1. 1 \in 1..Len(created) /\ 1 < j /\ created[1] = Base
    BY <1>1 DEF ListInv
  <2>2. created[j].date = 0 => 0 < created[j].index
    <3>1. created[1].date = created[j].date => created[1].index < created[j].index
      BY <1>1, <2>1 DEF ListInv, InOrder
    <3> QED BY <2>1, <3>1 DEF Base
  <2> QED BY <1>1, <1>2, <2>2 DEF Base
<1>5. created[i] # created[j]
  BY <1>1, <1>2, <1>3
<1>6. After(j) # created[i]
  <2>1. CASE ~Renames(created[j])
    BY <1>5, <2>1 DEF After
  <2>2. CASE Renames(created[j])
    <3> DEFINE m == NewName(created[j])
    <3>1. After(j) = m
      BY <2>2 DEF After
    <3>2. /\ m \in Allowed
          /\ created[j].date = m.date => m.index > created[j].index
          /\ created[j].date # m.date => created[j] = Base
      BY <1>1, <2>2, NewNameFacts
    <3> HIDE DEF m
    <3>3. m.index \in Nat /\ created[j].index \in Nat /\ created[i].index \in Nat
      BY <1>1, <1>2, <3>2
    <3> QED BY <1>3, <1>4, <3>1, <3>2, <3>3
  <2> QED BY <2>1, <2>2
<1> QED BY <1>4, <1>5, <1>6

\* The facts that every step of the renames starts from.
LEMMA RenamingFacts ==
  ASSUME RotatingIInv, Renaming
  PROVE  /\ Enabled /\ ~Refused /\ f.file = "closed" /\ Kept = {} /\ pc # "down"
         /\ SpentInv /\ opened \in Nat /\ Len(created) \in Nat /\ Len(created) >= 1 /\ created[1] = Base
         /\ left \in 0..Len(created) /\ Len(done) \in Nat
         /\ \A i \in 1..Len(created) : created[i] \in Allowed
         /\ why # "start" => CurFacts
         /\ FileInv(f, {}, Allowed, RecordsOf(Known), RecordsOf(InFile), RecordsOf(Unwritten))
<1>1. Enabled /\ ~Refused /\ f.file = "closed" /\ Kept = {} /\ pc # "down" /\ SpentInv /\ opened \in Nat
      /\ (why # "start" => CurFacts)
  BY DEF RotatingIInv, CallInv, SpentInv, Kept, Renaming
<1>2. created \in Seq(Allowed) /\ created[1] = Base
  BY <1>1 DEF RotatingIInv, ListInv
<1>3. Len(created) \in Nat /\ Len(created) # 0 /\ \A i \in 1..Len(created) : created[i] \in Allowed
  BY <1>1, <1>2, EmptySeq DEF Enabled
<1>4. left \in 0..Len(created)
  BY DEF RotatingIInv, RenameInv, DoneInv
<1>5. Len(done) \in Nat
  <2>1. PICK S : done \in Seq(S)
    BY DEF RotatingIInv, RenameInv, DoneInv
  <2> QED BY <2>1
<1> QED BY <1>1, <1>2, <1>3, <1>4, <1>5, FileFits

\* What a step from one rename to the next keeps of the call.
LEMMA RenamingCall ==
  ASSUME RotatingIInv, Renaming, Renaming', SpentStep, f'.file = "closed",
         cfg' = cfg, created' = created, nextRotation' = nextRotation, now' = now,
         why' = why, cur' = cur
  PROVE  CallInv'
<1>1. pc \in {"rename", "undo"} /\ pc' \in {"rename", "undo"}
  BY DEF Renaming
<1>2. why' # "start" => CurFacts'
  BY <1>1, CallKeepsCur
<1>3. Enabled' /\ ~Refused'
  BY RenamingFacts DEF Enabled, Refused
<1> QED BY <1>1, <1>2, <1>3 DEF CallInv

LEMMA SameNames ==
  ASSUME cfg' = cfg, opened' = opened, created' = created
  PROVE  /\ \A i : /\ Renames(created[i])' <=> Renames(created[i])
                   /\ NewName(created[i])' = NewName(created[i])
                   /\ After(i)' = After(i)
         /\ Allowed' = Allowed
<1>1. \A t : Suffix(t)' = Suffix(t)
  BY DEF Suffix
<1>2. \A i : Renames(created[i])' <=> Renames(created[i])
  BY <1>1 DEF Renames, Suffix
<1>3. \A i : NewName(created[i])' = NewName(created[i])
  BY <1>1 DEF NewName, GetFilename, Suffix
<1>4. \A i : After(i)' = After(i)
  BY <1>2, <1>3 DEF After
<1> QED BY <1>2, <1>3, <1>4 DEF Allowed

\* A file of a closed sink is renamed.
LEMMA MovedInv ==
  ASSUME NEW g, NEW M, NEW N, NEW A, NEW B, NEW E, FileInv(g, M, N, A, B, E), g.file = "closed",
         NEW from \in DOMAIN g.disk, NEW to \in N, to = Base => A \subseteq B
  PROVE  /\ FileInv([g EXCEPT !.disk = Moved(@, from, to)], {}, N, A, B, E)
         /\ [g EXCEPT !.disk = Moved(@, from, to)].file = "closed"
         /\ DOMAIN [g EXCEPT !.disk = Moved(@, from, to)].disk = (DOMAIN g.disk \ {from}) \cup {to}
<1> DEFINE d == Moved(g.disk, from, to)
<1>1. DiskInv(g.disk, M, N, A, B) /\ DOMAIN g = Fields
  BY DEF FileInv
<1>2. DiskInv(d, {}, N, A, B) /\ DOMAIN d = (DOMAIN g.disk \ {from}) \cup {to}
  BY <1>1, DiskMoved
<1> HIDE DEF d
<1>3. [g EXCEPT !.disk = d].disk = d /\ [g EXCEPT !.disk = d].file = "closed"
  BY <1>1 DEF Fields
<1>4. FileInv([g EXCEPT !.disk = d], {}, N, A, B, E)
  BY <1>2, OtherDisk
<1>5. [g EXCEPT !.disk = Moved(@, from, to)] = [g EXCEPT !.disk = d]
  BY DEF d
<1> QED BY <1>2, <1>3, <1>4, <1>5

LEMMA RenameStep ==
  ASSUME RotatingIInv, Rename
  PROVE  RotatingIInv'
<1> DEFINE n == created[left]  e == [from |-> n, to |-> NewName(n), at |-> left]
<1>1. /\ pc = "rename" /\ left > 0 /\ pc' = "rename" /\ left' = left - 1
      /\ Renames(n) => n \in DOMAIN f.disk
      /\ f' = IF Renames(n) THEN [f EXCEPT !.disk = Moved(@, n, NewName(n))] ELSE f
      /\ done' = IF Renames(n) THEN Append(done, e) ELSE done
      /\ cfg' = cfg /\ created' = created /\ nextRotation' = nextRotation /\ now' = now /\ spent' = spent
      /\ cur' = cur /\ why' = why /\ opened' = opened
  BY DEF Rename
<1>2. Renaming /\ Renaming'
  BY <1>1 DEF Renaming
<1>3. SpentStep /\ NoFault' = NoFault
  BY <1>1, <1>2, SpentSame, RenamingFacts
<1>4. /\ Enabled /\ SpentInv /\ Len(created) \in Nat /\ left \in Nat /\ left >= 1 /\ left <= Len(created)
      /\ n \in Allowed /\ Allowed' = Allowed /\ pc # "down" /\ Len(done) \in Nat
      /\ FileInv(f, {}, Allowed, RecordsOf(Known), RecordsOf(InFile), RecordsOf(Unwritten))
  BY <1>1, <1>2, RenamingFacts, SameNames
<1>5. Renames(n) => NewName(n) \in Allowed /\ NewName(n) # Base
  BY <1>4, NewNameFacts
<1>6. /\ FileInv(f', {}, Allowed, RecordsOf(Known), RecordsOf(InFile), RecordsOf(Unwritten))
      /\ f'.file = "closed"
      /\ DOMAIN f'.disk = IF Renames(n) THEN (DOMAIN f.disk \ {n}) \cup {NewName(n)} ELSE DOMAIN f.disk
  <2>1. CASE ~Renames(n)
    BY <1>1, <1>2, <1>4, <2>1, RenamingFacts
  <2>2. CASE Renames(n)
    <3>1. n \in DOMAIN f.disk /\ NewName(n) \in Allowed /\ NewName(n) # Base
          /\ f' = [f EXCEPT !.disk = Moved(@, n, NewName(n))] /\ f.file = "closed"
      BY <1>1, <1>2, <1>5, <2>2, RenamingFacts
    <3> DEFINE to == NewName(n)  h == [f EXCEPT !.disk = Moved(@, n, to)]
    <3>2. FileInv(f, Kept, Allowed, RecordsOf(Known), RecordsOf(InFile), RecordsOf(Unwritten))
      BY FileFits
    <3>3. to \in Allowed /\ to # Base /\ f' = h
      BY <3>1
    <3> HIDE DEF n, to
    <3>4. /\ FileInv(h, {}, Allowed, RecordsOf(Known), RecordsOf(InFile), RecordsOf(Unwritten))
          /\ h.file = "closed" /\ DOMAIN h.disk = (DOMAIN f.disk \ {n}) \cup {to}
      BY <3>1, <3>2, <3>3, MovedInv
    <3> QED BY <2>2, <3>3, <3>4 DEF to
  <2> QED BY <2>1, <2>2
<1>7. CallInv'
  BY <1>1, <1>2, <1>3, <1>6, RenamingCall
<1>8. \A i \in 1..Len(created) : i < left => created[i] # n
  BY <1>1, <1>4, ListIsDistinct
<1>9. \A i \in 1..Len(created) : left < i => After(i) # n
  BY <1>1, <1>4, ListIsDistinct
<1>10. DoneInv /\ (\A i \in (left + 1)..Len(created) :
                     Renames(created[i]) => \E k \in 1..Len(done) : done[k].at = i)
       /\ (NoFault => /\ \A i \in 1..left : created[i] \in DOMAIN f.disk
                      /\ \A i \in (left + 1)..Len(created) : After(i) \in DOMAIN f.disk)
  BY <1>1, <1>2 DEF RotatingIInv, RenameInv
<1>11. \A x \in (left + 1)..Len(created) : x \in (left' + 1)..Len(created)
  BY <1>1, <1>4
<1> HIDE DEF n, e
<1>12. DoneInv'
  <2> DEFINE D == [from : Allowed, to : Allowed, at : Nat]
  <2>1. done \in Seq(D)
    BY <1>10 DEF DoneInv
  <2>2. CASE ~Renames(n)
    <3>1. \A k \in 1..Len(done) : done[k].at \in (left' + 1)..Len(created)
      <4>1. \A k \in 1..Len(done) : done[k].at \in (left + 1)..Len(created)
        BY <1>10 DEF DoneInv
      <4> QED BY <1>11, <4>1
    <3>2. left' \in 0..Len(created)
      BY <1>1, <1>4
    <3>3. f' = f /\ done' = done
      BY <1>1, <2>2
    <3> QED BY <1>1, <1>4, <1>10, <3>1, <3>2, <3>3, SameNames DEF DoneInv
  <2>3. CASE Renames(n)
    <3>1. e \in D /\ e.from = n /\ e.to = NewName(n) /\ e.at = left
      BY <1>4, <1>5, <2>3 DEF e
    <3>2. done' = Append(done, e) /\ done' \in Seq(D) /\ Len(done') = Len(done) + 1
      BY <1>1, <2>1, <2>3, <3>1, AppendProperties
    <3>3. done'[Len(done) + 1] = e /\ \A k \in 1..Len(done) : done'[k] = done[k]
      BY <2>1, <3>1, <3>2, AppendProperties
    <3>4. ASSUME NEW k \in 1..Len(done)
          PROVE  /\ done[k].at \in (left + 1)..Len(created) /\ Renames(created[done[k].at])
                 /\ done[k].to = NewName(created[done[k].at]) /\ done[k].from = created[done[k].at]
                 /\ done[k].to \in DOMAIN f'.disk
      <4>1. /\ done[k].at \in (left + 1)..Len(created) /\ Renames(created[done[k].at])
            /\ done[k].to = NewName(created[done[k].at]) /\ done[k].from = created[done[k].at]
            /\ done[k].to \in DOMAIN f.disk
        BY <1>10 DEF DoneInv
      <4>2. done[k].at \in 1..Len(created) /\ left < done[k].at
        BY <1>4, <4>1
      <4>3. After(done[k].at) # n
        BY <1>9, <4>2
      <4>4. done[k].to # n
        BY <4>1, <4>3 DEF After
      <4> QED BY <1>6, <2>3, <4>1, <4>4
    <3>5. \A k \in 1..Len(done') :
            /\ done'[k].at \in (left' + 1)..Len(created) /\ Renames(created[done'[k].at])
            /\ done'[k].to = NewName(created[done'[k].at]) /\ done'[k].from = created[done'[k].at]
            /\ done'[k].to \in DOMAIN f'.disk
      <4> SUFFICES ASSUME NEW k \in 1..Len(done')
                   PROVE  /\ done'[k].at \in (left' + 1)..Len(created) /\ Renames(created[done'[k].at])
                          /\ done'[k].to = NewName(created[done'[k].at]) /\ done'[k].from = created[done'[k].at]
                          /\ done'[k].to \in DOMAIN f'.disk
        OBVIOUS
      <4>1. CASE k = Len(done) + 1
        <5>1. left \in (left' + 1)..Len(created)
          BY <1>1, <1>4
        <5>2. NewName(n) \in DOMAIN f'.disk
          BY <1>6, <2>3
        <5> QED BY <2>3, <3>1, <3>3, <4>1, <5>1, <5>2 DEF n
      <4>2. CASE k # Len(done) + 1
        <5>1. k \in 1..Len(done)
          BY <1>4, <3>2, <4>2
        <5>2. done[k].at \in (left' + 1)..Len(created)
          <6>1. done[k].at \in (left + 1)..Len(created)
            BY <3>4, <5>1
          <6> QED BY <1>11, <6>1
        <5> QED BY <3>3, <3>4, <5>1, <5>2
      <4> QED BY <4>1, <4>2
    <3>6. \A k, l \in 1..Len(done') : k < l => done'[k].at > done'[l].at
      <4> SUFFICES ASSUME NEW k \in 1..Len(done'), NEW l \in 1..Len(done'), k < l
                   PROVE  done'[k].at > done'[l].at
        OBVIOUS
      <4>1. k \in 1..Len(done) /\ done'[k] = done[k]
        BY <1>4, <3>2, <3>3
      <4>2. CASE l = Len(done) + 1
        <5>1. done[k].at \in (left + 1)..Len(created)
          BY <3>4, <4>1
        <5> QED BY <1>4, <3>1, <3>3, <4>1, <4>2, <5>1
      <4>3. CASE l # Len(done) + 1
        <5>1. l \in 1..Len(done) /\ done'[l] = done[l]
          BY <1>4, <3>2, <3>3, <4>3
        <5>2. done[k].at > done[l].at
          BY <1>10, <4>1, <5>1 DEF DoneInv
        <5> QED BY <4>1, <5>1, <5>2
      <4> QED BY <4>2, <4>3
    <3>7. left' \in 0..Len(created)
      BY <1>1, <1>4
    <3>8. \A k \in 1..Len(done') :
            /\ Renames(created[done[k].at])' /\ done'[k].to = NewName(created[done[k].at])'
      <4>1. \A k \in 1..Len(done') :
              /\ Renames(created[done[k].at])' <=> Renames(created[done'[k].at])
              /\ NewName(created[done[k].at])' = NewName(created[done'[k].at])
        BY <1>1 DEF Renames, NewName, GetFilename, Suffix
      <4> QED BY <3>5, <4>1
    <3> QED BY <1>1, <1>4, <3>2, <3>5, <3>6, <3>7, <3>8 DEF DoneInv
  <2> QED BY <2>2, <2>3
<1>13. \A i \in (left' + 1)..Len(created) :
         Renames(created[i]) => \E k \in 1..Len(done') : done'[k].at = i
  <2> SUFFICES ASSUME NEW i \in (left' + 1)..Len(created), Renames(created[i])
               PROVE  \E k \in 1..Len(done') : done'[k].at = i
    OBVIOUS
  <2>1. PICK S : done \in Seq(S)
    BY <1>10 DEF DoneInv
  <2>2. Renames(n) => /\ Len(done') = Len(done) + 1 /\ done'[Len(done) + 1] = e
                      /\ \A k \in 1..Len(done) : done'[k] = done[k]
    BY <1>1, <2>1
  <2>3. CASE i = left
    <3>1. Renames(n) /\ e.at = i
      BY <2>3 DEF n, e
    <3>2. Len(done) + 1 \in 1..Len(done')
      BY <1>4, <2>2, <3>1
    <3> QED BY <2>2, <3>1, <3>2
  <2>4. CASE i # left
    <3>1. i \in (left + 1)..Len(created)
      BY <1>1, <1>4, <2>4
    <3>2. PICK k \in 1..Len(done) : done[k].at = i
      BY <1>10, <3>1
    <3>3. k \in 1..Len(done') /\ done'[k] = done[k]
      BY <1>1, <1>4, <2>2, <3>2
    <3> QED BY <3>2, <3>3
  <2> QED BY <2>3, <2>4
<1>14. left' = 0 => Base \notin DOMAIN f'.disk
  <2> SUFFICES ASSUME left' = 0 PROVE Base \notin DOMAIN f'.disk
    OBVIOUS
  <2>1. left = 1
    BY <1>1, <1>4
  <2>2. n = Base
    BY <1>2, <2>1, RenamingFacts DEF n
  <2> QED BY <1>5, <1>6, <2>2, BaseRenames
<1>15. ASSUME NoFault
       PROVE  /\ \A i \in 1..left' : created[i] \in DOMAIN f'.disk
              /\ \A i \in (left' + 1)..Len(created) : After(i) \in DOMAIN f'.disk
  <2>1. ASSUME NEW i \in 1..left' PROVE created[i] \in DOMAIN f'.disk
    <3>1. i \in 1..left /\ i \in 1..Len(created) /\ i < left
      BY <1>1, <1>4, <2>1
    <3> QED BY <1>6, <1>8, <1>10, <1>15, <3>1
  <2>2. ASSUME NEW i \in (left' + 1)..Len(created) PROVE After(i) \in DOMAIN f'.disk
    <3>1. CASE i = left
      <4>1. created[i] = n /\ i \in 1..left
        BY <1>4, <3>1 DEF n
      <4>2. n \in DOMAIN f.disk
        BY <1>10, <1>15, <4>1
      <4> QED BY <1>6, <4>1, <4>2 DEF After
    <3>2. CASE i # left
      <4>1. i \in (left + 1)..Len(created) /\ i \in 1..Len(created) /\ left < i
        BY <1>1, <1>4, <2>2, <3>2
      <4> QED BY <1>6, <1>9, <1>10, <1>15, <4>1
    <3> QED BY <3>1, <3>2
  <2> QED BY <2>1, <2>2
<1>16. RenameInv'
  <2>1. \A i : (Renames(created[i])' <=> Renames(created[i])) /\ After(i)' = After(i)
    BY <1>1, SameNames
  <2> QED BY <1>1, <1>3, <1>12, <1>13, <1>14, <1>15, <2>1 DEF RenameInv
<1>17. Kept' = {}
  BY <1>2 DEF Kept
<1>18. opened' \in Nat /\ pc' \in {"ready", "rotate", "rename", "undo", "append"}
  BY <1>1, <1>2, RenamingFacts
<1>19. pc' # "append"
  BY <1>1
<1> QED BY <1>1, <1>3, <1>4, <1>6, <1>7, <1>16, <1>17, <1>18, <1>19, CallStep

LEMMA SameDone ==
  ASSUME DoneInv, cfg' = cfg, opened' = opened, created' = created, f' = f, left' = left, done' = done
  PROVE  DoneInv'
<1>1. \A k \in 1..Len(done) : /\ Renames(created[done[k].at])' <=> Renames(created[done[k].at])
                              /\ NewName(created[done[k].at])' = NewName(created[done[k].at])
  BY DEF Renames, NewName, GetFilename, Suffix
<1>2. Allowed' = Allowed
  BY DEF Allowed
<1> QED BY <1>1, <1>2 DEF DoneInv

LEMMA RenameFailsStep ==
  ASSUME RotatingIInv, RenameFails
  PROVE  RotatingIInv'
<1>1. /\ pc = "rename" /\ left > 0 /\ pc' = "undo"
      /\ IF created[left] \notin DOMAIN f.disk THEN spent' = spent ELSE Fault
      /\ cfg' = cfg /\ created' = created /\ nextRotation' = nextRotation /\ now' = now
      /\ cur' = cur /\ why' = why /\ opened' = opened /\ f' = f /\ left' = left /\ done' = done
  BY DEF RenameFails, call
<1>2. Renaming /\ Renaming'
  BY <1>1 DEF Renaming
<1>3. SpentInv /\ left \in 1..left /\ opened' \in Nat /\ f'.file = "closed" /\ pc # "down"
  BY <1>1, <1>2, RenamingFacts
<1>4. SpentStep /\ ~NoFault'
  <2>1. CASE created[left] \notin DOMAIN f.disk
    <3>1. ~NoFault
      BY <1>1, <1>3, <2>1 DEF RotatingIInv, RenameInv
    <3> QED BY <1>1, <1>3, <2>1, <3>1, SpentSame
  <2>2. CASE created[left] \in DOMAIN f.disk
    BY <1>1, <1>3, <2>2, SpentFault
  <2> QED BY <2>1, <2>2
<1>5. CallInv'
  BY <1>1, <1>2, <1>3, <1>4, RenamingCall
<1>6. RenameInv'
  <2>1. DoneInv
    BY <1>2 DEF RotatingIInv, RenameInv
  <2>2. DoneInv'
    BY <1>1, <2>1, SameDone
  <2> QED BY <1>1, <1>4, <2>2 DEF RenameInv
<1>7. Kept' \subseteq Kept
  BY <1>4 DEF Kept
<1>8. FileInv(f', Kept, Allowed, RecordsOf(Known), RecordsOf(InFile), RecordsOf(Unwritten))
  BY <1>1, FileFits
<1>9. pc' # "append" /\ pc' \in {"ready", "rotate", "rename", "undo", "append"}
  BY <1>1
<1> QED BY <1>1, <1>3, <1>4, <1>5, <1>6, <1>7, <1>8, <1>9, CallStep

\* Two files do not get the same name.
LEMMA NewNamesDiffer ==
  ASSUME RotatingIInv, pc # "down", Enabled, NEW i \in 1..Len(created), NEW j \in 1..Len(created), i < j,
         Renames(created[i]), Renames(created[j])
  PROVE  NewName(created[i]) # NewName(created[j])
<1> DEFINE m == NewName(created[i])  n == NewName(created[j])
<1>1. ListInv /\ SpentInv /\ created[i] \in Allowed /\ created[j] \in Allowed
  <2>1. created \in Seq(Allowed)
    BY DEF RotatingIInv, ListInv
  <2> QED BY <2>1 DEF RotatingIInv
<1>2. /\ created[i].date \in Nat /\ created[i].index \in Nat
      /\ created[j].date \in Nat /\ created[j].index \in Nat
  BY <1>1 DEF Allowed, Name, Base
<1>3. created[i].date = created[j].date => created[i].index < created[j].index
  BY <1>1 DEF ListInv, InOrder
<1>4. created[j] # Base
  BY ListIsDistinct
<1>5. /\ m = [date |-> Suffix(opened), index |-> IF cfg.scheme = "Index" \/ created[i].date = Suffix(opened)
                                                THEN created[i].index + 1 ELSE created[i].index]
      /\ n = [date |-> Suffix(opened), index |-> IF cfg.scheme = "Index" \/ created[j].date = Suffix(opened)
                                                THEN created[j].index + 1 ELSE created[j].index]
  BY DEF NewName, GetFilename
<1>6. /\ created[j].date = n.date /\ n.date = m.date
      /\ created[i].date # m.date => m.index = 0
  BY <1>1, <1>4, NewNameFacts
<1>7. m.date = Suffix(opened) /\ n.date = Suffix(opened)
  BY <1>5
<1>8. n.index = created[j].index + 1
  BY <1>5, <1>6, <1>7
<1>9. created[i].date = m.date => m.index = created[i].index + 1
  BY <1>5, <1>7
<1> HIDE DEF m, n
<1>10. m.index # n.index
  <2>1. PICK a \in Nat, b \in Nat : a = created[i].index /\ b = created[j].index
    BY <1>2
  <2>2. n.index = b + 1 /\ (m.index = 0 \/ (m.index = a + 1 /\ created[i].date = m.date))
    BY <1>6, <1>8, <1>9, <2>1
  <2>3. created[i].date = m.date => a < b
    BY <1>3, <1>6, <2>1
  <2>4. n.index # 0 /\ (a < b => a + 1 # n.index)
    BY <2>2
  <2> QED BY <2>2, <2>3, <2>4
<1> QED BY <1>10 DEF m, n

LEMMA FaultSets ==
  ASSUME ~NoFault
  PROVE  InFile = Known /\ Kept = {} /\ Unwritten = Known
BY DEF InFile, OnTime, Kept, Unwritten

LEMMA UndoStep ==
  ASSUME RotatingIInv, Undo
  PROVE  RotatingIInv'
<1> DEFINE d == Last(done)  to == d.to  from == d.from  h == [f EXCEPT !.disk = Moved(@, to, from)]
<1>1. /\ pc = "undo" /\ done # <<>> /\ pc' = "undo" /\ done' = Front(done)
      /\ \/ f' = h /\ spent' = spent
         \/ Fault /\ f' = f
      /\ cfg' = cfg /\ created' = created /\ nextRotation' = nextRotation /\ now' = now
      /\ cur' = cur /\ why' = why /\ opened' = opened /\ left' = left
  BY DEF Undo
<1>2. Renaming /\ Renaming'
  BY <1>1 DEF Renaming
<1>3. /\ SpentInv /\ opened' \in Nat /\ f.file = "closed" /\ Enabled /\ pc # "down"
      /\ Len(created) \in Nat /\ left \in Nat /\ DoneInv /\ ~NoFault
  BY <1>1, <1>2, RenamingFacts DEF RotatingIInv, RenameInv
<1>4. SpentStep /\ ~NoFault'
  <2>1. CASE spent' = spent
    BY <1>3, <2>1, SpentSame
  <2>2. CASE Fault
    BY <1>3, <2>2, SpentFault
  <2> QED BY <1>1, <2>1, <2>2
<1>5. PICK n \in Nat : n + 1 = Len(done)
  <2>1. PICK S : done \in Seq(S)
    BY <1>3 DEF DoneInv
  <2>2. Len(done) \in Nat /\ Len(done) # 0
    BY <1>1, <2>1, EmptySeq
  <2>3. PICK m \in Nat : m = Len(done) /\ m # 0
    BY <2>2
  <2>4. m - 1 \in Nat /\ (m - 1) + 1 = m
    BY <2>3
  <2> HIDE DEF d
  <2>5. \E n \in Nat : n + 1 = m
    BY <2>4
  <2> QED BY <2>3, <2>5
<1>6. /\ n + 1 \in 1..Len(done) /\ d = done[n + 1]
      /\ Len(done') = n /\ \A k \in 1..n : done'[k] = done[k] /\ k \in 1..Len(done) /\ k < n + 1
      /\ done' \in Seq([from : Allowed, to : Allowed, at : Nat])
  <2> DEFINE D == [from : Allowed, to : Allowed, at : Nat]
  <2>1. done \in Seq(D)
    BY <1>3 DEF DoneInv
  <2>2. done' = SubSeq(done, 1, n)
    BY <1>1, <1>5 DEF Front
  <2>3. d = done[n + 1]
    BY <1>5 DEF Last
  <2> HIDE DEF D, d
  <2>4. done' \in Seq(D) /\ Len(done') = n /\ \A k \in 1..n : done'[k] = done[k]
    BY <1>5, <2>1, <2>2
  <2> QED BY <1>5, <2>3, <2>4 DEF D
<1>7. /\ from \in Allowed /\ to \in DOMAIN f.disk
      /\ \A k \in 1..n : done[k].to # to
  <2>1. done \in Seq([from : Allowed, to : Allowed, at : Nat])
    BY <1>3 DEF DoneInv
  <2>2. done[n + 1] \in [from : Allowed, to : Allowed, at : Nat]
    BY <1>6, <2>1, ElementOfSeq
  <2>3. from \in Allowed /\ to \in DOMAIN f.disk
    BY <1>3, <1>6, <2>2 DEF DoneInv
  <2>4. ASSUME NEW k \in 1..n PROVE done[k].to # to
    <3> DEFINE i == d.at  j == done[k].at
    <3>1. /\ i \in (left + 1)..Len(created) /\ j \in (left + 1)..Len(created) /\ j > i
          /\ Renames(created[i]) /\ Renames(created[j])
          /\ to = NewName(created[i]) /\ done[k].to = NewName(created[j])
      BY <1>3, <1>6 DEF DoneInv
    <3> HIDE DEF i, j, to
    <3>2. i \in 1..Len(created) /\ j \in 1..Len(created) /\ i < j
      BY <1>3, <3>1
    <3> QED BY <1>3, <3>1, <3>2, NewNamesDiffer
  <2> QED BY <2>3, <2>4
<1> HIDE DEF d, from, to
<1>8. /\ FileInv(f', Kept, Allowed, RecordsOf(Known), RecordsOf(InFile), RecordsOf(Unwritten))
      /\ f'.file = "closed"
      /\ \A k \in 1..n : done[k].to \in DOMAIN f'.disk
  <2>1. \A k \in 1..n : done[k].to \in DOMAIN f.disk
    BY <1>3, <1>6 DEF DoneInv
  <2>2. FileInv(f, Kept, Allowed, RecordsOf(Known), RecordsOf(InFile), RecordsOf(Unwritten))
    BY FileFits
  <2>3. RecordsOf(Known) \subseteq RecordsOf(InFile)
    BY <1>3, FaultSets
  <2>4. to \in DOMAIN f.disk /\ from \in Allowed /\ f.file = "closed"
    BY <1>3, <1>7
  <2>5. /\ FileInv(h, {}, Allowed, RecordsOf(Known), RecordsOf(InFile), RecordsOf(Unwritten))
        /\ h.file = "closed" /\ DOMAIN h.disk = (DOMAIN f.disk \ {to}) \cup {from}
    BY <2>2, <2>3, <2>4, MovedInv
  <2>6. FileInv(h, Kept, Allowed, RecordsOf(Known), RecordsOf(InFile), RecordsOf(Unwritten))
    BY <1>3, <2>5, FaultSets
  <2> HIDE DEF h
  <2> QED BY <1>1, <1>3, <1>7, <2>1, <2>2, <2>5, <2>6
<1>9. CallInv'
  BY <1>1, <1>2, <1>3, <1>4, <1>8, RenamingCall
<1>10. RenameInv'
  <2>1. \A k \in 1..Len(done') :
          /\ Renames(created[done[k].at])' <=> Renames(created[done'[k].at])
          /\ NewName(created[done[k].at])' = NewName(created[done'[k].at])
    BY <1>1 DEF Renames, NewName, GetFilename, Suffix
  <2>2. \A k \in 1..n : /\ done[k].at \in (left + 1)..Len(created)
                        /\ Renames(created[done[k].at]) /\ done[k].to = NewName(created[done[k].at])
                        /\ done[k].from = created[done[k].at]
    BY <1>3, <1>6 DEF DoneInv
  <2>3. \A k, l \in 1..n : k < l => done[k].at > done[l].at
    BY <1>3, <1>6 DEF DoneInv
  <2>4. Allowed' = Allowed /\ left \in 0..Len(created)
    BY <1>1, <1>3 DEF Allowed, DoneInv
  <2>5. \A k \in 1..Len(done') :
          /\ done'[k].at \in (left + 1)..Len(created)
          /\ Renames(created[done[k].at])' /\ done'[k].to = NewName(created[done[k].at])'
          /\ done'[k].from = created[done'[k].at] /\ done'[k].to \in DOMAIN f'.disk
    BY <1>6, <1>8, <2>1, <2>2
  <2>6. \A k, l \in 1..Len(done') : k < l => done'[k].at > done'[l].at
    BY <1>6, <2>3
  <2>7. done' \in Seq([from : Allowed', to : Allowed', at : Nat])
    BY <1>6, <2>4
  <2>8. DoneInv'
    BY <1>1, <2>4, <2>5, <2>6, <2>7 DEF DoneInv
  <2> QED BY <1>1, <1>4, <2>8 DEF RenameInv
<1>11. Kept' \subseteq Kept
  BY <1>4 DEF Kept
<1>12. pc' # "append" /\ pc' \in {"ready", "rotate", "rename", "undo", "append"}
  BY <1>1
<1> QED BY <1>1, <1>3, <1>4, <1>8, <1>9, <1>10, <1>11, <1>12, CallStep

LEMMA MadeInv ==
  ASSUME NEW g, NEW M, NEW N, NEW A, NEW B, NEW E, FileInv(g, M, N, A, B, E)
  PROVE  /\ FileInv(Constructed(g, cfg.file), M, N, A, B, E) /\ Constructed(g, cfg.file).file = g.file
         /\ FileInv(Made(g), M, N, A, B, E) /\ Made(g).file = g.file
<1> DEFINE due == HeaderIsDue(g, cfg.file)  h == [g EXCEPT !.due = due]
<1>1. DOMAIN g = Fields
  BY DEF FileInv
<1> HIDE DEF due
<1>2. DOMAIN h = Fields /\ h.disk = g.disk /\ h.file = g.file /\ h.pending = g.pending /\ h.wrote = g.wrote
  BY <1>1 DEF Fields
<1>3. Constructed(g, cfg.file) = h
  BY DEF Constructed, due
<1> HIDE DEF h
<1>4. FileInv(h, M, N, A, B, E)
  BY <1>2, OtherFields
<1> QED BY <1>2, <1>3, <1>4 DEF Made

\* A step after which there is no sink.
LEMMA DownWithList ==
  ASSUME RotatingIInv, SpentStep, cfg' = cfg, now' = now, nextRotation' \in Nat, opened' \in Nat,
         pc' = "down", created' \in Seq(Allowed), InOrder(created)', f'.file = "closed",
         NEW M, Kept' \subseteq M,
         FileInv(f', M, Allowed, RecordsOf(Known), RecordsOf(InFile), RecordsOf(Unwritten))
  PROVE  RotatingIInv'
<1>1. SpentInv /\ Boundary
  BY DEF RotatingIInv
<1>2. /\ spent.first <= spent.records + 1 /\ spent.records \in Nat /\ spent'.records \in Nat
      /\ spent'.records >= spent.records /\ spent'.first = spent.first /\ spent.first \in Nat
  BY <1>1 DEF SpentInv, SpentStep
<1>3. SpentInv'
  <2>1. PICK a \in Nat, b \in Nat, c \in Nat : a = spent.records /\ b = spent'.records /\ c = spent.first
    BY <1>2
  <2>2. c <= a + 1 /\ b >= a
    BY <1>2, <2>1
  <2>3. c <= b + 1
    BY <2>2
  <2>4. spent'.first <= spent'.records + 1
    BY <1>2, <2>1, <2>3
  <2> QED BY <1>1, <2>4 DEF SpentInv, SpentStep
<1>4. Allowed' = Allowed /\ ~Live'
  BY DEF Allowed, Live
<1>5. ListInv'
  BY <1>4 DEF ListInv
<1>6. CallInv' /\ RenameInv' /\ Boundary'
  BY <1>4 DEF CallInv, RenameInv, Boundary, Renaming
<1>7. Known \subseteq Known' /\ InFile' = Known'
  <2>1. (0..spent.records) \subseteq 0..spent'.records
    BY <1>2
  <2>2. ~OnTime'
    BY <1>4 DEF OnTime
  <2> QED BY <1>4, <2>1, <2>2 DEF Known, InFile
<1>8. InFile \subseteq InFile'
  BY <1>7 DEF InFile
<1>9. Unwritten \subseteq Unwritten'
  BY <1>1, <1>7, PairFacts DEF Unwritten, SpentStep
<1>10. DiskFits'
  BY <1>4, <1>7, <1>8, <1>9, DiskStillFits
<1> QED BY <1>3, <1>5, <1>6, <1>10 DEF RotatingIInv

LEMMA DownStep ==
  ASSUME RotatingIInv, SpentStep, cfg' = cfg, now' = now, nextRotation' \in Nat, opened' \in Nat,
         pc' = "down", created' = created \/ created' = <<>>, f'.file = "closed",
         NEW M, Kept' \subseteq M,
         FileInv(f', M, Allowed, RecordsOf(Known), RecordsOf(InFile), RecordsOf(Unwritten))
  PROVE  RotatingIInv'
<1>1. created \in Seq(Allowed) /\ InOrder(created)
  BY DEF RotatingIInv, ListInv
<1>2. created' \in Seq(Allowed)
  BY <1>1, EmptySeq
<1>3. InOrder(created)'
  BY <1>1 DEF InOrder
<1> QED BY <1>2, <1>3, DownWithList

LEMMA AbortStep ==
  ASSUME RotatingIInv, Abort
  PROVE  RotatingIInv'
<1> DEFINE g == OpenFile(f, cfg.file, ReopenMode)  h == [g EXCEPT !.size = FileSize(g.disk, Base)]
<1>1. /\ pc = "undo" /\ done = <<>>
      /\ \/ f' = Made(h) /\ AfterRotation /\ spent' = spent
         \/ Fault /\ f' = f /\ AfterThrow
      /\ cfg' = cfg /\ created' = created /\ nextRotation' = nextRotation /\ now' = now /\ opened' = opened
  BY DEF Abort
<1>2. Renaming
  BY <1>1 DEF Renaming
<1>3. /\ SpentInv /\ opened' \in Nat /\ nextRotation' \in Nat /\ f.file = "closed" /\ pc # "down" /\ ~NoFault
      /\ (why # "start" => CurFacts)
  BY <1>1, <1>2, RenamingFacts DEF RotatingIInv, RenameInv, SpentInv
<1>4. SpentStep /\ ~NoFault'
  <2>1. CASE spent' = spent
    BY <1>3, <2>1, SpentSame
  <2>2. CASE Fault
    BY <1>3, <2>2, SpentFault
  <2> QED BY <1>1, <2>1, <2>2
<1>5. Kept' \subseteq Kept /\ ~OnTime'
  BY <1>4 DEF Kept, OnTime
<1>6. CASE f' = Made(h) /\ AfterRotation
  <2>1. FileInv(g, Kept, Allowed, RecordsOf(Known), RecordsOf(InFile), RecordsOf(Unwritten))
    BY <1>3, FileFits, OpenInv
  <2> HIDE DEF g
  <2>2. FileInv(h, Kept, Allowed, RecordsOf(Known), RecordsOf(InFile), RecordsOf(Unwritten))
    BY <2>1, SizedInv
  <2> HIDE DEF h
  <2>3. FileInv(f', Kept, Allowed, RecordsOf(Known), RecordsOf(InFile), RecordsOf(Unwritten))
    BY <1>6, <2>2, MadeInv
  <2>4. \/ why = "start" /\ pc' = "ready"
        \/ why # "start" /\ pc' = "append" /\ why' = why /\ cur' = cur
    BY <1>6 DEF AfterRotation, call
  <2>5. pc' = "append" => why' # "start" /\ CurFacts'
    <3> SUFFICES ASSUME pc' = "append" PROVE why' # "start" /\ CurFacts'
      OBVIOUS
    <3>1. why # "start" /\ why' = why /\ cur' = cur
      BY <2>4
    <3>2. pc \in {"rotate", "rename", "undo", "append"} /\ pc' # "down"
      BY <1>1
    <3> QED BY <1>1, <1>4, <3>1, <3>2, CallKeepsCur
  <2>6. CallInv' /\ RenameInv'
    BY <1>4, <2>4, <2>5 DEF CallInv, RenameInv, Renaming
  <2>7. pc' \in {"ready", "rotate", "rename", "undo", "append"}
    BY <2>4
  <2> QED BY <1>1, <1>3, <1>4, <1>5, <2>3, <2>6, <2>7, CallStep
<1>7. CASE f' = f /\ AfterThrow
  <2>1. FileInv(f', Kept, Allowed, RecordsOf(Known), RecordsOf(InFile), RecordsOf(Unwritten))
    BY <1>7, FileFits
  <2>2. pc' = "down" \/ pc' = "ready"
    BY <1>7 DEF AfterThrow
  <2>3. CASE pc' = "down"
    BY <1>1, <1>3, <1>4, <1>5, <1>7, <2>1, <2>3, DownStep
  <2>4. CASE pc' = "ready"
    <3>1. CallInv' /\ RenameInv'
      BY <1>4, <2>4 DEF CallInv, RenameInv, Renaming
    <3> QED BY <1>1, <1>3, <1>4, <1>5, <2>1, <2>4, <3>1, CallStep
  <2> QED BY <2>2, <2>3, <2>4
<1> QED BY <1>1, <1>6, <1>7

-----------------------------------------------------------------------------
(***************************************************************************)
(* Between the calls.                                                      *)
(***************************************************************************)

LEMMA FlushStep ==
  ASSUME RotatingIInv, Flush
  PROVE  RotatingIInv'
<1>1. /\ pc = "ready" /\ pc' = "ready" /\ f.file # "closed"
      /\ \/ f' = FlushSink(f, cfg.file) /\ spent' = spent
         \/ Fault /\ f' \in FlushThrows(f, cfg.file)
      /\ cfg' = cfg /\ created' = created /\ nextRotation' = nextRotation /\ now' = now /\ opened' = opened
  BY DEF Flush
<1>2. SpentInv /\ opened' \in Nat
  BY <1>1 DEF RotatingIInv, SpentInv
<1>3. SpentStep /\ (NoFault' => f' = FlushSink(f, cfg.file))
  <2>1. CASE f' = FlushSink(f, cfg.file) /\ spent' = spent
    BY <1>2, <2>1, SpentSame
  <2>2. CASE Fault
    BY <1>2, <2>2, SpentFault
  <2> QED BY <1>1, <2>1, <2>2
<1>4. /\ FileInv(f', Kept, Allowed, RecordsOf(Known), RecordsOf(InFile), RecordsOf(Unwritten))
      /\ f' = FlushSink(f, cfg.file) => f'.file # "closed"
  BY <1>1, FileFits, FlushInv, FlushThrowsInv
<1>5. CallInv' /\ RenameInv'
  BY <1>1, <1>3, <1>4 DEF CallInv, RenameInv, Renaming
<1>6. Kept' \subseteq Kept
  BY <1>1, <1>3 DEF Kept, Renaming, SpentStep
<1>7. pc # "down" /\ pc' # "append" /\ pc' \in {"ready", "rotate", "rename", "undo", "append"}
  BY <1>1
<1> QED BY <1>1, <1>2, <1>3, <1>4, <1>5, <1>6, <1>7, CallStep

LEMMA DeleteFileStep ==
  ASSUME RotatingIInv, DeleteFile
  PROVE  RotatingIInv'
<1>1. /\ pc = "ready" /\ pc' = "ready" /\ spent' = [spent EXCEPT !.deletes = @ + 1] /\ f' = Deleted(f)
      /\ cfg' = cfg /\ created' = created /\ nextRotation' = nextRotation /\ now' = now /\ opened' = opened
  BY DEF DeleteFile, call
<1>2. SpentInv /\ opened' \in Nat
  BY <1>1 DEF RotatingIInv, SpentInv
<1>3. SpentStep
  <2>1. /\ spent' \in [records : Nat, starts : Nat, faults : Nat, deletes : Nat, stale : Nat, first : Nat]
        /\ spent'.records = spent.records /\ spent'.first = spent.first /\ spent'.faults = spent.faults
        /\ spent.records \in Nat
    BY <1>1, <1>2 DEF SpentInv
  <2> QED BY <2>1 DEF SpentStep, NoFault
<1>4. Base \notin Kept
  BY DEF Kept
<1>5. /\ FileInv(f', Kept, Allowed, RecordsOf(Known), RecordsOf(InFile), RecordsOf(Unwritten))
      /\ f'.file = "unlinked"
  BY <1>1, <1>4, FileFits, DeletedInv
<1>6. CallInv' /\ RenameInv'
  BY <1>1, <1>5 DEF CallInv, RenameInv, Renaming
<1>7. Kept' \subseteq Kept
  BY <1>1, <1>3 DEF Kept, Renaming, SpentStep
<1>8. pc # "down" /\ pc' # "append" /\ pc' \in {"ready", "rotate", "rename", "undo", "append"}
  BY <1>1
<1> QED BY <1>1, <1>2, <1>3, <1>5, <1>6, <1>7, <1>8, CallStep

LEMMA CrashStep ==
  ASSUME RotatingIInv, Crash
  PROVE  RotatingIInv'
<1>1. /\ f' = Killed(f) /\ pc' = "down" /\ created' = <<>> /\ nextRotation' = 0 /\ opened' = 0
      /\ cfg' = cfg /\ now' = now /\ spent' = spent
  BY DEF Crash
<1>2. SpentStep
  BY <1>1, SpentSame DEF RotatingIInv
<1>3. /\ FileInv(f', Kept, Allowed, RecordsOf(Known), RecordsOf(InFile), RecordsOf(Unwritten))
      /\ f'.file = "closed"
  BY <1>1, FileFits, KilledInv
<1>4. Kept' \subseteq Kept
  BY <1>1 DEF Kept, Range
<1>5. nextRotation' \in Nat /\ opened' \in Nat
  BY <1>1
<1> QED BY <1>1, <1>2, <1>3, <1>4, <1>5, DownStep

LEMMA ShutdownStep ==
  ASSUME RotatingIInv, Shutdown
  PROVE  RotatingIInv'
<1> DEFINE g == CloseFile(f, cfg.file)
<1>1. /\ pc' = "down" /\ created' = <<>> /\ nextRotation' = 0 /\ opened' = 0
      /\ cfg' = cfg /\ now' = now
      /\ \/ f' = Killed(g) /\ spent' = spent
         \/ Fault /\ f' = Killed(f)
  BY DEF Shutdown
<1>2. SpentStep
  BY <1>1, SpentSame, SpentFault DEF RotatingIInv
<1>3. FileInv(g, Kept, Allowed, RecordsOf(Known), RecordsOf(InFile), RecordsOf(Unwritten))
  BY FileFits, CloseInv
<1> HIDE DEF g
<1>4. /\ FileInv(f', Kept, Allowed, RecordsOf(Known), RecordsOf(InFile), RecordsOf(Unwritten))
      /\ f'.file = "closed"
  BY <1>1, <1>3, FileFits, KilledInv
<1>5. Kept' \subseteq Kept
  BY <1>1 DEF Kept, Range
<1>6. nextRotation' \in Nat /\ opened' \in Nat
  BY <1>1
<1> QED BY <1>1, <1>2, <1>4, <1>5, <1>6, DownStep

LEMMA TickStep ==
  ASSUME RotatingIInv, Tick
  PROVE  RotatingIInv'
<1>1. /\ pc \in {"ready", "down"} /\ now' = now + 1 /\ pc' = pc /\ f' = f /\ spent' = spent
      /\ cfg' = cfg /\ created' = created /\ nextRotation' = nextRotation /\ opened' = opened
  BY DEF Tick
<1>2. SpentInv /\ ListInv /\ Boundary /\ CallInv /\ now \in Nat /\ nextRotation \in Nat
  BY DEF RotatingIInv, SpentInv
<1>3. SpentInv'
  BY <1>1, <1>2 DEF SpentInv
<1>4. /\ Allowed' = Allowed /\ Live' = Live /\ Refused' = Refused /\ Enabled' = Enabled /\ Period' = Period
      /\ NoFault' = NoFault /\ Kept' = Kept /\ OnBoundary(nextRotation)' = OnBoundary(nextRotation)
  BY <1>1 DEF Allowed, Live, Enabled, Refused, Period, NoFault, Kept, Renaming, OnBoundary
<1>5. ListInv'
  <2>1. InOrder(created)' = InOrder(created)
    BY <1>1 DEF InOrder
  <2> QED BY <1>1, <1>2, <1>4, <2>1 DEF ListInv
<1>6. CallInv' /\ RenameInv'
  BY <1>1, <1>2, <1>4 DEF CallInv, RenameInv, Renaming
<1>7. Boundary'
  <2> SUFFICES ASSUME Live PROVE nextRotation - Period <= now + 1
    BY <1>1, <1>2, <1>4 DEF Boundary
  <2>1. Period \in Int
    <3>1. cfg.interval \in Nat /\ cfg.unit \in Nat /\ DayLength \in Nat
      BY <1>2, ConfigFacts DEF SpentInv
    <3>2. cfg.interval * cfg.unit \in Nat
      BY <3>1
    <3> QED BY <3>1, <3>2 DEF Period
  <2>2. nextRotation - Period <= now
    BY <1>2 DEF Boundary
  <2> QED BY <1>2, <2>1, <2>2
<1>8. Known \subseteq Known'
  <2>1. (0..now) \subseteq 0..now'
    BY <1>1, <1>2
  <2> QED BY <1>1, <1>4, <2>1 DEF Known
<1>9. InFile \subseteq InFile'
  <2>1. OnTime' = OnTime
    BY <1>1, <1>4 DEF OnTime
  <2>2. \A k : Recent(k)' = Recent(k)
    BY <1>1, <1>4 DEF Recent
  <2> QED BY <1>8, <2>1, <2>2 DEF InFile
<1>10. Unwritten \subseteq Unwritten'
  BY <1>4, <1>8 DEF Unwritten
<1>11. FileInv(f', Kept, Allowed, RecordsOf(Known), RecordsOf(InFile), RecordsOf(Unwritten))
  BY <1>1, FileFits
<1>12. DiskFits'
  BY <1>4, <1>8, <1>9, <1>10, <1>11, DiskStillFits
<1> QED BY <1>3, <1>5, <1>6, <1>7, <1>12 DEF RotatingIInv

-----------------------------------------------------------------------------
(***************************************************************************)
(* The rotation times.                                                     *)
(***************************************************************************)

LEMMA DivFacts ==
  ASSUME NEW a \in Nat, NEW b \in Nat, b > 0
  PROVE  a \div b \in Nat /\ (a \div b) * b <= a /\ a < (a \div b) * b + b
OBVIOUS

LEMMA ModFacts ==
  ASSUME NEW k \in Nat, NEW b \in Nat, NEW d \in Nat, d < b
  PROVE  (k * b + d) % b = d
OBVIOUS

LEMMA ProductFacts ==
  ASSUME NEW a \in Nat, NEW b \in Nat
  PROVE  /\ a * b \in Nat
         /\ (a + 1) * b = a * b + b
         /\ a > 0 /\ b > 0 => a * b > 0
         /\ \A c \in Nat : (a + c) * b = a * b + c * b /\ a * (b * c) = (a * b) * c
OBVIOUS

LEMMA PeriodFacts ==
  ASSUME cfg \in Configs, Rotates(cfg)
  PROVE  /\ Period \in Nat /\ Period > 0
         /\ Period = IF cfg.frequency = "daily" THEN DayLength ELSE cfg.interval * cfg.unit
<1>1. /\ cfg.unit \in Nat /\ cfg.unit > 0 /\ cfg.interval \in Nat /\ DayLength \in Nat /\ DayLength > 0
      /\ cfg.frequency # "daily" => cfg.interval > 0
  BY ConfigFacts DEF Rotates
<1>2. cfg.interval * cfg.unit \in Nat /\ (cfg.interval > 0 => cfg.interval * cfg.unit > 0)
  BY <1>1, ProductFacts
<1> QED BY <1>1, <1>2 DEF Period

LEMMA NextDailyFacts ==
  ASSUME cfg \in Configs, cfg.frequency = "daily", NEW t \in Nat
  PROVE  /\ NextDaily(t) \in Nat /\ NextDaily(t) > t /\ NextDaily(t) - DayLength <= t
         /\ \E k \in Nat : NextDaily(t) = k * DayLength + cfg.daily
<1>1. DayLength \in Nat /\ DayLength > 0 /\ cfg.daily \in Nat /\ cfg.daily < DayLength
  BY ConfigFacts
<1>2. PICK q \in Nat : q = t \div DayLength
  BY <1>1, DivFacts
<1>3. PICK p \in Nat : p = q * DayLength
  BY <1>1, ProductFacts
<1>4. p <= t /\ t < p + DayLength
  BY <1>1, <1>2, <1>3, DivFacts
<1>5. NextDaily(t) = IF p + cfg.daily <= t THEN p + cfg.daily + DayLength ELSE p + cfg.daily
  BY <1>2, <1>3 DEF NextDaily
<1>6. (q + 1) * DayLength = p + DayLength
  BY <1>1, <1>3, ProductFacts
<1>7. CASE p + cfg.daily <= t
  <2>1. NextDaily(t) = (q + 1) * DayLength + cfg.daily
    BY <1>1, <1>5, <1>6, <1>7
  <2>2. q + 1 \in Nat
    OBVIOUS
  <2>3. \E k \in Nat : NextDaily(t) = k * DayLength + cfg.daily
    BY <2>1, <2>2
  <2>4. NextDaily(t) \in Nat /\ NextDaily(t) > t /\ NextDaily(t) - DayLength <= t
    BY <1>1, <1>4, <1>5, <1>7
  <2> QED BY <2>3, <2>4
<1>8. CASE ~(p + cfg.daily <= t)
  <2>1. NextDaily(t) = q * DayLength + cfg.daily
    BY <1>3, <1>5, <1>8
  <2>2. NextDaily(t) \in Nat /\ NextDaily(t) > t /\ NextDaily(t) - DayLength <= t
    BY <1>1, <1>4, <1>5, <1>8
  <2> QED BY <2>1, <2>2
<1> QED BY <1>7, <1>8

\* The next rotation is the first boundary after the record.
LEMMA CalculateRotationFacts ==
  ASSUME cfg \in Configs, Rotates(cfg), NEW p \in Nat, NEW t \in Nat, t >= p, OnBoundary(p)
  PROVE  /\ CalculateRotation(p, t) \in Nat /\ CalculateRotation(p, t) > t
         /\ CalculateRotation(p, t) - Period <= t /\ OnBoundary(CalculateRotation(p, t))
<1>1. CASE cfg.frequency = "daily"
  <2>1. CalculateRotation(p, t) = NextDaily(t) /\ Period = DayLength
    BY <1>1 DEF CalculateRotation, Period
  <2> QED BY <1>1, <2>1, NextDailyFacts DEF OnBoundary
<1>2. CASE cfg.frequency # "daily"
  <2>1. cfg.unit \in Nat /\ cfg.interval \in Nat
    BY ConfigFacts
  <2>2. PICK P \in Nat : P = cfg.interval * cfg.unit /\ P > 0 /\ P = Period
    BY <1>2, PeriodFacts
  <2>3. PICK m \in Nat : t = p + m /\ m = t - p
    <3>1. t - p \in Nat /\ t = p + (t - p)
      OBVIOUS
    <3> QED BY <3>1
  <2>4. PICK q \in Nat : q = m \div P /\ q * P <= m /\ m < q * P + P
    BY <2>2, DivFacts
  <2>5. PICK x \in Nat : x = q * P /\ (q + 1) * P = x + P
    BY ProductFacts
  <2>6. CalculateRotation(p, t) = p + (x + P)
    <3>1. CalculateRotation(p, t) = p + (m \div P + 1) * P
      BY <1>2, <2>2, <2>3 DEF CalculateRotation
    <3> QED BY <2>4, <2>5, <3>1
  <2>7. /\ CalculateRotation(p, t) \in Nat /\ CalculateRotation(p, t) > t
        /\ CalculateRotation(p, t) - Period <= t
    BY <2>2, <2>3, <2>4, <2>5, <2>6
  <2>8. OnBoundary(CalculateRotation(p, t))
    <3>1. PICK k \in Nat : p = k * cfg.unit
      BY <1>2 DEF OnBoundary
    <3>2. PICK n \in Nat : n = (q + 1) * cfg.interval
      BY <2>1, ProductFacts
    <3>3. n * cfg.unit = (q + 1) * P
      <4> DEFINE b == cfg.interval  c == cfg.unit
      <4>1. PICK a \in Nat : a = q + 1
        OBVIOUS
      <4>2. b \in Nat /\ c \in Nat /\ n = a * b /\ P = b * c
        BY <2>1, <2>2, <3>2, <4>1
      <4> HIDE DEF b, c
      <4>3. a * (b * c) = (a * b) * c
        BY <4>2, ProductFacts
      <4>4. n * c = a * P
        BY <4>2, <4>3
      <4> QED BY <4>1, <4>4 DEF c
    <3>4. (k + n) * cfg.unit = k * cfg.unit + n * cfg.unit
      BY <2>1, ProductFacts
    <3>5. CalculateRotation(p, t) = (k + n) * cfg.unit /\ k + n \in Nat
      BY <2>5, <2>6, <3>1, <3>3, <3>4
    <3> QED BY <1>2, <3>5 DEF OnBoundary
  <2> QED BY <2>7, <2>8
<1> QED BY <1>1, <1>2

LEMMA InitialRotationFacts ==
  ASSUME cfg \in Configs, Rotates(cfg), NEW t \in Nat
  PROVE  /\ InitialRotation(t) \in Nat /\ InitialRotation(t) > t
         /\ InitialRotation(t) - Period <= t /\ OnBoundary(InitialRotation(t))
<1>1. CASE cfg.frequency = "daily"
  <2>1. InitialRotation(t) = NextDaily(t) /\ Period = DayLength
    BY <1>1 DEF InitialRotation, Period
  <2>2. NextDaily(t) \in Nat /\ NextDaily(t) > t /\ NextDaily(t) - DayLength <= t
    BY <1>1, NextDailyFacts
  <2> QED BY <1>1, <2>1, <2>2, NextDailyFacts DEF OnBoundary
<1>2. CASE cfg.frequency # "daily"
  <2>1. cfg.unit \in Nat /\ cfg.unit > 0 /\ cfg.interval \in Nat
    BY ConfigFacts
  <2>2. PICK P \in Nat : P = cfg.interval * cfg.unit /\ P > 0 /\ P = Period
    BY <1>2, PeriodFacts
  <2>3. PICK q \in Nat : q = t \div cfg.unit /\ q * cfg.unit <= t /\ t < q * cfg.unit + cfg.unit
    BY <2>1, DivFacts
  <2>4. PICK x \in Nat : x = q * cfg.unit
    BY <2>1, ProductFacts
  <2>5. InitialRotation(t) = x + P
    BY <1>2, <2>2, <2>3, <2>4 DEF InitialRotation
  <2>6. (q + cfg.interval) * cfg.unit = x + P /\ q + cfg.interval \in Nat
    BY <2>1, <2>2, <2>4, ProductFacts
  <2>7. OnBoundary(InitialRotation(t))
    BY <1>2, <2>5, <2>6 DEF OnBoundary
  <2>8. P >= cfg.unit
    <3>1. PICK m \in Nat, u \in Nat : cfg.interval = m + 1 /\ u = cfg.unit
      <4>1. cfg.interval > 0
        BY <1>2, ConfigFacts DEF Rotates
      <4>2. cfg.interval - 1 \in Nat /\ cfg.interval = (cfg.interval - 1) + 1
        BY <2>1, <4>1
      <4> QED BY <2>1, <4>2
    <3>2. PICK y \in Nat : y = m * u /\ (m + 1) * u = y + u
      BY ProductFacts
    <3>3. P = y + u
      BY <2>2, <3>1, <3>2
    <3> QED BY <3>1, <3>3
  <2> QED BY <2>1, <2>2, <2>3, <2>4, <2>5, <2>7, <2>8
<1> QED BY <1>1, <1>2

LEMMA BoundaryModulo ==
  ASSUME cfg \in Configs, Rotates(cfg), NEW t \in Nat, OnBoundary(t)
  PROVE  IF cfg.frequency = "daily" THEN t % DayLength = cfg.daily ELSE t % cfg.unit = 0
<1>1. cfg.unit \in Nat /\ cfg.unit > 0 /\ DayLength \in Nat /\ cfg.daily \in Nat /\ cfg.daily < DayLength
  BY ConfigFacts
<1>2. CASE cfg.frequency = "daily"
  BY <1>1, <1>2, ModFacts DEF OnBoundary
<1>3. CASE cfg.frequency # "daily"
  <2>1. PICK k \in Nat : t = k * cfg.unit
    BY <1>3 DEF OnBoundary
  <2>2. (k * cfg.unit + 0) % cfg.unit = 0
    BY <1>1, ModFacts
  <2>3. k * cfg.unit + 0 = t
    BY <1>1, <2>1
  <2> QED BY <1>3, <2>2, <2>3
<1> QED BY <1>2, <1>3

-----------------------------------------------------------------------------
(***************************************************************************)
(* The end of a write.                                                     *)
(***************************************************************************)

\* The rotation time moves on, and the record may then be in the file.
LEMMA AdvanceStep ==
  ASSUME RotatingIInv, pc = "append", Advance, pc' = "ready", SpentStep, spent'.records = spent.records,
         cfg' = cfg, created' = created, opened' = opened, now' = now
  PROVE  /\ SpentInv' /\ ListInv' /\ Boundary' /\ RenameInv' /\ Allowed' = Allowed
         /\ Known \subseteq Known' /\ InFile \subseteq InFile' /\ Unwritten \subseteq Unwritten'
         /\ cur \in RecordsOf(InFile') /\ Kept' \subseteq Kept
<1>1. /\ SpentInv /\ ListInv /\ Boundary /\ CurFacts /\ cfg \in Configs
      /\ nextRotation \in Nat /\ opened \in Nat /\ now \in Nat
  BY DEF RotatingIInv, CallInv, SpentInv
<1>2. cur \in Record /\ cur.id \in Nat /\ cur.ts \in Nat /\ cur.id <= spent.records /\ cur.ts <= now
      /\ spent.records \in Nat
  BY <1>1 DEF CurFacts, Record, SpentInv
<1>3. /\ Allowed' = Allowed /\ Enabled' = Enabled /\ Live' = Live /\ Refused' = Refused /\ Period' = Period
      /\ Live = (Enabled /\ Rotates(cfg))
  BY DEF Allowed, Enabled, Live, Refused, Period
<1>4. Kept' \subseteq Kept
  BY DEF Kept, Renaming, SpentStep
<1>5. RenameInv'
  BY DEF RenameInv, Renaming
<1>6. Live => Period \in Nat
  BY <1>1, <1>3, PeriodFacts
\* What the next rotation time is.
<1>7. /\ nextRotation' \in Nat /\ (Live => nextRotation' >= nextRotation /\ cur.ts < nextRotation')
      /\ Live => OnBoundary(nextRotation') /\ nextRotation' - Period <= now
      /\ Live /\ Lateness[cfg.scheme] = 0 => nextRotation' - Period <= cur.ts
  <2>1. CASE why = "time"
    <3>1. Live /\ cur.ts >= nextRotation /\ OnBoundary(nextRotation)
      BY <1>1, <2>1 DEF CurFacts, Boundary
    <3>2. nextRotation' = CalculateRotation(nextRotation, cur.ts)
      BY <2>1 DEF Advance
    <3>3. /\ nextRotation' \in Nat /\ nextRotation' > cur.ts
          /\ nextRotation' - Period <= cur.ts /\ OnBoundary(nextRotation')
      BY <1>1, <1>2, <1>3, <3>1, <3>2, CalculateRotationFacts
    <3>4. PICK R \in Nat : R = nextRotation'
      BY <3>3
    <3>5. PICK P \in Nat : P = Period
      BY <1>6, <3>1
    <3>6. R >= nextRotation /\ R - P <= now
      <4>1. PICK t \in Nat : t = cur.ts
        BY <1>2
      <4>2. R > t /\ R - P <= t
        BY <3>3, <3>4, <3>5, <4>1
      <4>3. t >= nextRotation /\ t <= now
        BY <1>2, <3>1, <4>1
      <4> QED BY <1>1, <4>2, <4>3
    <3> QED BY <3>3, <3>4, <3>5, <3>6
  <2>2. CASE why # "time"
    <3>1. nextRotation' = nextRotation /\ (Live => cur.ts < nextRotation)
          /\ (Lateness[cfg.scheme] = 0 => cur.ts = now)
      BY <1>1, <2>2 DEF Advance, CurFacts
    <3>2. Live => OnBoundary(nextRotation) /\ nextRotation - Period <= now
      BY <1>1 DEF Boundary
    <3>3. nextRotation <= nextRotation
      BY <1>1
    <3> QED BY <1>1, <3>1, <3>2, <3>3
  <2> QED BY <2>1, <2>2
<1>8. SpentInv'
  <2>1. pc # "down" /\ pc' \in {"ready", "rotate", "rename", "undo", "append"} /\ opened' \in Nat
    BY <1>1
  <2> QED BY <1>1, <1>7, <2>1, SameSpent
<1>9. ListInv'
  <2>1. InOrder(created)' = InOrder(created)
    BY DEF InOrder
  <2> QED BY <1>1, <1>3, <2>1 DEF ListInv
<1>10. Boundary'
  <2>1. \A t : OnBoundary(t)' <=> OnBoundary(t)
    BY DEF OnBoundary
  <2>2. OnBoundary(nextRotation)' <=> OnBoundary(nextRotation')
    BY DEF OnBoundary
  <2>3. Live => nextRotation' > 0
    <3>1. Live => nextRotation > 0
      BY <1>1 DEF Boundary
    <3> QED BY <1>1, <1>7, <3>1
  <2> QED BY <1>3, <1>7, <2>2, <2>3 DEF Boundary
<1>11. Known \subseteq Known'
  <2> SUFFICES ASSUME NEW k \in Known PROVE k \in Known'
    OBVIOUS
  <2>1. k \in (0..spent.records) \X (0..now) /\ (Live => k[2] < nextRotation)
    BY DEF Known
  <2>2. k[2] \in Nat
    BY <1>1, <2>1
  <2>3. Live => k[2] < nextRotation'
    BY <1>1, <1>7, <2>1, <2>2
  <2> QED BY <1>3, <2>1, <2>3 DEF Known
<1>12. OnTime' => OnTime
  BY <1>3 DEF OnTime, SpentStep
<1>13. InFile \subseteq InFile'
  <2> SUFFICES ASSUME NEW k \in InFile, OnTime' PROVE Recent(k)'
    BY <1>11 DEF InFile
  <2>1. Recent(k) /\ Live
    BY <1>12 DEF InFile, OnTime
  <2>2. spent'.first = spent.first
    BY DEF SpentStep
  <2>3. CASE why = "time"
    <3>1. k[1] < spent.first
      BY <2>1, <2>3 DEF Recent
    <3> QED BY <2>2, <3>1 DEF Recent
  <2>4. CASE why # "time"
    <3>1. nextRotation' = nextRotation
      BY <2>4 DEF Advance
    <3>2. ~(pc' = "append" /\ why' = "time")
      OBVIOUS
    <3> QED BY <1>3, <2>1, <2>2, <3>1, <3>2 DEF Recent
  <2> QED BY <2>3, <2>4
<1>14. Unwritten \subseteq Unwritten'
  BY <1>1, <1>11, PairFacts DEF Unwritten, SpentStep
<1>15. cur \in RecordsOf(InFile')
  <2>1. PICK k : k = <<cur.id, cur.ts>>
    OBVIOUS
  <2>2. k[1] = cur.id /\ k[2] = cur.ts /\ k \in (0..spent.records) \X (0..now)
    BY <1>1, <1>2, <2>1
  <2>3. k \in Known'
    BY <1>3, <1>7, <2>2 DEF Known
  <2>4. OnTime' => Recent(k)'
    <3> SUFFICES ASSUME OnTime' PROVE Recent(k)'
      OBVIOUS
    <3>1. Live /\ Lateness[cfg.scheme] = 0
      BY <1>12 DEF OnTime
    <3>2. nextRotation' - Period <= cur.ts
      BY <1>7, <3>1
    <3>3. PICK x \in Int : x = nextRotation' - Period
      BY <1>6, <1>7, <3>1
    <3>4. cur.ts >= x
      BY <1>2, <3>2, <3>3
    <3>5. k[2] >= nextRotation' - Period'
      BY <1>3, <2>2, <3>3, <3>4
    <3>6. ~(pc' = "append" /\ why' = "time")
      OBVIOUS
    <3> QED BY <3>5, <3>6 DEF Recent
  <2>5. k \in InFile'
    BY <2>3, <2>4 DEF InFile
  <2>6. cur.id # 0 => cur.size > 0
    BY <1>1 DEF CurFacts
  <2> QED BY <1>2, <2>1, <2>5, <2>6 DEF RecordsOf
<1> QED BY <1>3, <1>4, <1>5, <1>8, <1>9, <1>10, <1>11, <1>13, <1>14, <1>15

LEMMA AppendStep ==
  ASSUME RotatingIInv, AppendRecord \/ AppendThrows
  PROVE  RotatingIInv'
<1>1. /\ pc = "append" /\ Advance /\ pc' = "ready"
      /\ cfg' = cfg /\ created' = created /\ opened' = opened /\ now' = now
      /\ \/ f' = WriteStatement(f, cfg.file, cur) /\ spent' = spent
         \/ Fault /\ f' \in WriteThrows(f, cfg.file, cur)
  BY DEF AppendRecord, AppendThrows
<1>2. SpentInv /\ CallInv
  BY DEF RotatingIInv
<1>3. SpentStep /\ spent'.records = spent.records
      /\ (NoFault' => f' = WriteStatement(f, cfg.file, cur) /\ NoFault)
  BY <1>1, <1>2, SpentSame, SpentFault DEF SpentStep
<1>4. /\ SpentInv' /\ ListInv' /\ Boundary' /\ RenameInv' /\ Allowed' = Allowed
      /\ Known \subseteq Known' /\ InFile \subseteq InFile' /\ Unwritten \subseteq Unwritten'
      /\ cur \in RecordsOf(InFile') /\ Kept' \subseteq Kept
  BY <1>1, <1>3, AdvanceStep
<1> DEFINE K == RecordsOf(Known')  I == RecordsOf(InFile')  U == RecordsOf(Unwritten')
<1>5. FileSets(Allowed, K, I, U)
  BY <1>2, <1>4, PairFacts, PairFactsNext, PairsMakeSets DEF RotatingIInv
<1>6. cur \in I /\ (~NoFault' => I \subseteq U)
  <2>1. ~NoFault' => InFile' \subseteq Unwritten'
    BY <1>4, PairFactsNext DEF Unwritten
  <2> QED BY <1>4, <2>1, RecordsOfGrow
<1>7. RecordsOf(Known) \subseteq K /\ RecordsOf(InFile) \subseteq I /\ RecordsOf(Unwritten) \subseteq U
  BY <1>4, RecordsOfGrow
<1>8. K = RecordsOf(Known)' /\ I = RecordsOf(InFile)' /\ U = RecordsOf(Unwritten)'
  BY DEF RecordsOf
<1> HIDE DEF K, I, U
<1>9. FileInv(f, Kept', Allowed, K, I, U)
  BY <1>4, <1>7, FileFits, FileInvWeaker
<1>10. FileInv(f', Kept', Allowed, K, I, U)
       /\ (f' = WriteStatement(f, cfg.file, cur) => f'.file = f.file)
  <2>1. cfg.file \in FileSinkConfig
    BY FileFits
  <2>2. CASE f' = WriteStatement(f, cfg.file, cur)
    BY <1>5, <1>6, <1>9, <2>1, <2>2, WriteInv
  <2>3. CASE f' # WriteStatement(f, cfg.file, cur)
    <3>1. f' \in WriteThrows(f, cfg.file, cur) /\ I \subseteq U
      BY <1>1, <1>3, <1>6, <2>3
    <3> QED BY <1>5, <1>6, <1>9, <2>1, <2>3, <3>1, WriteThrowsInv
  <2> QED BY <2>2, <2>3
<1>11. CallInv'
  <2>1. NoFault' => f'.file # "closed"
    BY <1>1, <1>2, <1>3, <1>10 DEF CallInv
  <2> QED BY <1>1, <2>1 DEF CallInv, Renaming
<1>12. DiskFits'
  BY <1>4, <1>8, <1>10 DEF DiskFits
<1> QED BY <1>4, <1>11, <1>12 DEF RotatingIInv

-----------------------------------------------------------------------------
(***************************************************************************)
(* The end of a rotation.                                                  *)
(***************************************************************************)

\* The names after the renames, in the order of the list.
LEMMA AfterFacts ==
  ASSUME RotatingIInv, Renaming, NEW i \in 1..Len(created)
  PROVE  /\ After(i) \in Allowed /\ After(i) # Base /\ (After(i).date = 0 => After(i).index > 0)
         /\ \A j \in 1..Len(created) :
              i < j => /\ After(i).date = After(j).date => After(i).index < After(j).index
                       /\ After(i) # After(j)
<1>1. /\ SpentInv /\ Enabled /\ pc # "down" /\ Len(created) \in Nat
      /\ \A k \in 1..Len(created) : created[k] \in Allowed
  BY RenamingFacts
<1>2. \A n \in Allowed : n.date \in Nat /\ n.index \in Nat
  BY DEF Allowed, Name, Base
<1>3. \A k \in 1..Len(created) :
        /\ ~Renames(created[k]) => After(k) = created[k] /\ created[k] # Base
        /\ Renames(created[k]) => After(k) = NewName(created[k])
        /\ After(k) \in Allowed /\ After(k) # Base
  BY <1>1, BaseRenames, NewNameFacts DEF After
<1>4. After(i).date = 0 => After(i).index > 0
  <2>1. PICK n \in Allowed : n = After(i) /\ n # Base
    BY <1>3
  <2>2. n.date = 0 => n.index > 0
    BY <2>1 DEF Allowed
  <2> QED BY <2>1, <2>2
<1>5. ASSUME NEW j \in 1..Len(created), i < j
      PROVE  After(i).date = After(j).date => After(i).index < After(j).index
  <2> SUFFICES ASSUME After(i).date = After(j).date PROVE After(i).index < After(j).index
    OBVIOUS
  <2>1. created[i].date = created[j].date => created[i].index < created[j].index
    BY <1>5 DEF RotatingIInv, ListInv, InOrder
  <2>2. created[j] # Base
    BY <1>1, <1>5, ListIsDistinct
  <2>3. \A k \in 1..Len(created) : ~Renames(created[k]) => created[k].date # Suffix(opened)
    BY DEF Renames
  <2>4. \A k \in 1..Len(created) : Renames(created[k]) => After(k).date = Suffix(opened)
    BY <1>1, <1>3, NewNameFacts
  <2>5. CASE ~Renames(created[i])
    <3>1. ~Renames(created[j])
      BY <1>3, <2>3, <2>4, <2>5
    <3> QED BY <1>3, <2>1, <2>5, <3>1
  <2>6. CASE Renames(created[i])
    <3>1. Renames(created[j])
      BY <1>3, <2>3, <2>4, <2>6
    <3> DEFINE m == NewName(created[i])  n == NewName(created[j])
    <3>2. /\ created[i].date = m.date => m.index = created[i].index + 1
          /\ created[j].date = n.date => n.index = created[j].index + 1
      <4>1. /\ m = [date |-> Suffix(opened), index |-> IF cfg.scheme = "Index" \/ created[i].date = Suffix(opened)
                                                    THEN created[i].index + 1 ELSE created[i].index]
            /\ n = [date |-> Suffix(opened), index |-> IF cfg.scheme = "Index" \/ created[j].date = Suffix(opened)
                                                    THEN created[j].index + 1 ELSE created[j].index]
        BY DEF NewName, GetFilename
      <4> HIDE DEF m, n
      <4> QED BY <4>1
    <3>3. created[i].date # m.date => m.index = 0
      BY <1>1, <2>6, NewNameFacts
    <3>4. created[j].date = n.date
      BY <1>1, <2>2, <3>1, NewNameFacts
    <3>5. After(i) = m /\ After(j) = n /\ m.date = n.date
      BY <1>3, <2>6, <3>1
    <3> HIDE DEF m, n
    <3>6. PICK a \in Nat, b \in Nat : a = created[i].index /\ b = created[j].index
      BY <1>1, <1>2
    <3>7. n.index = b + 1 /\ (created[i].date = m.date => m.index = a + 1)
      BY <3>2, <3>4, <3>6
    <3>8. created[i].date = m.date => a < b
      BY <2>1, <3>4, <3>5, <3>6
    <3>9. m.index < n.index
      <4>1. CASE created[i].date = m.date
        <5>1. m.index = a + 1 /\ a < b
          BY <3>7, <3>8, <4>1
        <5> QED BY <3>7, <5>1
      <4>2. CASE created[i].date # m.date
        BY <3>3, <3>7, <4>2
      <4> QED BY <4>1, <4>2
    <3> QED BY <3>5, <3>9
  <2> QED BY <2>5, <2>6
<1>6. ASSUME NEW j \in 1..Len(created), i < j PROVE After(i) # After(j)
  <2>1. PICK a \in Allowed, b \in Allowed : a = After(i) /\ b = After(j)
    BY <1>3
  <2>2. a.date = b.date => a.index < b.index
    BY <1>5, <1>6, <2>1
  <2>3. a # b
    BY <1>2, <2>2
  <2> QED BY <2>1, <2>3
<1> QED BY <1>3, <1>4, <1>5, <1>6

\* The list that the renames are recorded in.
LEMMA RecordedFacts ==
  ASSUME RotatingIInv, pc = "rename", left = 0
  PROVE  /\ Recorded \in Seq(Allowed) /\ Len(Recorded) = Len(created)
         /\ \A i \in 1..Len(created) : Recorded[i] = After(i)
<1>1. Renaming
  BY DEF Renaming
<1>2. /\ DoneInv /\ Len(created) \in Nat /\ Len(done) \in Nat
      /\ \A i \in 1..Len(created) : Renames(created[i]) => \E k \in 1..Len(done) : done[k].at = i
      /\ DOMAIN created = 1..Len(created)
  <2>1. Len(created) \in Nat /\ Len(done) \in Nat
    BY <1>1, RenamingFacts
  <2>2. \A i \in (left + 1)..Len(created) : Renames(created[i]) => \E k \in 1..Len(done) : done[k].at = i
    BY <1>1 DEF RotatingIInv, RenameInv
  <2>3. DOMAIN created = 1..Len(created)
    BY DEF RotatingIInv, ListInv
  <2> QED BY <1>1, <2>1, <2>2, <2>3 DEF RotatingIInv, RenameInv
<1>3. Range(done) = {done[k] : k \in 1..Len(done)}
  <2>1. PICK S : done \in Seq(S)
    BY <1>2 DEF DoneInv
  <2> QED BY <2>1 DEF Range
<1>4. ASSUME NEW i \in 1..Len(created)
      PROVE  (IF \E d \in Range(done) : d.at = i THEN (CHOOSE d \in Range(done) : d.at = i).to
              ELSE created[i]) = After(i)
  <2>1. CASE \E d \in Range(done) : d.at = i
    <3>1. PICK k \in 1..Len(done) : done[k] = CHOOSE d \in Range(done) : d.at = i
      BY <1>3, <2>1
    <3>2. done[k].at = i
      BY <2>1, <3>1
    <3>3. Renames(created[i]) /\ done[k].to = NewName(created[i])
      BY <1>2, <3>2 DEF DoneInv
    <3> QED BY <2>1, <3>1, <3>3 DEF After
  <2>2. CASE ~\E d \in Range(done) : d.at = i
    <3>1. ~Renames(created[i])
      BY <1>2, <1>3, <2>2
    <3> QED BY <2>2, <3>1 DEF After
  <2> QED BY <2>1, <2>2
<1>5. Recorded = [i \in 1..Len(created) |-> After(i)]
  BY <1>2, <1>4 DEF Recorded
<1>6. \A i \in 1..Len(created) : After(i) \in Allowed
  BY <1>1, AfterFacts
<1>7. PICK n \in Nat : n = Len(created)
  <2>1. Len(created) \in Nat
    BY <1>2
  <2> QED BY <2>1
<1>8. Recorded \in [1..n -> Allowed]
  BY <1>5, <1>6, <1>7
<1>9. Recorded \in Seq(Allowed)
  BY <1>8
<1>10. Len(Recorded) = n
  BY <1>8
<1> QED BY <1>5, <1>7, <1>9, <1>10

\* The new list: the file being written and the newest ones of the old files.
LEMMA NewListFacts ==
  ASSUME RotatingIInv, pc = "rename", left = 0, NEW n \in 0..Len(created), NEW list,
         list = <<Base>> \o SubSeq(Recorded, 1, n)
  PROVE  /\ list \in Seq(Allowed) /\ InOrder(list) /\ list # <<>> /\ list[1] = Base
         /\ Range(list) \ {Base} \subseteq {After(i) : i \in 1..n}
<1>1. Renaming /\ Len(created) \in Nat /\ n \in Nat /\ n <= Len(created)
  <2>1. Renaming
    BY DEF Renaming
  <2> QED BY <2>1, RenamingFacts
<1>2. Recorded \in Seq(Allowed) /\ Len(Recorded) = Len(created)
      /\ \A i \in 1..Len(created) : Recorded[i] = After(i)
  BY RecordedFacts
<1> DEFINE s == SubSeq(Recorded, 1, n)
<1>3. s \in Seq(Allowed) /\ Len(s) = n /\ \A i \in 1..n : s[i] = Recorded[i]
  BY <1>1, <1>2
<1>4. \A i \in 1..n : s[i] = After(i) /\ i \in 1..Len(created)
  BY <1>1, <1>2, <1>3
<1>5. <<Base>> \in Seq(Allowed) /\ Base \in Allowed
  BY DEF Allowed, Base, Name
<1> HIDE DEF s
<1>6. /\ list \in Seq(Allowed) /\ Len(list) = n + 1 /\ list[1] = Base
      /\ \A i \in 2..(n + 1) : list[i] = s[i - 1]
  BY <1>1, <1>3, <1>5, ConcatProperties DEF s
<1>7. \A i \in 2..(n + 1) : i - 1 \in 1..n /\ list[i] = After(i - 1) /\ i - 1 \in 1..Len(created)
  BY <1>1, <1>4, <1>6
<1>8. ASSUME NEW i \in 1..Len(list), NEW j \in 1..Len(list), i < j, list[i].date = list[j].date
      PROVE  list[i].index < list[j].index
  <2>1. j \in 2..(n + 1) /\ i \in Nat
    BY <1>1, <1>6, <1>8
  <2>2. CASE i = 1
    <3>1. list[i].date = 0 /\ list[i].index = 0
      BY <1>6, <2>2 DEF Base
    <3>2. After(j - 1).date = 0 => After(j - 1).index > 0
      BY <1>1, <1>7, <2>1, AfterFacts
    <3> QED BY <1>7, <1>8, <2>1, <3>1, <3>2
  <2>3. CASE i # 1
    <3>1. i \in 2..(n + 1) /\ i - 1 < j - 1
      BY <1>6, <1>8, <2>1, <2>3
    <3>2. After(i - 1).date = After(j - 1).date => After(i - 1).index < After(j - 1).index
      BY <1>1, <1>7, <2>1, <3>1, AfterFacts
    <3> QED BY <1>7, <1>8, <2>1, <3>1, <3>2
  <2> QED BY <2>2, <2>3
<1>9. Range(list) \ {Base} \subseteq {After(i) : i \in 1..n}
  <2> SUFFICES ASSUME NEW m \in Range(list), m # Base PROVE m \in {After(i) : i \in 1..n}
    OBVIOUS
  <2>1. PICK i \in 1..(n + 1) : m = list[i]
    BY <1>6 DEF Range
  <2>2. i \in 2..(n + 1)
    BY <1>1, <1>6, <2>1
  <2> QED BY <1>7, <2>1, <2>2
<1>10. list # <<>>
  BY <1>1, <1>6
<1> QED BY <1>6, <1>8, <1>9, <1>10 DEF InOrder

\* The history and the size that are noted last.
Noted(g, log, size) == [g EXCEPT !.log = log, !.size = size]

LEMMA NotedInv ==
  ASSUME NEW g, NEW log, NEW size, NEW M, NEW N, NEW A, NEW B, NEW E, FileInv(g, M, N, A, B, E)
  PROVE  FileInv(Noted(g, log, size), M, N, A, B, E) /\ Noted(g, log, size).file = g.file
<1> DEFINE h == Noted(g, log, size)
<1>1. DOMAIN g = Fields
  BY DEF FileInv
<1>2. DOMAIN h = Fields /\ h.disk = g.disk /\ h.file = g.file /\ h.pending = g.pending /\ h.wrote = g.wrote
  BY <1>1 DEF Fields, Noted
<1> HIDE DEF h
<1>3. FileInv(h, M, N, A, B, E)
  BY <1>2, OtherFields
<1> QED BY <1>2, <1>3 DEF h

\* Files of a closed sink are removed.
LEMMA RemovedInv ==
  ASSUME NEW g, NEW h, NEW names, NEW M, NEW N, NEW A, NEW B, NEW E,
         FileInv(g, M, N, A, B, E), g.file = "closed",
         DOMAIN h = Fields, h.disk = Unlink(g.disk, names), h.file = g.file, h.wrote = g.wrote,
         h.pending = g.pending
  PROVE  FileInv(h, DOMAIN g.disk \ names, N, A, B, E) /\ DOMAIN h.disk = DOMAIN g.disk \ names
<1> DEFINE d == Unlink(g.disk, names)
<1>1. DiskInv(g.disk, M, N, A, B)
  BY DEF FileInv
<1>2. DiskInv(d, DOMAIN g.disk \ names, N, A, B) /\ DOMAIN d = DOMAIN g.disk \ names
  BY <1>1, DiskUnlink
<1>3. h.disk = d
  OBVIOUS
<1> HIDE DEF d
<1>4. FileInv(h, DOMAIN g.disk \ names, N, A, B, E)
  BY <1>2, <1>3, EmptySeq DEF FileInv
<1> QED BY <1>2, <1>3, <1>4

\* A rotation that opened a new file.
LEMMA NewFileStep ==
  ASSUME RotatingIInv, pc = "rename", SpentStep, spent'.records = spent.records,
         cfg' = cfg, now' = now, nextRotation' = nextRotation, opened' \in Nat, AfterRotation,
         created' \in Seq(Allowed), InOrder(created)', created' # <<>>, created'[1] = Base,
         NEW g, NEW M, FileInv(g, M, Allowed, RecordsOf(Known), RecordsOf(InFile), RecordsOf(Unwritten)),
         g.file = "closed", Base \notin DOMAIN g.disk, NEW log,
         f' = Made(Noted(OpenFile(g, cfg.file, cfg.file.mode), log, 0)),
         Kept' \subseteq M
  PROVE  RotatingIInv'
<1>1. Renaming /\ pc # "down" /\ pc' \in {"ready", "append"} /\ (pc' = "append" => why # "start" /\ why' = why /\ cur' = cur)
  BY DEF Renaming, AfterRotation, call
<1>2. SpentInv /\ Boundary /\ Enabled /\ (why # "start" => CurFacts) /\ cfg.file \in FileSinkConfig
      /\ nextRotation' \in Nat
  BY <1>1, RenamingFacts, FileFits DEF RotatingIInv, SpentInv
<1>3. SpentInv'
  BY <1>1, <1>2, SameSpent
<1>4. Allowed' = Allowed /\ Live' = Live /\ Period' = Period /\ Enabled'
  BY <1>1, <1>2 DEF Allowed, Live, Period, Enabled
<1>5. ListInv'
  BY <1>4 DEF ListInv
<1>6. Boundary'
  <2>1. OnBoundary(nextRotation)' = OnBoundary(nextRotation)
    BY DEF OnBoundary
  <2> QED BY <1>2, <1>4, <2>1 DEF Boundary
<1>7. Known' = Known /\ Unwritten \subseteq Unwritten'
  <2>1. Known' = Known
    BY <1>4 DEF Known
  <2> QED BY <1>2, <2>1, PairFacts DEF Unwritten, SpentStep
<1> DEFINE K == RecordsOf(Known)  I == RecordsOf(InFile')  U == RecordsOf(Unwritten)  U1 == RecordsOf(Unwritten')
           o == OpenFile(g, cfg.file, cfg.file.mode)  h == Noted(o, log, 0)
<1>8. FileSets(Allowed, K, I, U)
  BY <1>2, <1>3, <1>4, <1>6, <1>7, PairFacts, PairFactsNext, PairsMakeSets
<1>9. U \subseteq U1 /\ K = RecordsOf(Known)' /\ I = RecordsOf(InFile)' /\ U1 = RecordsOf(Unwritten)'
  BY <1>7, RecordsOfGrow DEF RecordsOf
<1> HIDE DEF K, I, U, U1
<1>10. FileInv(o, M, Allowed, K, I, U) /\ o.file = "open"
  BY <1>2, <1>8, OpenInv DEF K, U
<1> HIDE DEF o
<1>11. FileInv(h, M, Allowed, K, I, U) /\ h.file = "open"
  BY <1>10, NotedInv
<1> HIDE DEF h
<1>12. FileInv(f', M, Allowed, K, I, U) /\ f'.file = "open"
  BY <1>11, MadeInv DEF h, o
<1>13. FileInv(f', Kept', Allowed, K, I, U1)
  BY <1>9, <1>12, FileInvWeaker
<1>14. DiskFits'
  BY <1>4, <1>9, <1>13 DEF DiskFits
<1>15. CallInv'
  <2>1. pc' = "append" => CurFacts'
    BY <1>1, <1>2, <1>4, SameCur
  <2> QED BY <1>1, <1>12, <2>1 DEF CallInv, Renaming
<1>16. RenameInv'
  BY <1>1 DEF RenameInv, Renaming
<1> QED BY <1>3, <1>5, <1>6, <1>14, <1>15, <1>16 DEF RotatingIInv

LEMMA CommitStep ==
  ASSUME RotatingIInv, Commit
  PROVE  RotatingIInv'
<1> DEFINE full == Len(Recorded) > cfg.maxBackup
           oldest == Last(Recorded)
           kept == IF full THEN Front(Recorded) ELSE Recorded
           gone == IF full /\ oldest \in DOMAIN f.disk THEN f.disk[oldest] ELSE <<>>
           log == IF full THEN Retired(f.log, gone) ELSE f.log
           names == IF full THEN {oldest} ELSE {}
           h == [f EXCEPT !.disk = Unlink(@, names)]
           e == [f EXCEPT !.disk = Unlink(@, names), !.log = log]
           stamp == IF why = "start" THEN now ELSE cur.ts
<1>1. /\ pc = "rename" /\ left = 0 /\ created' = <<Base>> \o kept
      /\ cfg' = cfg /\ nextRotation' = nextRotation /\ now' = now
      /\ \/ /\ f' = Made(Noted(OpenFile(h, cfg.file, cfg.file.mode), log, 0))
            /\ opened' = stamp /\ AfterRotation /\ spent' = spent
         \/ /\ Fault /\ f' = Made(Noted(OpenFile(f, cfg.file, cfg.file.mode), log, 0))
            /\ opened' = stamp /\ AfterRotation
         \/ Fault /\ f' = e /\ opened' = opened /\ AfterThrow
  BY DEF Commit, Noted
<1>2. Renaming /\ pc # "down"
  BY <1>1 DEF Renaming
<1>3. /\ SpentInv /\ opened \in Nat /\ stamp \in Nat /\ f.file = "closed" /\ Len(created) \in Nat
      /\ Len(created) >= 1 /\ nextRotation' \in Nat
  <2>1. why # "start" => cur.ts \in Nat
    BY <1>2, RenamingFacts DEF CurFacts, Record
  <2>2. now \in Nat /\ nextRotation \in Nat
    BY <1>2, RenamingFacts DEF SpentInv
  <2> QED BY <1>1, <1>2, <2>1, <2>2, RenamingFacts
<1>4. /\ Recorded \in Seq(Allowed) /\ Len(Recorded) = Len(created)
      /\ \A i \in 1..Len(created) : Recorded[i] = After(i)
  BY <1>1, RecordedFacts
<1>5. PICK n \in 0..Len(created) : kept = SubSeq(Recorded, 1, n) /\ (full => n = Len(created) - 1)
  <2>1. CASE full
    <3>1. Len(created) - 1 \in 0..Len(created)
      BY <1>3
    <3>2. kept = SubSeq(Recorded, 1, Len(created) - 1)
      BY <1>4, <2>1 DEF Front
    <3> QED BY <3>1, <3>2
  <2>2. CASE ~full
    <3>1. Len(created) \in 0..Len(created)
      BY <1>3
    <3>2. kept = SubSeq(Recorded, 1, Len(created))
      BY <1>3, <1>4, <2>2
    <3> QED BY <2>2, <3>1, <3>2
  <2> QED BY <2>1, <2>2
<1>6. full => oldest = After(Len(created))
  <2>1. oldest = Recorded[Len(created)] /\ Len(created) \in 1..Len(created)
    BY <1>3, <1>4 DEF Last
  <2> QED BY <1>4, <2>1
<1> HIDE DEF full, oldest, kept, gone, log
<1>7. /\ created' \in Seq(Allowed) /\ InOrder(created') /\ created' # <<>> /\ created'[1] = Base
      /\ Range(created') \ {Base} \subseteq {After(i) : i \in 1..n}
  BY <1>1, <1>5, NewListFacts
<1>8. InOrder(created)'
  BY <1>7 DEF InOrder
<1>9. SpentStep /\ spent'.records = spent.records
      /\ (NoFault' => /\ NoFault
                      /\ f' = Made(Noted(OpenFile(h, cfg.file, cfg.file.mode), log, 0)))
  <2> HIDE DEF h, e
  <2>1. CASE spent' = spent /\ f' = Made(Noted(OpenFile(h, cfg.file, cfg.file.mode), log, 0))
    BY <1>3, <2>1, SpentSame
  <2>2. CASE Fault
    BY <1>3, <2>2, SpentFault
  <2> QED BY <1>1, <2>1, <2>2
<1>10. Base \notin DOMAIN f.disk
  BY <1>1, <1>2 DEF RotatingIInv, RenameInv
<1> DEFINE M == IF NoFault THEN {After(i) : i \in 1..n} ELSE {}
<1>11. M \subseteq DOMAIN f.disk \ names
  <2> SUFFICES ASSUME NoFault, NEW i \in 1..n PROVE After(i) \in DOMAIN f.disk \ names
    OBVIOUS
  <2>1. i \in 1..Len(created) /\ i \in (left + 1)..Len(created)
    BY <1>1, <1>3
  <2>2. After(i) \in DOMAIN f.disk
    BY <1>1, <2>1 DEF RotatingIInv, RenameInv
  <2>3. full => After(i) # oldest
    <3> SUFFICES ASSUME full PROVE After(i) # oldest
      OBVIOUS
    <3>1. i < Len(created) /\ Len(created) \in 1..Len(created)
      BY <1>3, <1>5
    <3> QED BY <1>2, <1>6, <2>1, <3>1, AfterFacts
  <2> QED BY <2>2, <2>3
<1>12. Kept' \subseteq M
  <2> SUFFICES ASSUME NoFault' PROVE Range(created') \ {Base} \subseteq M
    BY DEF Kept
  <2> QED BY <1>7, <1>9
<1>13. FileInv(f, Kept, Allowed, RecordsOf(Known), RecordsOf(InFile), RecordsOf(Unwritten)) /\ DOMAIN f = Fields
  <2>1. FileInv(f, Kept, Allowed, RecordsOf(Known), RecordsOf(InFile), RecordsOf(Unwritten))
    BY FileFits
  <2> QED BY <2>1 DEF FileInv
<1> HIDE DEF M, names
<1>14. /\ DOMAIN h = Fields /\ h.disk = Unlink(f.disk, names) /\ h.file = f.file /\ h.wrote = f.wrote
       /\ h.pending = f.pending
       /\ DOMAIN e = Fields /\ e.disk = Unlink(f.disk, names) /\ e.file = f.file /\ e.wrote = f.wrote
       /\ e.pending = f.pending
  BY <1>13 DEF Fields
<1> HIDE DEF h, e
<1>15. /\ FileInv(h, M, Allowed, RecordsOf(Known), RecordsOf(InFile), RecordsOf(Unwritten))
       /\ DOMAIN h.disk = DOMAIN f.disk \ names
       /\ FileInv(e, M, Allowed, RecordsOf(Known), RecordsOf(InFile), RecordsOf(Unwritten))
  <2>1. f.file = "closed"
    BY <1>3
  <2>2. /\ FileInv(h, DOMAIN f.disk \ names, Allowed, RecordsOf(Known), RecordsOf(InFile), RecordsOf(Unwritten))
        /\ DOMAIN h.disk = DOMAIN f.disk \ names
    <3>1. /\ DOMAIN h = Fields /\ h.disk = Unlink(f.disk, names) /\ h.file = f.file /\ h.wrote = f.wrote
          /\ h.pending = f.pending
      BY <1>14
    <3> QED BY <1>13, <2>1, <3>1, RemovedInv
  <2>3. FileInv(e, DOMAIN f.disk \ names, Allowed, RecordsOf(Known), RecordsOf(InFile), RecordsOf(Unwritten))
    <3>1. /\ DOMAIN e = Fields /\ e.disk = Unlink(f.disk, names) /\ e.file = f.file /\ e.wrote = f.wrote
          /\ e.pending = f.pending
      BY <1>14
    <3> QED BY <1>13, <2>1, <3>1, RemovedInv
  <2> QED BY <1>11, <2>2, <2>3, FileInvWeaker
<1> HIDE DEF stamp
<1>16. CASE /\ f' = Made(Noted(OpenFile(h, cfg.file, cfg.file.mode), log, 0))
            /\ opened' = stamp /\ AfterRotation
  <2>1. h.file = "closed" /\ Base \notin DOMAIN h.disk /\ opened' \in Nat
    BY <1>3, <1>10, <1>14, <1>15, <1>16
  <2> QED BY <1>1, <1>7, <1>8, <1>9, <1>12, <1>15, <1>16, <2>1, NewFileStep
<1>17. CASE /\ Fault /\ f' = Made(Noted(OpenFile(f, cfg.file, cfg.file.mode), log, 0))
            /\ opened' = stamp /\ AfterRotation
  <2>1. opened' \in Nat
    BY <1>3, <1>17
  <2>2. Kept' \subseteq Kept
    BY <1>3, <1>17, SpentFault DEF Kept
  <2> QED BY <1>1, <1>3, <1>7, <1>8, <1>9, <1>10, <1>13, <1>17, <2>1, <2>2, NewFileStep
<1>18. CASE Fault /\ f' = e /\ opened' = opened /\ AfterThrow
  <2>1. ~NoFault'
    BY <1>3, <1>18, SpentFault
  <2>2. FileInv(f', M, Allowed, RecordsOf(Known), RecordsOf(InFile), RecordsOf(Unwritten))
    BY <1>15, <1>18
  <2>3. opened' \in Nat /\ f'.file = "closed"
    BY <1>3, <1>14, <1>18
  <2>4. CASE pc' = "down"
    BY <1>1, <1>3, <1>7, <1>8, <1>9, <1>12, <2>2, <2>3, <2>4, DownWithList
  <2>5. CASE pc' = "ready"
    <3>1. pc' \in {"ready", "rotate", "rename", "undo", "append"} /\ pc' # "down"
      BY <2>5
    <3>2. SpentInv'
      BY <1>1, <1>2, <1>3, <1>9, <2>3, <3>1, SameSpent
    <3>3. Enabled /\ Boundary
      BY <1>2, RenamingFacts DEF RotatingIInv
    <3>4. Allowed' = Allowed /\ Live' = Live /\ Period' = Period /\ Enabled'
      BY <1>1, <1>2, <1>7, <3>1, <3>3 DEF Allowed, Live, Period, Enabled
    <3>5. ListInv'
      BY <1>7, <1>8, <3>4 DEF ListInv
    <3>6. Boundary'
      <4>1. OnBoundary(nextRotation)' = OnBoundary(nextRotation)
        BY <1>1 DEF OnBoundary
      <4> QED BY <1>1, <3>3, <3>4, <4>1 DEF Boundary
    <3>7. Known' = Known
      BY <1>1, <1>9, <3>4 DEF Known
    <3>8. InFile \subseteq InFile' /\ Unwritten \subseteq Unwritten'
      <4>1. InFile' = Known' /\ Unwritten' = Known'
        BY <2>1 DEF InFile, Unwritten, OnTime
      <4>2. InFile \subseteq Known /\ Unwritten \subseteq Known
        BY <1>3, <3>3, PairFacts
      <4> QED BY <3>7, <4>1, <4>2
    <3>9. Known \subseteq Known'
      BY <3>7
    <3>10. DiskFits'
      BY <1>12, <2>2, <3>4, <3>8, <3>9, DiskStillFits
    <3>11. CallInv' /\ RenameInv'
      BY <2>1, <2>5 DEF CallInv, RenameInv, Renaming
    <3> QED BY <3>2, <3>5, <3>6, <3>10, <3>11 DEF RotatingIInv
  <2> QED BY <1>18, <2>4, <2>5 DEF AfterThrow
<1> QED BY <1>1, <1>16, <1>17, <1>18

-----------------------------------------------------------------------------
(***************************************************************************)
(* A new sink.                                                             *)
(***************************************************************************)

\* A sink is new: nothing it wrote is in the file.
LEMMA StartedStep ==
  ASSUME RotatingIInv, pc = "down", pc' \in {"ready", "rename"}, cfg' = cfg, now' = now,
         spent' \in [records : Nat, starts : Nat, faults : Nat, deletes : Nat, stale : Nat, first : Nat],
         spent'.records = spent.records, spent'.first = spent.records + 1, NoFault' => NoFault,
         opened' = now, created' \in Seq(Allowed), InOrder(created)', created' # <<>> => created'[1] = Base,
         nextRotation' = IF created' # <<>> /\ Rotates(cfg) THEN InitialRotation(now) ELSE nextRotation',
         nextRotation' \in Nat, CallInv', RenameInv', NEW M, Kept' \subseteq M,
         FileInv(f', M, Allowed, RecordsOf(Known), RecordsOf(InFile), RecordsOf(Unwritten))
  PROVE  RotatingIInv'
<1>1. SpentInv /\ Boundary /\ spent.records \in Nat /\ now \in Nat /\ cfg \in Configs
  BY DEF RotatingIInv, SpentInv
<1>2. Allowed' = Allowed /\ ~Live /\ (Live' <=> created' # <<>> /\ Rotates(cfg)) /\ Period' = Period
  BY DEF Allowed, Live, Enabled, Period
<1>3. SpentInv'
  <2>1. spent'.first <= spent'.records + 1 /\ spent'.first > 0
    <3>1. PICK a \in Nat : a = spent.records
      BY <1>1
    <3>2. a + 1 <= a + 1 /\ a + 1 > 0
      OBVIOUS
    <3> QED BY <3>1, <3>2
  <2> QED BY <1>1, <2>1 DEF SpentInv
<1>4. ListInv'
  BY <1>2 DEF ListInv, Enabled
<1>5. Live' => nextRotation' > now /\ nextRotation' - Period <= now /\ OnBoundary(nextRotation')
  BY <1>1, <1>2, InitialRotationFacts
<1>6. Boundary'
  <2>1. OnBoundary(nextRotation)' <=> OnBoundary(nextRotation')
    BY DEF OnBoundary
  <2>2. Live' => nextRotation' > 0
    BY <1>1, <1>5
  <2> QED BY <1>2, <1>5, <2>1, <2>2 DEF Boundary
<1>7. Known \subseteq Known'
  <2> SUFFICES ASSUME NEW k \in Known PROVE k \in Known'
    OBVIOUS
  <2>1. k \in (0..spent.records) \X (0..now)
    BY DEF Known
  <2>2. Live' => k[2] < nextRotation'
    BY <1>1, <1>5, <2>1
  <2> QED BY <2>1, <2>2 DEF Known
<1>8. InFile \subseteq InFile'
  <2> SUFFICES ASSUME NEW k \in Known PROVE Recent(k)'
    BY <1>7 DEF InFile
  <2>1. k[1] \in 0..spent.records
    BY DEF Known
  <2>2. k[1] < spent'.first
    BY <1>1, <2>1
  <2> QED BY <2>2 DEF Recent
<1>9. Unwritten \subseteq Unwritten'
  BY <1>1, <1>7, PairFacts DEF Unwritten
<1>10. DiskFits'
  BY <1>2, <1>7, <1>8, <1>9, DiskStillFits
<1> QED BY <1>3, <1>4, <1>6, <1>10 DEF RotatingIInv

\* The files that are removed are files of the sink, and what it recovers are
\* the others, newest first.
LEMMA CleanedFacts ==
  ASSUME RotatingIInv
  PROVE  /\ IsFiniteSet(DOMAIN f.disk) /\ DOMAIN f.disk \subseteq Allowed
         /\ Rotated(f.disk) = DOMAIN f.disk \ {Base} /\ Cleaned(f.disk) \subseteq Rotated(f.disk)
<1>1. IsFiniteSet(DOMAIN f.disk) /\ DOMAIN f.disk \subseteq Allowed
  BY FileFits DEF FileInv, DiskInv
<1>2. Rotated(f.disk) = DOMAIN f.disk \ {Base}
  BY DEF Rotated
<1>3. Cleaned(f.disk) \subseteq Rotated(f.disk)
  <2> DEFINE S == Rotated(f.disk)  files == OldestFirst(S)
             excess == IF cfg.overwrite /\ Len(files) > cfg.maxBackup THEN Len(files) - cfg.maxBackup ELSE 0
  <2>1. CASE cfg.file.mode = "a"
    <3>1. IsFiniteSet(S) /\ S \subseteq Name
      <4>1. IsFiniteSet(S)
        BY <1>1, <1>2, FS_Subset
      <4>2. Allowed \subseteq Name
        BY DEF Allowed, Base, Name
      <4> QED BY <1>1, <1>2, <4>1, <4>2
    <3>2. files \in Seq(S) /\ Len(files) \in Nat
      BY <3>1, OldestFirstFacts
    <3>3. excess \in Nat /\ excess <= Len(files)
      BY <3>2, ConfigFacts DEF RotatingIInv, SpentInv
    <3>4. Cleaned(f.disk) = Range(SubSeq(files, 1, excess))
      BY <2>1 DEF Cleaned
    <3> HIDE DEF S, files, excess
    <3>5. SubSeq(files, 1, excess) \in Seq(S)
      BY <3>2, <3>3
    <3>6. Range(SubSeq(files, 1, excess)) \subseteq S
      BY <3>5 DEF Range
    <3> QED BY <3>4, <3>6 DEF S
  <2>2. CASE cfg.file.mode # "a"
    BY <2>2 DEF Cleaned
  <2> QED BY <2>1, <2>2
<1> QED BY <1>1, <1>2, <1>3

LEMMA RecoveredFacts ==
  ASSUME RotatingIInv, NEW list, list = <<Base>> \o Recovered(f.disk)
  PROVE  /\ list \in Seq(Allowed) /\ InOrder(list) /\ list # <<>> /\ list[1] = Base
         /\ Len(list) \in Nat
         /\ Range(list) \ {Base} \subseteq DOMAIN f.disk \ Cleaned(f.disk)
<1> DEFINE S == Rotated(f.disk) \ Cleaned(f.disk)  files == OldestFirst(S)  n == Cardinality(S)
           r == Recovered(f.disk)
<1>1. IsFiniteSet(S) /\ S \subseteq Name /\ S \subseteq Allowed /\ Base \notin S
      /\ S \subseteq DOMAIN f.disk \ Cleaned(f.disk)
  <2>1. IsFiniteSet(S)
    BY CleanedFacts, FS_Subset
  <2>2. Allowed \subseteq Name
    BY DEF Allowed, Base, Name
  <2> QED BY <2>1, <2>2, CleanedFacts
<1>2. files \in Seq(S) /\ Len(files) = n /\ n \in Nat
      /\ \A i, j \in 1..n : i < j => Older(files[i], files[j])
  BY <1>1, OldestFirstFacts
<1>3. \E m \in Nat : /\ Len(r) = m /\ r \in Seq(S)
                     /\ \A i, j \in 1..m : i < j => Older(r[j], r[i])
  <2>1. CASE cfg.file.mode = "a"
    <3>1. r = Reverse(files)
      BY <2>1 DEF Recovered
    <3> HIDE DEF S, files, n, r
    <3>2. r = [i \in 1..n |-> files[(n - i) + 1]]
      BY <1>2, <3>1 DEF Reverse
    <3>3. \A i \in 1..n : (n - i) + 1 \in 1..n
      BY <1>2
    <3>4. \A i \in 1..n : files[i] \in S
      BY <1>2, ElementOfSeq
    <3>5. r \in [1..n -> S]
      BY <3>2, <3>3, <3>4
    <3>6. r \in Seq(S) /\ Len(r) = n
      BY <1>2, <3>5
    <3>7. ASSUME NEW i \in 1..n, NEW j \in 1..n, i < j PROVE Older(r[j], r[i])
      <4>1. (n - j) + 1 \in 1..n /\ (n - i) + 1 \in 1..n /\ (n - j) + 1 < (n - i) + 1
        BY <1>2, <3>7
      <4>2. r[j] = files[(n - j) + 1] /\ r[i] = files[(n - i) + 1]
        BY <3>2
      <4> QED BY <1>2, <4>1, <4>2
    <3> QED BY <1>2, <3>6, <3>7
  <2>2. CASE cfg.file.mode # "a"
    <3>1. r = <<>>
      BY <2>2 DEF Recovered
    <3>2. Len(r) = 0 /\ r \in Seq(S)
      BY <3>1, EmptySeq
    <3> QED BY <3>2
  <2> QED BY <2>1, <2>2
<1> HIDE DEF S, files, n, r
<1>4. PICK m \in Nat : /\ Len(r) = m /\ r \in Seq(S)
                       /\ \A i, j \in 1..m : i < j => Older(r[j], r[i])
  BY <1>3
<1>5. <<Base>> \in Seq(Allowed) /\ Base \in Allowed /\ r \in Seq(Allowed)
      /\ \A i \in 1..m : r[i] \in S
  BY <1>1, <1>4, SeqMonotonic, ElementOfSeq DEF Allowed, Base, Name
<1>6. /\ list \in Seq(Allowed) /\ Len(list) = m + 1 /\ list[1] = Base
      /\ \A i \in 2..(m + 1) : list[i] = r[i - 1]
  BY <1>4, <1>5, ConcatProperties DEF r
<1>7. \A i \in 2..(m + 1) : i - 1 \in 1..m /\ list[i] = r[i - 1] /\ list[i] \in S
  BY <1>5, <1>6
<1>8. ASSUME NEW i \in 1..Len(list), NEW j \in 1..Len(list), i < j, list[i].date = list[j].date
      PROVE  list[i].index < list[j].index
  <2>1. j \in 2..(m + 1) /\ i \in Nat
    BY <1>6, <1>8
  <2>2. list[j] \in Allowed /\ list[j] # Base
    BY <1>1, <1>7, <2>1
  <2>3. CASE i = 1
    <3>1. list[i].date = 0 /\ list[i].index = 0
      BY <1>6, <2>3 DEF Base
    <3>2. list[j].date = 0 => list[j].index > 0
      BY <2>2 DEF Allowed
    <3> QED BY <1>8, <3>1, <3>2
  <2>4. CASE i # 1
    <3>1. i \in 2..(m + 1) /\ i - 1 < j - 1
      BY <1>6, <1>8, <2>1, <2>4
    <3>2. Older(list[j], list[i])
      BY <1>4, <1>7, <2>1, <3>1
    <3>3. list[j].index > list[i].index
      BY <1>8, <3>2 DEF Older
    <3>4. list[i].index \in Nat /\ list[j].index \in Nat
      BY <1>1, <1>7, <2>1, <3>1 DEF Name
    <3> QED BY <3>3, <3>4
  <2> QED BY <2>3, <2>4
<1>9. Range(list) \ {Base} \subseteq S
  <2> SUFFICES ASSUME NEW x \in Range(list), x # Base PROVE x \in S
    OBVIOUS
  <2>1. PICK i \in 1..(m + 1) : x = list[i]
    BY <1>6 DEF Range
  <2>2. i \in 2..(m + 1)
    BY <1>6, <2>1
  <2> QED BY <1>7, <2>1, <2>2
<1>10. list # <<>> /\ Len(list) \in Nat
  BY <1>6
<1> QED BY <1>1, <1>6, <1>8, <1>9, <1>10 DEF InOrder

\* What a start does to the bounds.
Begun(starts, first, faults, stale) ==
  [spent EXCEPT !.starts = starts, !.first = first, !.faults = faults, !.stale = stale]

LEMMA SpentStart ==
  ASSUME SpentInv, NEW starts \in Nat, NEW first \in Nat, NEW faults \in Nat, NEW stale \in Nat
  PROVE  /\ Begun(starts, first, faults, stale)
              \in [records : Nat, starts : Nat, faults : Nat, deletes : Nat, stale : Nat, first : Nat]
         /\ Begun(starts, first, faults, stale).records = spent.records
         /\ Begun(starts, first, faults, stale).first = first
         /\ Begun(starts, first, faults, stale).faults = faults
<1> DEFINE s == Begun(starts, first, faults, stale)
<1>1. /\ DOMAIN spent = {"records", "starts", "faults", "deletes", "stale", "first"}
      /\ spent \in [records : Nat, starts : Nat, faults : Nat, deletes : Nat, stale : Nat, first : Nat]
  BY DEF SpentInv
<1>2. s \in [records : Nat, starts : Nat, faults : Nat, deletes : Nat, stale : Nat, first : Nat]
  BY <1>1 DEF Begun
<1>3. s.records = spent.records /\ s.first = first /\ s.faults = faults
  BY <1>1 DEF Begun
<1> QED BY <1>2, <1>3

LEMMA StartStep ==
  ASSUME RotatingIInv, NEW removed \in SUBSET Cleaned(f.disk), Start(removed)
  PROVE  RotatingIInv'
<1> DEFINE list == <<Base>> \o Recovered(f.disk)
           rotate == RotationRequested /\ (Len(list) <= cfg.maxBackup \/ cfg.overwrite)
           log == LogAfterStart(Cleaned(f.disk), OpenMode = "w")
           fresh == (cfg.file.header # 0)
           g == [f EXCEPT !.disk = Unlink(@, removed), !.fresh = fresh, !.log = log]
           started == OpenFile(g, cfg.file, OpenMode)
           size == FileSize(started.disk, Base)
           h == [started EXCEPT !.size = size]
           kept == Cardinality(Cleaned(f.disk) \ removed)
           stale == IF cfg.file.mode = "w" THEN spent.stale + kept ELSE spent.stale
           next == IF Rotates(cfg) THEN InitialRotation(now) ELSE 0
<1>1. /\ pc = "down"
      /\ spent' = [spent EXCEPT !.starts = @ + 1, !.first = spent.records + 1, !.faults = @ + kept,
                                !.stale = stale]
      /\ created' = list /\ nextRotation' = next /\ opened' = now /\ cfg' = cfg /\ now' = now
      /\ IF rotate THEN f' = g /\ pc' = "rename" /\ why' = "start" /\ left' = Len(list) /\ done' = <<>>
         ELSE f' = Constructed(h, cfg.file) /\ pc' = "ready"
  BY DEF Start, Idle
<1>2. /\ list \in Seq(Allowed) /\ InOrder(list) /\ list # <<>> /\ list[1] = Base /\ Len(list) \in Nat
      /\ Range(list) \ {Base} \subseteq DOMAIN f.disk \ Cleaned(f.disk)
  BY RecoveredFacts
<1>3. /\ cfg \in Configs /\ now \in Nat /\ SpentInv /\ f.file = "closed" /\ cfg.file \in FileSinkConfig
  BY <1>1, FileFits DEF RotatingIInv, SpentInv, CallInv
<1>4. /\ IsFiniteSet(DOMAIN f.disk) /\ removed \subseteq DOMAIN f.disk /\ Base \notin removed
      /\ IsFiniteSet(Cleaned(f.disk)) /\ Cleaned(f.disk) \subseteq DOMAIN f.disk
  <2>1. Cleaned(f.disk) \subseteq DOMAIN f.disk /\ Base \notin Cleaned(f.disk) /\ IsFiniteSet(DOMAIN f.disk)
    BY CleanedFacts
  <2>2. IsFiniteSet(Cleaned(f.disk))
    BY <2>1, FS_Subset
  <2> QED BY <2>1, <2>2
<1>5. kept \in Nat /\ (kept = 0 => Cleaned(f.disk) \subseteq removed)
  <2>1. IsFiniteSet(Cleaned(f.disk) \ removed)
    BY <1>4, FS_Subset
  <2>2. kept \in Nat /\ (kept = 0 => Cleaned(f.disk) \ removed = {})
    BY <2>1, FS_CardinalityType, FS_EmptySet
  <2> QED BY <2>2
<1> HIDE DEF kept
<1>6. stale \in Nat /\ next \in Nat /\ (Rotates(cfg) => next = InitialRotation(now))
  <2>1. spent.stale \in Nat
    BY <1>3 DEF SpentInv
  <2>2. Rotates(cfg) => InitialRotation(now) \in Nat
    BY <1>3, InitialRotationFacts
  <2> QED BY <1>5, <2>1, <2>2
<1> HIDE DEF list, rotate, log, fresh, stale, next
<1>7. /\ spent' \in [records : Nat, starts : Nat, faults : Nat, deletes : Nat, stale : Nat, first : Nat]
      /\ spent'.records = spent.records /\ spent'.first = spent.records + 1
      /\ spent'.faults = spent.faults + kept /\ spent.faults \in Nat
  <2>1. spent.records \in Nat /\ spent.starts \in Nat /\ spent.faults \in Nat
    BY <1>3 DEF SpentInv
  <2> DEFINE starts == spent.starts + 1  first == spent.records + 1  faults == spent.faults + kept
  <2>2. starts \in Nat /\ first \in Nat /\ faults \in Nat
    BY <1>5, <2>1
  <2>3. spent' = Begun(starts, first, faults, stale)
    BY <1>1 DEF Begun
  <2> HIDE DEF starts, first, faults
  <2>4. PICK a \in Nat, b \in Nat, c \in Nat, z \in Nat :
          a = starts /\ b = first /\ c = faults /\ z = stale
    BY <1>6, <2>2
  <2>5. /\ Begun(a, b, c, z)
             \in [records : Nat, starts : Nat, faults : Nat, deletes : Nat, stale : Nat, first : Nat]
        /\ Begun(a, b, c, z).records = spent.records
        /\ Begun(a, b, c, z).first = b /\ Begun(a, b, c, z).faults = c
    BY <1>3, <1>6, SpentStart
  <2>6. spent' = Begun(a, b, c, z)
    BY <2>3, <2>4
  <2>7. b = spent.records + 1 /\ c = spent.faults + kept
    BY <2>4 DEF first, faults
  <2> QED BY <2>1, <2>5, <2>6, <2>7
<1>8. NoFault' => NoFault /\ Cleaned(f.disk) \subseteq removed
  <2> SUFFICES ASSUME spent'.faults = 0 PROVE spent.faults = 0 /\ kept = 0
    BY <1>5 DEF NoFault
  <2> QED BY <1>5, <1>7
<1> DEFINE M == IF NoFault' THEN Range(list) \ {Base} ELSE {}
<1>9. M \subseteq DOMAIN f.disk \ removed
  BY <1>2, <1>8
<1>10. Kept' \subseteq M
  BY <1>1 DEF Kept
<1> HIDE DEF M
<1>11. FileInv(f, Kept, Allowed, RecordsOf(Known), RecordsOf(InFile), RecordsOf(Unwritten)) /\ DOMAIN f = Fields
  <2>1. FileInv(f, Kept, Allowed, RecordsOf(Known), RecordsOf(InFile), RecordsOf(Unwritten))
    BY FileFits
  <2> QED BY <2>1 DEF FileInv
<1>12. /\ DOMAIN g = Fields /\ g.disk = Unlink(f.disk, removed) /\ g.file = f.file /\ g.wrote = f.wrote
       /\ g.pending = f.pending
  BY <1>11 DEF Fields
<1> HIDE DEF g
<1>13. /\ FileInv(g, DOMAIN f.disk \ removed, Allowed, RecordsOf(Known), RecordsOf(InFile), RecordsOf(Unwritten))
       /\ DOMAIN g.disk = DOMAIN f.disk \ removed
  <2>1. f.file = "closed"
    BY <1>3
  <2> QED BY <1>11, <1>12, <2>1, RemovedInv
<1>14. FileInv(g, M, Allowed, RecordsOf(Known), RecordsOf(InFile), RecordsOf(Unwritten)) /\ g.file = "closed"
  <2>1. g.file = "closed"
    BY <1>3, <1>12
  <2> QED BY <1>9, <1>13, <2>1, FileInvWeaker
<1>15. /\ FileInv(started, M, Allowed, RecordsOf(Known), RecordsOf(InFile), RecordsOf(Unwritten))
       /\ started.file = "open"
  BY <1>3, <1>14, FileFits, OpenInv
<1> HIDE DEF started, size
<1>16. /\ FileInv(h, M, Allowed, RecordsOf(Known), RecordsOf(InFile), RecordsOf(Unwritten))
       /\ h.file = "open"
  BY <1>15, SizedInv
<1> HIDE DEF h
<1>17. /\ FileInv(f', M, Allowed, RecordsOf(Known), RecordsOf(InFile), RecordsOf(Unwritten))
       /\ f'.file = IF rotate THEN "closed" ELSE "open"
  <2>1. CASE rotate
    BY <1>1, <1>14, <2>1
  <2>2. CASE ~rotate
    <3>1. f' = Constructed(h, cfg.file)
      BY <1>1, <2>2
    <3> QED BY <1>16, <2>2, <3>1, MadeInv
  <2> QED BY <2>1, <2>2
<1>18. CallInv'
  <2>1. CASE rotate
    <3>1. Enabled' /\ ~Refused'
      BY <1>1, <1>2, <1>3, <2>1, ConfigFacts DEF Enabled, Refused, rotate
    <3> QED BY <1>1, <1>17, <2>1, <3>1 DEF CallInv, Renaming
  <2>2. CASE ~rotate
    BY <1>1, <1>17, <2>2 DEF CallInv, Renaming
  <2> QED BY <2>1, <2>2
<1>19. RenameInv'
  <2>1. CASE rotate
    <3>1. pc' = "rename" /\ left' = Len(list) /\ done' = <<>> /\ created' = list /\ f' = g
      BY <1>1, <2>1
    <3>2. Len(list) # 0
      BY <1>2
    <3>3. Len(done') = 0 /\ done' \in Seq([from : Allowed', to : Allowed', at : Nat])
      BY <3>1
    <3>4. DoneInv'
      BY <1>2, <3>1, <3>3 DEF DoneInv
    <3>5. Base \in DOMAIN g.disk
      <4>1. FileSize(f.disk, Base) > 0
        BY <2>1 DEF rotate, RotationRequested
      <4> QED BY <1>4, <1>13, <4>1, FileOnDisk
    <3>6. NoFault' => \A i \in 1..Len(list) : list[i] \in DOMAIN g.disk
      <4> SUFFICES ASSUME NoFault', NEW i \in 1..Len(list), list[i] # Base PROVE list[i] \in DOMAIN g.disk
        BY <3>5
      <4>1. list[i] \in M
        BY <1>2 DEF M, Range
      <4> QED BY <1>9, <1>13, <4>1
    <3>7. \A i \in (left' + 1)..Len(created') : FALSE
      BY <1>2, <3>1
    <3> QED BY <3>1, <3>2, <3>4, <3>6, <3>7 DEF RenameInv
  <2>2. CASE ~rotate
    BY <1>1, <2>2 DEF RenameInv, Renaming
  <2> QED BY <2>1, <2>2
<1>20. InOrder(created)'
  BY <1>1, <1>2 DEF InOrder
<1>21. pc' \in {"ready", "rename"}
  BY <1>1
<1> QED BY <1>1, <1>2, <1>6, <1>7, <1>8, <1>10, <1>17, <1>18, <1>19, <1>20, <1>21, StartedStep

LEMMA StartWithoutRotationStep ==
  ASSUME RotatingIInv, StartWithoutRotation
  PROVE  RotatingIInv'
<1> DEFINE fresh == (cfg.file.header # 0)
           e == [f EXCEPT !.fresh = fresh]
           g == OpenFile(e, cfg.file, OpenMode)
           size == FileSize(g.disk, Base)
           log == LogAfterStart({}, OpenMode = "w")
           h == [g EXCEPT !.size = size, !.log = log]
<1>1. /\ pc = "down" /\ pc' = "ready"
      /\ spent' = [spent EXCEPT !.starts = @ + 1, !.first = spent.records + 1, !.faults = @ + 1]
      /\ f' = Constructed(h, cfg.file)
      /\ created' = <<>> /\ nextRotation' = 0 /\ opened' = now /\ cfg' = cfg /\ now' = now
  BY DEF StartWithoutRotation
<1>2. /\ cfg \in Configs /\ now \in Nat /\ SpentInv /\ f.file = "closed" /\ cfg.file \in FileSinkConfig
  BY <1>1, FileFits DEF RotatingIInv, SpentInv, CallInv
<1>3. /\ spent' \in [records : Nat, starts : Nat, faults : Nat, deletes : Nat, stale : Nat, first : Nat]
      /\ spent'.records = spent.records /\ spent'.first = spent.records + 1 /\ spent'.faults # 0
  <2>1. spent.records \in Nat /\ spent.starts \in Nat /\ spent.faults \in Nat /\ spent.stale \in Nat
    BY <1>2 DEF SpentInv
  <2> DEFINE starts == spent.starts + 1  first == spent.records + 1  faults == spent.faults + 1
             same == spent.stale
  <2>2. starts \in Nat /\ first \in Nat /\ faults \in Nat /\ faults # 0 /\ same \in Nat
    BY <2>1
  <2>3. spent' = Begun(starts, first, faults, same)
    BY <1>1, <1>2 DEF Begun, SpentInv
  <2> HIDE DEF starts, first, faults, same
  <2>4. PICK a \in Nat, b \in Nat, c \in Nat, z \in Nat :
          a = starts /\ b = first /\ c = faults /\ z = same
    BY <2>2
  <2>5. /\ Begun(a, b, c, z)
             \in [records : Nat, starts : Nat, faults : Nat, deletes : Nat, stale : Nat, first : Nat]
        /\ Begun(a, b, c, z).records = spent.records
        /\ Begun(a, b, c, z).first = b /\ Begun(a, b, c, z).faults = c
    BY <1>2, SpentStart
  <2>6. spent' = Begun(a, b, c, z)
    BY <2>3, <2>4
  <2>7. b = spent.records + 1 /\ c # 0
    BY <2>2, <2>4 DEF first
  <2> QED BY <2>5, <2>6, <2>7
<1>4. FileInv(f, Kept, Allowed, RecordsOf(Known), RecordsOf(InFile), RecordsOf(Unwritten)) /\ DOMAIN f = Fields
  <2>1. FileInv(f, Kept, Allowed, RecordsOf(Known), RecordsOf(InFile), RecordsOf(Unwritten))
    BY FileFits
  <2> QED BY <2>1 DEF FileInv
<1> HIDE DEF fresh, size, log
<1>5. FileInv(e, Kept, Allowed, RecordsOf(Known), RecordsOf(InFile), RecordsOf(Unwritten)) /\ e.file = "closed"
  <2>1. DOMAIN e = Fields /\ e.disk = f.disk /\ e.file = f.file /\ e.pending = f.pending /\ e.wrote = f.wrote
    BY <1>4 DEF Fields
  <2> HIDE DEF e
  <2> QED BY <1>2, <1>4, <2>1, OtherFields
<1> HIDE DEF e
<1>6. FileInv(g, Kept, Allowed, RecordsOf(Known), RecordsOf(InFile), RecordsOf(Unwritten)) /\ g.file = "open"
  BY <1>2, <1>5, FileFits, OpenInv
<1> HIDE DEF g
<1>7. FileInv(h, Kept, Allowed, RecordsOf(Known), RecordsOf(InFile), RecordsOf(Unwritten)) /\ h.file = "open"
  <2>1. DOMAIN g = Fields
    BY <1>6 DEF FileInv
  <2>2. DOMAIN h = Fields /\ h.disk = g.disk /\ h.file = g.file /\ h.pending = g.pending /\ h.wrote = g.wrote
    BY <2>1 DEF Fields
  <2> HIDE DEF h
  <2> QED BY <1>6, <2>2, OtherFields
<1> HIDE DEF h
<1>8. /\ FileInv(f', Kept, Allowed, RecordsOf(Known), RecordsOf(InFile), RecordsOf(Unwritten))
      /\ f'.file = "open"
  BY <1>1, <1>7, MadeInv
<1>9. CallInv' /\ RenameInv'
  BY <1>1, <1>8 DEF CallInv, RenameInv, Renaming
<1>10. Kept' \subseteq Kept /\ ~NoFault'
  BY <1>3 DEF Kept, NoFault
<1>11. created' \in Seq(Allowed) /\ InOrder(created)'
  BY <1>1, EmptySeq DEF InOrder
<1>12. nextRotation' \in Nat /\ pc' \in {"ready", "rename"}
  BY <1>1
<1> QED BY <1>1, <1>3, <1>8, <1>9, <1>10, <1>11, <1>12, StartedStep

-----------------------------------------------------------------------------
(***************************************************************************)
(* The invariant, and what it says of the rotations.                       *)
(***************************************************************************)

LEMMA RotatingStarts ==
  ASSUME RotatingInit
  PROVE  RotatingIInv
<1>1. /\ cfg \in Configs /\ f = Closed /\ created = <<>> /\ nextRotation = 0 /\ opened = 0
      /\ pc = "down" /\ now = 0
      /\ spent = [records |-> 0, starts |-> 0, faults |-> 0, deletes |-> 0, stale |-> 0, first |-> 0]
  BY DEF RotatingInit
<1>2. SpentInv
  BY <1>1 DEF SpentInv
<1>3. ListInv
  BY <1>1, EmptySeq DEF ListInv, InOrder
<1>4. CallInv
  BY <1>1 DEF CallInv, Renaming, Closed
<1>5. RenameInv /\ Boundary
  BY <1>1 DEF RenameInv, Renaming, Boundary, Live
<1>6. Kept = {}
  <2>1. Range(created) = {}
    BY <1>1 DEF Range
  <2> QED BY <2>1 DEF Kept
<1>7. ASSUME NEW N, NEW A, NEW B, NEW E PROVE FileInv(Closed, {}, N, A, B, E)
  <2>1. /\ DOMAIN Closed = Fields /\ DOMAIN Closed.disk = {} /\ Closed.file = "closed"
        /\ Closed.pending = <<>> /\ Closed.wrote = FALSE /\ Closed.disk = [n \in {} |-> <<>>]
    BY DEF Closed, Fields
  <2>2. DiskInv(Closed.disk, {}, N, A, B)
    BY <2>1, FS_EmptySet DEF DiskInv
  <2> QED BY <2>1, <2>2, EmptySeq DEF FileInv
<1>8. DiskFits
  BY <1>1, <1>6, <1>7 DEF DiskFits
<1> QED BY <1>2, <1>3, <1>4, <1>5, <1>8 DEF RotatingIInv

LEMMA RotatingStutters ==
  ASSUME RotatingIInv, UNCHANGED rotatingVars
  PROVE  RotatingIInv'
<1>1. /\ cfg' = cfg /\ f' = f /\ created' = created /\ nextRotation' = nextRotation /\ opened' = opened
      /\ pc' = pc /\ why' = why /\ cur' = cur /\ left' = left /\ done' = done /\ now' = now /\ spent' = spent
  BY DEF rotatingVars, call
<1>2. Allowed' = Allowed /\ Enabled' = Enabled /\ Refused' = Refused /\ NoFault' = NoFault /\ Period' = Period
  BY <1>1 DEF Allowed, Enabled, Refused, NoFault, Period
<1>3. Live' = Live /\ Renaming' = Renaming
  BY <1>1, <1>2 DEF Live, Renaming
<1>4. OnTime' = OnTime
  BY <1>1, <1>2, <1>3 DEF OnTime
<1>5. Known' = Known
  BY <1>1, <1>3 DEF Known
<1>6. InFile' = InFile
  <2>1. \A k : Recent(k)' = Recent(k)
    BY <1>1, <1>2 DEF Recent
  <2> QED BY <1>4, <1>5, <2>1 DEF InFile
<1>7. Unwritten' = Unwritten /\ Kept' = Kept
  BY <1>1, <1>2, <1>3, <1>5 DEF Unwritten, Kept
<1>8. SpentInv' /\ ListInv' /\ Boundary'
  <2>1. SpentInv'
    BY <1>1 DEF RotatingIInv, SpentInv
  <2>2. InOrder(created)' = InOrder(created) /\ OnBoundary(nextRotation)' = OnBoundary(nextRotation)
    BY <1>1 DEF InOrder, OnBoundary
  <2> QED BY <1>1, <1>2, <1>3, <2>1, <2>2 DEF RotatingIInv, ListInv, Boundary
<1>9. CallInv'
  <2>1. CurFacts' = CurFacts
    BY <1>1, <1>3 DEF CurFacts
  <2> QED BY <1>1, <1>2, <1>3, <2>1 DEF RotatingIInv, CallInv
<1>10. RenameInv'
  <2>1. \A i : Renames(created[i])' <=> Renames(created[i])
    BY <1>1, SameNames
  <2>2. \A i : After(i)' = After(i)
    BY <1>1, SameNames
  <2>3. DoneInv => DoneInv'
    BY <1>1, SameDone
  <2> QED BY <1>1, <1>2, <1>3, <2>1, <2>2, <2>3 DEF RotatingIInv, RenameInv
<1>11. DiskFits'
  <2>1. /\ RecordsOf(Known)' = RecordsOf(Known) /\ RecordsOf(InFile)' = RecordsOf(InFile)
        /\ RecordsOf(Unwritten)' = RecordsOf(Unwritten)
    BY <1>5, <1>6, <1>7 DEF RecordsOf
  <2> QED BY <1>1, <1>2, <1>7, <2>1 DEF RotatingIInv, DiskFits
<1> QED BY <1>8, <1>9, <1>10, <1>11 DEF RotatingIInv

LEMMA RotatingSteps ==
  ASSUME RotatingIInv, RotatingNext
  PROVE  RotatingIInv'
<1>1. ASSUME NEW late \in 0..Lateness[cfg.scheme], late <= now,
             WriteFirstHeader(now - late) \/ \E size \in Sizes : WriteRecord(size, now - late)
      PROVE  RotatingIInv'
  <2>1. now \in Nat /\ Lateness[cfg.scheme] \in Nat
    BY ConfigFacts DEF RotatingIInv, SpentInv
  <2>2. now - late \in 0..now /\ (Lateness[cfg.scheme] = 0 => now - late = now)
    BY <1>1, <2>1
  <2>3. CASE WriteFirstHeader(now - late)
    BY <2>2, <2>3, WriteFirstHeaderStep
  <2>4. CASE \E size \in Sizes : WriteRecord(size, now - late)
    BY <2>2, <2>4, WriteRecordStep
  <2> QED BY <1>1, <2>3, <2>4
<1>2. CASE RotateReopens \/ RotateEmpty \/ RotateCloses \/ RotateThrows
  BY <1>2, RotateReopensStep, RotateEmptyStep, RotateClosesStep, RotateThrowsStep
<1>3. CASE Rename \/ RenameFails \/ Undo \/ Abort \/ Commit
  BY <1>3, RenameStep, RenameFailsStep, UndoStep, AbortStep, CommitStep
<1>4. CASE AppendRecord \/ AppendThrows \/ Flush
  BY <1>4, AppendStep, FlushStep
<1>5. CASE \E removed \in SUBSET Cleaned(f.disk) : Start(removed)
  BY <1>5, StartStep
<1>6. CASE StartWithoutRotation \/ Shutdown \/ Crash \/ DeleteFile \/ Tick
  BY <1>6, StartWithoutRotationStep, ShutdownStep, CrashStep, DeleteFileStep, TickStep
<1> QED BY <1>1, <1>2, <1>3, <1>4, <1>5, <1>6 DEF RotatingNext

\* What the current file and the buffer hold.
LEMMA CurrentFacts ==
  ASSUME RotatingIInv, NEW r \in Range(Current)
  PROVE  r \in RecordsOf(InFile)
<1> DEFINE B == RecordsOf(InFile)
           p == IF Base \in DOMAIN f.disk THEN f.disk[Base] ELSE <<>>
           q == f.pending
<1>1. FileInv(f, Kept, Allowed, RecordsOf(Known), B, RecordsOf(Unwritten))
  BY FileFits
<1> HIDE DEF B
<1>2. p \in Seq(B) /\ q \in Seq(B)
  BY <1>1, EmptySeq DEF FileInv, DiskInv
<1>3. Current = p \o q
  BY DEF Current
<1> HIDE DEF p, q
<1>4. p \o q \in Seq(B)
  BY <1>2, ConcatProperties
<1>5. \E i \in 1..Len(p \o q) : r = (p \o q)[i]
  BY <1>3, <1>4 DEF Range
<1>6. r \in B
  BY <1>4, <1>5, ElementOfSeq
<1> QED BY <1>6 DEF B

LEMMA RotatesOnTimeHolds ==
  ASSUME RotatingIInv
  PROVE  RotatesOnTime
<1> SUFFICES ASSUME pc = "ready", Enabled, Rotates(cfg)
    PROVE  /\ \A r \in Range(Current) : r.ts < nextRotation
           /\ IF cfg.frequency = "daily" THEN nextRotation % DayLength = cfg.daily
              ELSE nextRotation % cfg.unit = 0
           /\ spent.faults = 0 /\ ~Refused /\ Lateness[cfg.scheme] = 0
                => \A r \in Range(Current) : r.id >= spent.first => r.ts >= nextRotation - Period
  BY DEF RotatesOnTime
<1>1. Live
  BY DEF Live
<1>2. cfg \in Configs /\ nextRotation \in Nat /\ OnBoundary(nextRotation) /\ spent.first \in Nat
  BY <1>1 DEF RotatingIInv, SpentInv, Boundary
<1>3. ASSUME NEW r \in Range(Current) PROVE r.ts < nextRotation
  <2>1. <<r.id, r.ts>> \in Known
    BY CurrentFacts DEF RecordsOf, InFile
  <2> QED BY <1>1, <2>1 DEF Known
<1>4. IF cfg.frequency = "daily" THEN nextRotation % DayLength = cfg.daily ELSE nextRotation % cfg.unit = 0
  BY <1>2, BoundaryModulo
<1>5. ASSUME spent.faults = 0, ~Refused, Lateness[cfg.scheme] = 0,
             NEW r \in Range(Current), r.id >= spent.first
      PROVE  r.ts >= nextRotation - Period
  <2>1. r \in Record /\ <<r.id, r.ts>> \in InFile
    BY CurrentFacts DEF RecordsOf
  <2>2. OnTime
    BY <1>1, <1>5 DEF OnTime, NoFault
  <2>3. r.id < spent.first \/ r.ts >= nextRotation - Period
    BY <2>1, <2>2 DEF InFile, Recent
  <2>4. r.id \in Nat
    BY <2>1 DEF Record
  <2>5. ~(r.id < spent.first)
    BY <1>2, <1>5, <2>4
  <2> QED BY <2>3, <2>5
<1> QED BY <1>3, <1>4, <1>5

\* The invariant holds in every state of the sink: after every rotation, whichever
\* of its system calls failed, after every crash between two of them and every
\* start that finds the files of an earlier run.
THEOREM RotatingInvariance == RotatingSpec => []RotatingIInv
<1>1. RotatingInit => RotatingIInv
  BY RotatingStarts
<1>2. RotatingIInv /\ [RotatingNext]_rotatingVars => RotatingIInv'
  BY RotatingSteps, RotatingStutters
<1> QED BY <1>1, <1>2, PTL DEF RotatingSpec

\* The next rotation of RotatingSink lies ahead of every record of the current
\* file and on the boundary configured, for every configuration, whatever fails;
\* and while nothing fails, no file has records of this sink from both sides of a
\* boundary (_time_rotation, _calculate_rotation_tp).
THEOREM AlwaysRotatesOnTime == RotatingSpec => []RotatesOnTime
BY RotatingInvariance, RotatesOnTimeHolds, PTL

-----------------------------------------------------------------------------
(***************************************************************************)
(* The headers of CSV files.  While nothing fails, a file that is not      *)
(* empty begins with its header; whether the current one is empty is told  *)
(* by the header that is due, or by the record that is being written.      *)
(***************************************************************************)

Headed(s) == \A i \in 1..Len(s) : (s[i].id = 0 <=> i = 1) /\ s[i].size > 0

\* What the current file and the buffer hold.
Content(g) == (IF Base \in DOMAIN g.disk THEN g.disk[Base] ELSE <<>>) \o g.pending

DiskHeads(g) ==
  /\ \A n \in DOMAIN g.disk : n # Base => Headed(g.disk[n])
  /\ Base \in DOMAIN g.disk => Headed(Content(g))
  /\ g.file = "unlinked" => Base \notin DOMAIN g.disk

HeadsRight(g) ==
  /\ DiskHeads(g)
  /\ g.file = "closed" \/ g.due => ~g.wrote
  /\ g.file # "closed" => ~g.fresh

\* What a call knows of the file that it writes to.
CallHeads ==
  /\ pc = "ready" /\ f.file = "open" => (f.due <=> Content(f) = <<>>)
  /\ pc \in {"rotate", "append"} =>
       /\ ~f.due /\ cur.size > 0 /\ (cur.id = 0 => ~f.wrote)
       /\ f.file = "open" => (cur.id = 0 <=> Content(f) = <<>>)
  /\ Renaming => /\ f.fresh <=> why = "start"
                 /\ why # "start" => ~f.due /\ cur.id # 0 /\ cur.size > 0

HeadersKept == cfg.file.header # 0 /\ NoFault /\ (cfg.file.mode = "a" \/ cfg.overwrite)

HeaderInv == HeadersKept => HeadsRight(f) /\ CallHeads

\* Any records under any names.
Typed(g) == FileInv(g, {}, Name, Record, Record, Record)

LEMMA HeadedAppend ==
  ASSUME NEW A, NEW s \in Seq(A), NEW r \in A, Headed(s), r.id = 0 <=> s = <<>>, r.size > 0
  PROVE  Headed(Append(s, r)) /\ Append(s, r) # <<>>
<1>1. PICK n \in Nat : n = Len(s) /\ (n = 0 <=> s = <<>>)
  BY EmptySeq
<1>2. PICK q \in Seq(A) : q = Append(s, r)
  BY AppendProperties
<1>3. Len(q) = n + 1 /\ q[n + 1] = r /\ \A i \in 1..n : q[i] = s[i]
  BY <1>1, <1>2, AppendProperties
<1>4. ASSUME NEW i \in 1..Len(q) PROVE (q[i].id = 0 <=> i = 1) /\ q[i].size > 0
  <2>1. CASE i = n + 1
    BY <1>1, <1>3, <2>1
  <2>2. CASE i # n + 1
    <3>1. i \in 1..n
      BY <1>3, <2>2
    <3> QED BY <1>1, <1>3, <3>1 DEF Headed
  <2> QED BY <2>1, <2>2
<1>5. q # <<>>
  BY <1>1, <1>3, EmptySeq
<1> QED BY <1>2, <1>4, <1>5 DEF Headed

LEMMA HeadedPrefix ==
  ASSUME NEW A, NEW s \in Seq(A), NEW t \in Seq(A), Headed(s \o t)
  PROVE  Headed(s)
<1>1. PICK k \in Nat, l \in Nat : k = Len(s) /\ l = Len(t)
  OBVIOUS
<1>2. PICK q \in Seq(A) : q = s \o t
  BY ConcatProperties
<1>3. Len(q) = k + l /\ \A i \in 1..k : q[i] = s[i]
  <2>1. Len(s \o t) = Len(s) + Len(t) /\ \A i \in 1..Len(s) : (s \o t)[i] = s[i]
    BY ConcatProperties
  <2> QED BY <1>1, <1>2, <2>1
<1>4. \A i \in 1..k : i \in 1..Len(q)
  BY <1>3
<1> QED BY <1>1, <1>2, <1>3, <1>4 DEF Headed

LEMMA JoinedFacts ==
  ASSUME NEW A, NEW s \in Seq(A), NEW t \in Seq(A), NEW r \in A
  PROVE  /\ s \o t \in Seq(A) /\ s \o <<>> = s /\ <<>> \o s = s
         /\ s \o Append(t, r) = Append(s \o t, r)
         /\ (s \o t = <<>>) <=> (s = <<>> /\ t = <<>>)
<1>1. s \o t \in Seq(A) /\ s \o <<>> = s /\ <<>> \o s = s
  BY ConcatProperties
<1>2. (s \o t = <<>>) <=> (s = <<>> /\ t = <<>>)
  <2>1. Len(s \o t) = Len(s) + Len(t) /\ Len(s) \in Nat /\ Len(t) \in Nat
    BY ConcatProperties
  <2>2. Len(s) + Len(t) = 0 <=> Len(s) = 0 /\ Len(t) = 0
    BY <2>1
  <2> QED BY <1>1, <2>1, <2>2, EmptySeq
<1>3. s \o Append(t, r) = Append(s \o t, r)
  <2>1. PICK u : u = <<r>> /\ u \in Seq(A)
    <3>1. <<r>> \in Seq(A)
      OBVIOUS
    <3> QED BY <3>1
  <2>2. Append(t, r) = t \o u /\ Append(s \o t, r) = (s \o t) \o u
    BY <1>1, <2>1, AppendIsConcat
  <2>3. (s \o t) \o u = s \o (t \o u)
    BY ConcatAssociative
  <2> QED BY <2>2, <2>3
<1> QED BY <1>1, <1>2, <1>3

LEMMA HeadedNothing == Headed(<<>>)
BY EmptySeq DEF Headed

LEMMA AllRecords == FileSets(Name, Record, Record, Record)
<1>1. Base \in Name
  BY DEF Base, Name
<1>2. ASSUME NEW r \in Record PROVE Torn(r) \in Record /\ \A n \in Nat : [r EXCEPT !.size = @ + n] \in Record
  <2>1. r.size \in Nat /\ Torn(r) \in Record
    BY DEF Record, Torn
  <2>2. ASSUME NEW n \in Nat PROVE [r EXCEPT !.size = @ + n] \in Record
    <3>1. r.size + n \in Nat
      BY <2>1
    <3> QED BY <3>1 DEF Record
  <2> QED BY <2>1, <2>2
<1>3. ASSUME NEW c \in FileSinkConfig PROVE Header(c) \in Record
  BY DEF FileSinkConfig, Header, Record
<1> QED BY <1>1, <1>2, <1>3 DEF FileSets, RecordSet

LEMMA TypedFile == ASSUME RotatingIInv PROVE Typed(f)
<1> DEFINE K == RecordsOf(Known)  I == RecordsOf(InFile)  U == RecordsOf(Unwritten)
<1>1. FileInv(f, Kept, Allowed, K, I, U) /\ K \subseteq Record /\ I \subseteq Record /\ U \subseteq Record
      /\ Allowed \subseteq Name
  BY DEF RotatingIInv, DiskFits, RecordsOf, Allowed
<1> HIDE DEF K, I, U
<1>2. FileInv(f, {}, Allowed, Record, Record, Record)
  BY <1>1, FileInvWeaker
<1> QED BY <1>1, <1>2 DEF Typed, FileInv, DiskInv

LEMMA ContentTyped ==
  ASSUME NEW g, Typed(g)
  PROVE  /\ DOMAIN g = Fields /\ g.pending \in Seq(Record) /\ Content(g) \in Seq(Record)
         /\ \A n \in DOMAIN g.disk : g.disk[n] \in Seq(Record)
         /\ g.file = "open" => Base \in DOMAIN g.disk
         /\ g.file = "closed" => g.pending = <<>>
         /\ g.file \in {"closed", "open", "unlinked"} /\ g.wrote \in BOOLEAN
<1>1. /\ DOMAIN g = Fields /\ g.pending \in Seq(Record)
      /\ \A n \in DOMAIN g.disk : g.disk[n] \in Seq(Record)
      /\ g.file = "open" => Base \in DOMAIN g.disk
      /\ g.file = "closed" => g.pending = <<>>
      /\ g.file \in {"closed", "open", "unlinked"} /\ g.wrote \in BOOLEAN
  BY DEF Typed, FileInv, DiskInv
<1>2. (IF Base \in DOMAIN g.disk THEN g.disk[Base] ELSE <<>>) \in Seq(Record)
  BY <1>1
<1>3. Content(g) \in Seq(Record)
  BY <1>1, <1>2, JoinedFacts DEF Content
<1> QED BY <1>1, <1>3

\* Without anything in the buffer all files are alike.
LEMMA NothingPending ==
  ASSUME NEW g, Typed(g), g.pending = <<>>
  PROVE  /\ Content(g) = IF Base \in DOMAIN g.disk THEN g.disk[Base] ELSE <<>>
         /\ DiskHeads(g) <=> /\ \A n \in DOMAIN g.disk : Headed(g.disk[n])
                             /\ g.file = "unlinked" => Base \notin DOMAIN g.disk
<1> DEFINE s == IF Base \in DOMAIN g.disk THEN g.disk[Base] ELSE <<>>
<1>1. s \in Seq(Record)
  BY ContentTyped
<1>2. Content(g) = s \o <<>>
  BY DEF Content
<1>3. s \o <<>> = s
  <2> HIDE DEF s
  <2> QED BY <1>1, JoinedFacts
<1> QED BY <1>2, <1>3 DEF DiskHeads

LEMMA HeadsDrain ==
  ASSUME NEW g, Typed(g), DiskHeads(g)
  PROVE  /\ Typed(Drain(g)) /\ DiskHeads(Drain(g)) /\ Drain(g).pending = <<>>
         /\ Drain(g).file = g.file /\ Drain(g).wrote = g.wrote /\ Drain(g).fresh = g.fresh /\ Drain(g).due = g.due
         /\ DOMAIN Drain(g).disk = DOMAIN g.disk
         /\ g.file # "unlinked" => Content(Drain(g)) = Content(g)
<1>1. /\ Typed(Drain(g)) /\ Drain(g).pending = <<>> /\ Drain(g).file = g.file /\ Drain(g).wrote = g.wrote
      /\ DOMAIN Drain(g).disk = DOMAIN g.disk
      /\ g.file # "open" => Drain(g).disk = g.disk
  BY AllRecords, DrainInv DEF Typed
<1>2. DOMAIN g = Fields /\ (g.file = "open" => Base \in DOMAIN g.disk) /\ (g.file = "closed" => g.pending = <<>>)
      /\ g.file \in {"closed", "open", "unlinked"}
  BY ContentTyped
<1>3. Drain(g).fresh = g.fresh /\ Drain(g).due = g.due
  BY <1>2 DEF Drain, Fields
<1> DEFINE e == Drain(g)
<1>4. CASE g.file = "open"
  <2>1. e.disk = [g.disk EXCEPT ![Base] = Content(g)]
    BY <1>2, <1>4 DEF Drain, Content, Fields
  <2>2. e.disk[Base] = Content(g) /\ \A n \in DOMAIN g.disk : n # Base => e.disk[n] = g.disk[n]
    BY <1>2, <1>4, <2>1
  <2> HIDE DEF e
  <2>3. \A n \in DOMAIN e.disk : Headed(e.disk[n])
    BY <1>1, <1>2, <1>4, <2>2 DEF DiskHeads, e
  <2>4. DiskHeads(e) /\ Content(e) = Content(g)
    BY <1>1, <1>2, <1>4, <2>2, <2>3, NothingPending DEF e
  <2> QED BY <1>1, <1>3, <2>4 DEF e
<1>5. CASE g.file # "open"
  <2>1. e.disk = g.disk /\ e.pending = <<>> /\ e.file = g.file
    BY <1>1, <1>5
  <2> HIDE DEF e
  <2>2. DiskHeads(e) /\ (g.file = "closed" => Content(e) = Content(g))
    <3>1. CASE g.file = "closed"
      BY <1>2, <2>1, <3>1 DEF DiskHeads, Content
    <3>2. CASE g.file = "unlinked"
      BY <2>1, <3>2 DEF DiskHeads
    <3> QED BY <1>2, <1>5, <3>1, <3>2
  <2> QED BY <1>1, <1>2, <1>3, <1>5, <2>2 DEF e
<1> QED BY <1>4, <1>5

LEMMA HeadsClose ==
  ASSUME NEW g, NEW c, Typed(g), DiskHeads(g)
  PROVE  /\ Typed(CloseFile(g, c)) /\ DiskHeads(CloseFile(g, c))
         /\ CloseFile(g, c).pending = <<>> /\ CloseFile(g, c).file = "closed"
         /\ CloseFile(g, c).wrote = g.wrote /\ CloseFile(g, c).fresh = g.fresh /\ CloseFile(g, c).due = g.due
         /\ DOMAIN CloseFile(g, c).disk = DOMAIN g.disk
         /\ g.file # "unlinked" => Content(CloseFile(g, c)) = Content(g)
<1> DEFINE h == CloseFile(g, c)  e == Drain(g)
<1>1. /\ Typed(h) /\ h.pending = <<>> /\ h.file = "closed" /\ h.wrote = g.wrote
      /\ DOMAIN h.disk = DOMAIN g.disk
  BY AllRecords, CloseInv DEF Typed
<1>2. CASE g.file = "closed"
  <2>1. h = g
    BY <1>2 DEF CloseFile, NativeClose, StreamClose
  <2> QED BY <1>1, <2>1
<1>3. CASE g.file # "closed"
  <2>1. /\ Typed(e) /\ DiskHeads(e) /\ e.pending = <<>> /\ e.fresh = g.fresh /\ e.due = g.due
        /\ g.file # "unlinked" => Content(e) = Content(g)
    BY HeadsDrain
  <2>2. h = [e EXCEPT !.file = "closed"] \/ h = [e EXCEPT !.file = "closed", !.pending = <<>>]
    BY <1>3 DEF CloseFile, NativeClose, StreamClose
  <2> HIDE DEF h, e
  <2>3. DOMAIN e = Fields
    BY <2>1, ContentTyped
  <2>4. h.disk = e.disk /\ h.fresh = e.fresh /\ h.due = e.due
    BY <2>2, <2>3 DEF Fields
  <2>5. Content(h) = Content(e)
    BY <1>1, <2>1, <2>4 DEF Content, h
  <2>6. DiskHeads(h)
    BY <1>1, <2>1, <2>4, <2>5 DEF DiskHeads, h
  <2> QED BY <1>1, <2>1, <2>4, <2>5, <2>6 DEF h
<1> QED BY <1>2, <1>3

LEMMA HeadsOpen ==
  ASSUME NEW g, NEW c \in FileSinkConfig, NEW mode, Typed(g), DiskHeads(g), g.file = "closed",
         c.header # 0, g.fresh \/ mode = "w" \/ Base \notin DOMAIN g.disk
  PROVE  LET h == OpenFile(g, c, mode)
         IN  /\ Typed(h) /\ DiskHeads(h) /\ h.file = "open" /\ h.wrote = g.wrote /\ h.due = g.due /\ ~h.fresh
             /\ g.fresh => /\ h.pending = <<>>
                           /\ Content(h) = IF mode = "w" \/ Base \notin DOMAIN g.disk THEN <<>> ELSE Content(g)
             /\ ~g.fresh => Content(h) = <<Header(c)>>
<1> DEFINE h == OpenFile(g, c, mode)
           e == IF c.native THEN NativeOpen(g, mode) ELSE StreamOpen(g, mode)
           s == IF mode = "w" \/ Base \notin DOMAIN g.disk THEN <<>> ELSE g.disk[Base]
<1>1. /\ Typed(h) /\ h.file = "open" /\ h.wrote = g.wrote /\ DOMAIN h.disk = DOMAIN g.disk \cup {Base}
  BY AllRecords, OpenInv DEF Typed
<1>2. /\ DOMAIN g = Fields /\ g.pending = <<>> /\ Content(g) = IF Base \in DOMAIN g.disk THEN g.disk[Base] ELSE <<>>
      /\ \A n \in DOMAIN g.disk : Headed(g.disk[n])
  BY ContentTyped, NothingPending
<1>3. /\ DOMAIN Opened(g.disk, mode) = DOMAIN g.disk \cup {Base} /\ Opened(g.disk, mode)[Base] = s
      /\ \A n \in DOMAIN g.disk : n # Base => Opened(g.disk, mode)[n] = g.disk[n]
  BY DEF Opened, Put
<1>4. Headed(s) /\ s \in Seq(Record)
  BY <1>2, HeadedNothing, ContentTyped
<1>5. /\ DOMAIN e = Fields /\ e.disk = Opened(g.disk, mode) /\ e.file = "open" /\ e.pending = <<>>
      /\ e.fresh = g.fresh /\ e.due = g.due
  <2>1. CASE c.native
    BY <1>2, <2>1 DEF NativeOpen, Fields
  <2>2. CASE ~c.native
    BY <1>2, <2>2 DEF StreamOpen, Fields
  <2> QED BY <2>1, <2>2
<1>6. h = IF e.fresh THEN [e EXCEPT !.fresh = FALSE] ELSE WriteHeader(e, c)
  BY DEF OpenFile, AfterOpen
<1> HIDE DEF h, e, s
<1>7. CASE g.fresh
  <2>1. h.disk = e.disk /\ h.pending = <<>> /\ h.due = e.due /\ h.fresh = FALSE
    BY <1>5, <1>6, <1>7 DEF Fields
  <2>2. Content(h) = s /\ DiskHeads(h)
    <3>1. \A n \in DOMAIN h.disk : Headed(h.disk[n])
      BY <1>2, <1>3, <1>4, <1>5, <2>1
    <3> QED BY <1>1, <1>3, <1>5, <2>1, <3>1, NothingPending DEF h
  <2>3. s = IF mode = "w" \/ Base \notin DOMAIN g.disk THEN <<>> ELSE Content(g)
    BY <1>2 DEF s
  <2> QED BY <1>1, <1>5, <1>7, <2>1, <2>2, <2>3 DEF h
<1>8. CASE ~g.fresh
  <2>1. s = <<>>
    BY <1>8 DEF s
  <2>2. PICK q : q = <<Header(c)>>
    OBVIOUS
  <2>3. q \in Seq(Record) /\ Append(<<>>, Header(c)) = q /\ Headed(q)
    <3>1. Header(c) \in Record /\ Header(c).id = 0 /\ Header(c).size = c.header /\ c.header \in Nat
      BY AllRecords DEF FileSets, Header, FileSinkConfig
    <3>2. q \in Seq(Record) /\ Append(<<>>, Header(c)) = q /\ Len(q) = 1 /\ q[1] = Header(c)
      BY <2>2, <3>1
    <3> QED BY <3>1, <3>2 DEF Headed
  <2>4. /\ h.due = e.due /\ h.fresh = FALSE
        /\ \A n \in DOMAIN g.disk : n # Base => h.disk[n] = g.disk[n]
        /\ \/ h.disk[Base] = q /\ h.pending = <<>>
           \/ h.disk[Base] = <<>> /\ h.pending = q
    <3>1. CASE c.native
      <4>1. h = [e EXCEPT !.disk[Base] = Append(@, Header(c))]
        BY <1>5, <1>6, <1>8, <3>1 DEF WriteHeader
      <4>2. h.disk = [e.disk EXCEPT ![Base] = Append(@, Header(c))] /\ h.pending = e.pending /\ h.due = e.due /\ h.fresh = e.fresh
        BY <1>5, <4>1 DEF Fields
      <4>3. h.disk[Base] = q /\ \A n \in DOMAIN g.disk : n # Base => h.disk[n] = g.disk[n]
        BY <1>3, <1>5, <2>1, <2>3, <4>2
      <4> QED BY <1>5, <1>8, <4>2, <4>3
    <3>2. CASE ~c.native
      <4>1. h = [e EXCEPT !.pending = Append(@, Header(c))]
        BY <1>5, <1>6, <1>8, <3>2 DEF WriteHeader
      <4>2. h.disk = e.disk /\ h.pending = Append(e.pending, Header(c)) /\ h.due = e.due /\ h.fresh = e.fresh
        BY <1>5, <4>1 DEF Fields
      <4> QED BY <1>3, <1>5, <1>8, <2>1, <2>3, <4>2
    <3> QED BY <3>1, <3>2
  <2>5. Content(h) = q
    <3>1. Content(h) = q \o <<>> \/ Content(h) = <<>> \o q
      BY <1>1, <2>4 DEF Content, h
    <3> QED BY <2>3, <3>1, JoinedFacts
  <2>6. DiskHeads(h)
    BY <1>1, <1>2, <2>3, <2>4, <2>5 DEF DiskHeads, h
  <2> QED BY <1>1, <1>5, <1>8, <2>2, <2>4, <2>5, <2>6 DEF h
<1> QED BY <1>7, <1>8

\* Only these fields matter.
LEMMA HeadsSame ==
  ASSUME NEW g, NEW h, Typed(g), DiskHeads(g), DOMAIN h = Fields,
         h.disk = g.disk, h.file = g.file, h.pending = g.pending, h.wrote = g.wrote
  PROVE  Typed(h) /\ DiskHeads(h) /\ Content(h) = Content(g)
BY OtherFields DEF Typed, DiskHeads, Content

LEMMA HeadsFlush ==
  ASSUME NEW g, NEW c \in FileSinkConfig, Typed(g), HeadsRight(g), c.header # 0, g.file # "closed"
  PROVE  LET h == FlushSink(g, c)
         IN  /\ Typed(h) /\ HeadsRight(h) /\ h.file # "closed" /\ ~h.wrote /\ h.due = g.due
             /\ g.file = "open" => h.file = "open" /\ Content(h) = Content(g)
             /\ g.file = "unlinked" =>
                  IF g.wrote THEN h.file = "open" /\ Content(h) = <<Header(c)>> ELSE h.file = "unlinked"
<1> DEFINE h == FlushSink(g, c)
<1>1. /\ DOMAIN g = Fields /\ g.file \in {"closed", "open", "unlinked"} /\ (g.file = "open" => Base \in DOMAIN g.disk)
      /\ DiskHeads(g) /\ (g.due => ~g.wrote) /\ ~g.fresh
  BY ContentTyped DEF HeadsRight
<1>2. CASE ~g.wrote
  <2>1. h = g
    BY <1>2 DEF FlushSink, NativeFlush, StreamFlush
  <2> QED BY <1>1, <1>2, <2>1
<1>3. CASE g.wrote
  <2> DEFINE d == Drain(g)  e == [d EXCEPT !.wrote = FALSE]
  <2>1. /\ Typed(d) /\ DiskHeads(d) /\ d.pending = <<>> /\ d.file = g.file /\ d.fresh = g.fresh /\ d.due = g.due
        /\ DOMAIN d.disk = DOMAIN g.disk /\ (g.file # "unlinked" => Content(d) = Content(g)) /\ DOMAIN d = Fields
    BY <1>1, HeadsDrain, ContentTyped
  <2>2. h = IF Base \in DOMAIN e.disk THEN e ELSE Reopen(e, c)
    BY <1>3 DEF FlushSink, NativeFlush, StreamFlush
  <2> HIDE DEF d, h
  <2>3. /\ Typed(e) /\ DOMAIN e = Fields /\ e.disk = d.disk /\ e.file = d.file /\ e.pending = <<>> /\ e.wrote = FALSE
        /\ e.fresh = d.fresh /\ e.due = d.due
    <3>1. Typed(e) /\ e.disk = d.disk /\ e.file = d.file /\ e.pending = <<>>
      BY <2>1, NotWrittenInv DEF Typed
    <3> QED BY <2>1, <3>1 DEF Fields
  <2> HIDE DEF e
  <2>4. DiskHeads(e) /\ Content(e) = Content(d)
    BY <2>1, <2>3 DEF DiskHeads, Content
  <2>5. CASE g.file = "open"
    <3>1. h = e
      BY <1>1, <2>1, <2>2, <2>3, <2>5
    <3> QED BY <1>1, <2>1, <2>3, <2>4, <2>5, <3>1 DEF HeadsRight, h
  <2>6. CASE g.file = "unlinked"
    <3> DEFINE k == CloseFile(e, c)  o == OpenFile(k, c, c.mode)
    <3>1. Base \notin DOMAIN e.disk
      BY <1>1, <2>1, <2>3, <2>6 DEF DiskHeads
    <3>2. /\ Typed(k) /\ DiskHeads(k) /\ k.file = "closed" /\ k.wrote = FALSE /\ k.fresh = g.fresh /\ k.due = g.due
          /\ Base \notin DOMAIN k.disk
      BY <2>1, <2>3, <2>4, <3>1, HeadsClose
    <3>3. h = [o EXCEPT !.size = FileSize(o.disk, Base)]
      BY <2>2, <3>1 DEF Reopen
    <3> HIDE DEF k
    <3>4. /\ Typed(o) /\ DiskHeads(o) /\ o.file = "open" /\ o.wrote = FALSE /\ o.due = g.due /\ ~o.fresh
          /\ Content(o) = <<Header(c)>>
      <4>1. ~k.fresh
        BY <1>1, <3>2
      <4>2. Typed(o) /\ DiskHeads(o) /\ o.file = "open" /\ o.wrote = k.wrote /\ o.due = k.due /\ ~o.fresh
            /\ (~k.fresh => Content(o) = <<Header(c)>>)
        BY <3>2, HeadsOpen
      <4> HIDE DEF o
      <4> QED BY <3>2, <4>1, <4>2
    <3>5. DOMAIN o = Fields
      BY <3>4, ContentTyped
    <3> HIDE DEF o
    <3>6. /\ DOMAIN h = Fields /\ h.disk = o.disk /\ h.file = o.file /\ h.pending = o.pending /\ h.wrote = o.wrote
          /\ h.due = o.due /\ h.fresh = o.fresh
      BY <3>3, <3>5 DEF Fields
    <3>7. Typed(h) /\ DiskHeads(h) /\ Content(h) = Content(o)
      BY <3>4, <3>6, HeadsSame
    <3> QED BY <1>3, <2>6, <3>4, <3>6, <3>7 DEF HeadsRight, h
  <2> QED BY <1>1, <2>5, <2>6
<1> QED BY <1>1, <1>2, <1>3

LEMMA HeadsKilled ==
  ASSUME NEW g, Typed(g), DiskHeads(g)
  PROVE  Typed(Killed(g)) /\ HeadsRight(Killed(g)) /\ Killed(g).file = "closed"
<1> DEFINE h == Killed(g)  l == WithoutLast(g.log, Len(Whole(g.pending)))
<1>1. /\ DOMAIN g = Fields /\ g.pending \in Seq(Record) /\ \A n \in DOMAIN g.disk : g.disk[n] \in Seq(Record)
  BY ContentTyped
<1>2. Typed(h) /\ h.file = "closed"
  BY KilledInv DEF Typed
<1>3. h = [g EXCEPT !.file = "closed", !.pending = <<>>, !.size = 0, !.wrote = FALSE, !.fresh = FALSE,
                    !.due = FALSE, !.log = l]
  BY DEF Killed
<1> HIDE DEF l, h
<1>4. h.disk = g.disk /\ h.pending = <<>> /\ h.wrote = FALSE /\ h.fresh = FALSE /\ h.due = FALSE
  BY <1>1, <1>3 DEF Fields
<1>5. \A n \in DOMAIN g.disk : Headed(g.disk[n])
  <2>1. Base \in DOMAIN g.disk => Headed(g.disk[Base])
    BY <1>1, HeadedPrefix DEF DiskHeads, Content
  <2> QED BY <2>1 DEF DiskHeads
<1>6. DiskHeads(h)
  BY <1>2, <1>4, <1>5, NothingPending
<1> QED BY <1>2, <1>4, <1>6 DEF HeadsRight, h

LEMMA HeadsDeleted ==
  ASSUME NEW g, Typed(g), HeadsRight(g), g.file = "open"
  PROVE  HeadsRight(Deleted(g)) /\ Deleted(g).file = "unlinked"
<1> DEFINE h == Deleted(g)  n == Len(Whole(g.pending))  m == Len(g.log) - n - Len(Whole(g.disk[Base]))
           l == SubSeq(g.log, 1, m) \o SubSeq(g.log, Len(g.log) - n + 1, Len(g.log))
<1>1. DOMAIN g = Fields
  BY ContentTyped
<1>2. h = [g EXCEPT !.disk = Unlink(@, {Base}), !.file = "unlinked", !.log = l]
  BY DEF Deleted
<1> HIDE DEF l, h
<1>3. /\ h.disk = Unlink(g.disk, {Base}) /\ h.file = "unlinked" /\ h.wrote = g.wrote /\ h.fresh = g.fresh
      /\ h.due = g.due
  BY <1>1, <1>2 DEF Fields
<1>4. DOMAIN h.disk = DOMAIN g.disk \ {Base} /\ \A k \in DOMAIN h.disk : h.disk[k] = g.disk[k]
  BY <1>3 DEF Unlink
<1>5. DiskHeads(h)
  BY <1>3, <1>4 DEF HeadsRight, DiskHeads
<1> QED BY <1>3, <1>5 DEF HeadsRight, h

\* A statement enters the buffer: the header that an empty file needs, or a
\* record behind it.
LEMMA HeadsTaken ==
  ASSUME NEW g, NEW c \in FileSinkConfig, NEW r \in Record, Typed(g), DiskHeads(g), r.size > 0,
         g.file # "closed", g.file = "open" => (r.id = 0 <=> Content(g) = <<>>)
  PROVE  LET h == Taken(g, c, r)
         IN  /\ Typed(h) /\ DiskHeads(h) /\ h.file = g.file /\ h.fresh = g.fresh /\ h.due = g.due
             /\ h.file = "open" => Content(h) # <<>>
<1> DEFINE q == [r EXCEPT !.size = @ + c.growth]
           p == Append(g.pending, q)  s == g.size + r.size + c.growth  l == g.log \o Whole(<<r>>)
           h == Taken(g, c, r)  b == IF Base \in DOMAIN g.disk THEN g.disk[Base] ELSE <<>>
<1>1. Typed(h) /\ h.file = g.file
  BY AllRecords, TakenInv DEF Typed
<1>2. /\ DOMAIN g = Fields /\ g.pending \in Seq(Record) /\ Content(g) \in Seq(Record) /\ b \in Seq(Record)
      /\ (g.file = "open" => Base \in DOMAIN g.disk) /\ g.file \in {"closed", "open", "unlinked"}
  BY ContentTyped
<1>3. q \in Record /\ q.id = r.id /\ q.size > 0
  <2>1. r.size + c.growth \in Nat /\ r.size + c.growth > 0
    BY DEF FileSinkConfig, Record
  <2>2. q.id = r.id /\ q.size = r.size + c.growth
    BY DEF Record
  <2>3. q \in Record
    BY <2>1 DEF Record
  <2> HIDE DEF q
  <2> QED BY <2>1, <2>2, <2>3
<1>4. h = [g EXCEPT !.pending = p, !.size = s, !.wrote = TRUE, !.log = l]
  BY DEF Taken
<1>5. Content(g) = b \o g.pending
  BY DEF Content
<1> HIDE DEF p, s, l, h, q, b
<1>6. h.disk = g.disk /\ h.pending = p /\ h.fresh = g.fresh /\ h.due = g.due
  BY <1>2, <1>4 DEF Fields
<1>7. Content(h) = b \o p
  BY <1>6 DEF Content, b
<1>8. Content(h) = Append(Content(g), q)
  BY <1>2, <1>3, <1>5, <1>7, JoinedFacts DEF p
<1>9. CASE g.file = "open"
  <2>1. Headed(Content(g))
    BY <1>2, <1>9 DEF DiskHeads
  <2>2. Headed(Append(Content(g), q)) /\ Append(Content(g), q) # <<>>
    <3> DEFINE x == Content(g)
    <3>1. x \in Seq(Record) /\ Headed(x) /\ (q.id = 0 <=> x = <<>>)
      BY <1>2, <1>3, <1>9, <2>1
    <3> HIDE DEF x
    <3>2. Headed(Append(x, q)) /\ Append(x, q) # <<>>
      BY <1>3, <3>1, HeadedAppend
    <3> QED BY <3>2 DEF x
  <2>3. DiskHeads(h)
    BY <1>1, <1>6, <1>8, <1>9, <2>2 DEF DiskHeads, h
  <2> QED BY <1>1, <1>6, <1>8, <2>2, <2>3 DEF h
<1>10. CASE g.file = "unlinked"
  <2>1. DiskHeads(h)
    BY <1>1, <1>6, <1>10 DEF DiskHeads, h
  <2> QED BY <1>1, <1>6, <1>10, <2>1 DEF h
<1> QED BY <1>2, <1>9, <1>10

LEMMA HeadsWrite ==
  ASSUME NEW g, NEW c \in FileSinkConfig, NEW r \in Record, Typed(g), HeadsRight(g), r.size > 0, ~g.due,
         g.file # "closed", g.file = "open" => (r.id = 0 <=> Content(g) = <<>>)
  PROVE  LET h == WriteStatement(g, c, r)
         IN  /\ HeadsRight(h) /\ h.file = g.file /\ ~h.due
             /\ h.file = "open" => Content(h) # <<>>
<1>1. CASE ~c.native
  <2> DEFINE h == Taken(g, c, r)
  <2>1. WriteStatement(g, c, r) = h
    BY <1>1 DEF WriteStatement, StreamWrite
  <2>2. /\ Typed(h) /\ DiskHeads(h) /\ h.file = g.file /\ h.fresh = g.fresh /\ h.due = g.due
        /\ h.file = "open" => Content(h) # <<>>
    BY HeadsTaken DEF HeadsRight
  <2> HIDE DEF h
  <2> QED BY <2>1, <2>2 DEF HeadsRight
<1>2. CASE c.native
  <2> DEFINE e == IF Fits(g, c, r) THEN g ELSE Drain(g)
             t == Taken(e, c, r)  d == Drain(t)
  <2>1. /\ Typed(e) /\ DiskHeads(e) /\ e.file = g.file /\ e.fresh = g.fresh /\ e.due = g.due
        /\ g.file = "open" => Content(e) = Content(g)
    BY HeadsDrain DEF HeadsRight
  <2> HIDE DEF e
  <2>2. /\ Typed(t) /\ DiskHeads(t) /\ t.file = g.file /\ t.fresh = g.fresh /\ t.due = g.due
        /\ t.file = "open" => Content(t) # <<>>
    BY <2>1, HeadsTaken
  <2>3. WriteStatement(g, c, r) = t \/ WriteStatement(g, c, r) = d
    BY <1>2 DEF WriteStatement, NativeWrite, e
  <2> HIDE DEF t
  <2>4. /\ DiskHeads(d) /\ d.file = g.file /\ d.fresh = g.fresh /\ d.due = g.due
        /\ d.file = "open" => Content(d) # <<>>
    BY <2>2, HeadsDrain
  <2> HIDE DEF d
  <2> QED BY <2>2, <2>3, <2>4 DEF HeadsRight
<1> QED BY <1>1, <1>2

\* A file that may begin with a header is empty if its size is 0.
LEMMA EmptyFile ==
  ASSUME NEW g, Typed(g), DiskHeads(g)
  PROVE  FileSize(g.disk, Base) = 0 <=> (Base \in DOMAIN g.disk => g.disk[Base] = <<>>)
<1>1. CASE Base \notin DOMAIN g.disk
  BY <1>1 DEF FileSize
<1>2. CASE Base \in DOMAIN g.disk
  <2>1. PICK s \in Seq(Record) : s = g.disk[Base]
    BY <1>2, ContentTyped
  <2>2. Headed(s)
    BY <1>2, <2>1, ContentTyped, HeadedPrefix DEF DiskHeads, Content
  <2>3. FileSize(g.disk, Base) = Bytes(s)
    BY <1>2, <2>1 DEF FileSize
  <2>4. PICK k \in Nat : k = Len(s) /\ (k = 0 <=> s = <<>>)
    BY EmptySeq
  <2>5. ASSUME s = <<>> PROVE Bytes(s) = 0
    <3>1. PICK h \in [0..Len(s) -> Nat] : Bytes(s) = h[Len(s)] /\ h[0] = 0
      <4>1. \A i \in 1..Len(s) : s[i].size \in Nat
        BY <2>4, <2>5
      <4> QED BY <4>1, BytesFacts
    <3> QED BY <2>4, <2>5, <3>1
  <2>6. ASSUME Bytes(s) = 0, s # <<>> PROVE FALSE
    <3>1. 1 \in 1..Len(s)
      BY <2>4, <2>6
    <3>2. s[1].size = 0 /\ s[1].size > 0
      BY <2>2, <2>6, <3>1, NoBytes DEF Headed
    <3> QED BY <3>2
  <2> QED BY <1>2, <2>1, <2>3, <2>5, <2>6
<1> QED BY <1>1, <1>2

-----------------------------------------------------------------------------

\* What is known before a step that is no fault.
LEMMA KeptFacts ==
  ASSUME RotatingIInv, HeaderInv, HeadersKept', cfg' = cfg, NoFault' => NoFault
  PROVE  /\ Typed(f) /\ DOMAIN f = Fields /\ HeadsRight(f) /\ CallHeads /\ NoFault
         /\ cfg.file \in FileSinkConfig /\ cfg.file.header \in Nat /\ cfg.file.header > 0
         /\ cfg.file.mode = "a" \/ cfg.overwrite
<1>1. HeadersKept
  BY DEF HeadersKept
<1>2. cfg.file \in FileSinkConfig /\ cfg.file.header \in Nat
  BY ConfigFacts DEF RotatingIInv, SpentInv, FileSinkConfig
<1> QED BY <1>1, <1>2, TypedFile, ContentTyped DEF HeaderInv, HeadersKept

LEMMA FaultsEnd ==
  ASSUME RotatingIInv,
         RotateThrows \/ RenameFails \/ Undo \/ Abort \/ AppendThrows \/ StartWithoutRotation
  PROVE  HeaderInv'
<1>1. Fault => ~NoFault'
  BY SpentFault DEF RotatingIInv
<1>2. CASE Fault
  BY <1>1, <1>2 DEF HeaderInv, HeadersKept
<1>3. CASE Undo \/ Abort
  <2>1. ~NoFault /\ (Fault \/ spent' = spent)
    BY <1>3 DEF RotatingIInv, RenameInv, Undo, Abort
  <2> QED BY <1>1, <2>1 DEF HeaderInv, HeadersKept, NoFault
<1>4. CASE RenameFails
  <2>1. pc = "rename" /\ left > 0 /\ (Fault \/ (created[left] \notin DOMAIN f.disk /\ spent' = spent))
    BY <1>4 DEF RenameFails
  <2>2. NoFault => created[left] \in DOMAIN f.disk
    <3>1. left \in Nat
      BY <2>1, RenamingFacts DEF Renaming, DoneInv
    <3>2. left \in 1..left
      BY <2>1, <3>1
    <3> QED BY <2>1, <3>2 DEF RotatingIInv, RenameInv
  <2> QED BY <1>1, <2>1, <2>2 DEF HeaderInv, HeadersKept, NoFault
<1>5. CASE StartWithoutRotation
  <2>1. spent' = [spent EXCEPT !.starts = @ + 1, !.first = spent.records + 1, !.faults = @ + 1] /\ spent.faults \in Nat
    BY <1>5 DEF StartWithoutRotation, RotatingIInv, SpentInv
  <2>2. spent'.faults = spent.faults + 1
    BY <2>1 DEF RotatingIInv, SpentInv
  <2>3. spent'.faults # 0
    BY <2>1, <2>2
  <2> QED BY <2>3 DEF HeaderInv, HeadersKept, NoFault
<1> QED BY <1>2, <1>3, <1>4, <1>5 DEF RotateThrows, AppendThrows

\* A statement comes to a sink that has a file.
LEMMA WriteLogHeads ==
  ASSUME NEW r \in Record, WriteLog(r), HeadsRight(f'), ~f'.due, r.size > 0, r.id = 0 => ~f'.wrote,
         f'.file = "open" => (r.id = 0 <=> Content(f') = <<>>)
  PROVE  HeaderInv'
<1>1. cur' = r /\ pc' \in {"append", "rotate"}
  BY DEF WriteLog
<1>2. CallHeads'
  BY <1>1 DEF CallHeads, Renaming
<1> QED BY <1>2 DEF HeaderInv

LEMMA WriteRecordHeads ==
  ASSUME RotatingIInv, HeaderInv, NEW size \in Sizes, NEW t \in 0..now, WriteRecord(size, t)
  PROVE  HeaderInv'
<1> DEFINE r == [id |-> spent.records + 1, size |-> size, ts |-> t, whole |-> TRUE]
<1>1. /\ spent' = [spent EXCEPT !.records = @ + 1] /\ f' = f /\ ~f.due /\ WriteLog(r)
  BY DEF WriteRecord
<1>2. spent.records \in Nat /\ now \in Nat /\ size \in Nat /\ size > 0
  BY SizesAssumption DEF RotatingIInv, SpentInv
<1>3. r \in Record /\ r.id # 0 /\ r.size > 0
  BY <1>2 DEF Record
<1>4. cfg' = cfg /\ NoFault' = NoFault /\ pc = "ready"
  BY <1>1 DEF WriteLog, RotatingIInv, SpentInv, NoFault
<1> HIDE DEF r
<1> SUFFICES ASSUME HeadersKept' PROVE HeaderInv'
  BY DEF HeaderInv
<1>5. HeadsRight(f) /\ CallHeads
  BY <1>4, KeptFacts
<1>6. f.file = "open" => Content(f) # <<>>
  BY <1>1, <1>4, <1>5 DEF CallHeads
<1> QED BY <1>1, <1>3, <1>5, <1>6, WriteLogHeads

LEMMA WriteFirstHeaderHeads ==
  ASSUME RotatingIInv, HeaderInv, NEW t \in 0..now, WriteFirstHeader(t)
  PROVE  HeaderInv'
<1> DEFINE r == [Header(cfg.file) EXCEPT !.ts = t]
<1>1. /\ spent' = spent /\ f' = [f EXCEPT !.due = FALSE] /\ f.due /\ WriteLog(r)
  BY DEF WriteFirstHeader
<1>2. cfg' = cfg /\ NoFault' = NoFault /\ pc = "ready" /\ now \in Nat
  BY <1>1 DEF WriteLog, RotatingIInv, SpentInv, NoFault
<1> SUFFICES ASSUME HeadersKept' PROVE HeaderInv'
  BY DEF HeaderInv
<1>3. /\ Typed(f) /\ DOMAIN f = Fields /\ HeadsRight(f) /\ CallHeads
      /\ cfg.file \in FileSinkConfig /\ cfg.file.header \in Nat /\ cfg.file.header > 0
  BY <1>2, KeptFacts
<1>4. r \in Record /\ r.id = 0 /\ r.size > 0
  <2>1. Header(cfg.file) \in [id : {0}, size : {cfg.file.header}, ts : Nat, whole : BOOLEAN]
    BY DEF Header
  <2>2. t \in Nat
    BY <1>2
  <2>3. r \in [id : {0}, size : {cfg.file.header}, ts : Nat, whole : BOOLEAN]
    BY <2>1, <2>2
  <2> HIDE DEF r
  <2> QED BY <1>3, <2>3 DEF Record
<1> HIDE DEF r
<1>5. /\ DOMAIN f' = Fields /\ f'.disk = f.disk /\ f'.file = f.file /\ f'.pending = f.pending /\ f'.wrote = f.wrote
      /\ f'.due = FALSE /\ f'.fresh = f.fresh
  BY <1>1, <1>3 DEF Fields
<1>6. DiskHeads(f') /\ Content(f') = Content(f)
  BY <1>3, <1>5, HeadsSame DEF HeadsRight
<1>7. HeadsRight(f') /\ ~f'.wrote
  BY <1>1, <1>3, <1>5, <1>6 DEF HeadsRight
<1>8. f'.file = "open" => Content(f') = <<>>
  BY <1>1, <1>2, <1>3, <1>5, <1>6 DEF CallHeads
<1> QED BY <1>1, <1>4, <1>5, <1>7, <1>8, WriteLogHeads

\* The flush before a rotation, and its two ways on.
LEMMA RotateEmptyHeads == ASSUME RotatingIInv, HeaderInv, RotateEmpty PROVE HeaderInv'
<1>1. /\ pc = "rotate" /\ f.file # "closed" /\ f' = FlushSink(f, cfg.file) /\ pc' = "append"
      /\ cfg' = cfg /\ cur' = cur /\ spent' = spent
  BY DEF RotateEmpty, call
<1> SUFFICES ASSUME HeadersKept' PROVE HeadsRight(f') /\ CallHeads'
  BY DEF HeaderInv
<1>2. /\ Typed(f) /\ HeadsRight(f) /\ CallHeads /\ cfg.file \in FileSinkConfig /\ cfg.file.header # 0
  BY <1>1, KeptFacts DEF NoFault
<1>3. /\ HeadsRight(f') /\ f'.file # "closed" /\ ~f'.wrote /\ f'.due = f.due
      /\ f.file = "open" => f'.file = "open" /\ Content(f') = Content(f)
      /\ f.file = "unlinked" =>
           IF f.wrote THEN f'.file = "open" /\ Content(f') = <<Header(cfg.file)>> ELSE f'.file = "unlinked"
  BY <1>1, <1>2, HeadsFlush
<1>4. /\ ~f.due /\ cur.size > 0 /\ (cur.id = 0 => ~f.wrote)
      /\ f.file = "open" => (cur.id = 0 <=> Content(f) = <<>>)
  BY <1>1, <1>2 DEF CallHeads
<1>5. f'.file = "open" => (cur.id = 0 <=> Content(f') = <<>>)
  <2>1. CASE f.file = "open"
    BY <1>3, <1>4, <2>1
  <2>2. CASE f.file # "open"
    <3>1. f.file = "unlinked"
      BY <1>1, <1>2, <2>2, ContentTyped
    <3>2. <<Header(cfg.file)>> # <<>>
      OBVIOUS
    <3> QED BY <1>3, <1>4, <3>1, <3>2
  <2> QED BY <2>1, <2>2
<1> QED BY <1>1, <1>3, <1>4, <1>5 DEF CallHeads, Renaming

LEMMA RotateClosesHeads == ASSUME RotatingIInv, HeaderInv, RotateCloses PROVE HeaderInv'
<1> DEFINE g == FlushSink(f, cfg.file)
<1>1. /\ pc = "rotate" /\ f.file # "closed" /\ FileSize(g.disk, Base) > 0 /\ f' = CloseFile(g, cfg.file)
      /\ pc' = "rename" /\ cfg' = cfg /\ cur' = cur /\ why' = why /\ spent' = spent
  BY DEF RotateCloses
<1> SUFFICES ASSUME HeadersKept' PROVE HeadsRight(f') /\ CallHeads'
  BY DEF HeaderInv
<1>2. /\ Typed(f) /\ HeadsRight(f) /\ CallHeads /\ cfg.file \in FileSinkConfig /\ cfg.file.header # 0
  BY <1>1, KeptFacts DEF NoFault
<1>3. /\ Typed(g) /\ HeadsRight(g) /\ g.file # "closed" /\ ~g.wrote /\ g.due = f.due
      /\ f.file = "open" => g.file = "open" /\ Content(g) = Content(f)
      /\ f.file = "unlinked" => f.wrote \/ g.file = "unlinked"
  BY <1>1, <1>2, HeadsFlush
<1>4. /\ ~f.due /\ cur.size > 0 /\ (cur.id = 0 => ~f.wrote)
      /\ f.file = "open" => (cur.id = 0 <=> Content(f) = <<>>)
      /\ why # "start"
  BY <1>1, <1>2 DEF CallHeads, RotatingIInv, CallInv
<1> HIDE DEF g
<1>5. /\ DiskHeads(f') /\ f'.file = "closed" /\ f'.wrote = g.wrote /\ f'.fresh = g.fresh /\ f'.due = g.due
  BY <1>1, <1>3, HeadsClose DEF HeadsRight
<1>6. Base \in DOMAIN g.disk /\ Content(g) # <<>>
  <2>1. FileSize(g.disk, Base) # 0
    BY <1>1
  <2>2. Base \in DOMAIN g.disk /\ g.disk[Base] # <<>>
    BY <1>3, <2>1, EmptyFile DEF HeadsRight
  <2>3. g.disk[Base] \in Seq(Record) /\ g.pending \in Seq(Record)
    BY <1>3, <2>2, ContentTyped
  <2>4. g.disk[Base] \o g.pending # <<>>
    BY <2>2, <2>3, JoinedFacts
  <2> QED BY <2>2, <2>4 DEF Content
<1>7. cur.id # 0
  <2>1. CASE f.file = "open"
    BY <1>3, <1>4, <1>6, <2>1
  <2>2. CASE f.file # "open"
    <3>1. f.file = "unlinked"
      BY <1>1, <1>2, <2>2, ContentTyped
    <3>2. g.file # "unlinked"
      BY <1>3, <1>6 DEF HeadsRight, DiskHeads
    <3> QED BY <1>3, <1>4, <3>1, <3>2
  <2> QED BY <2>1, <2>2
<1>8. HeadsRight(f')
  BY <1>3, <1>5 DEF HeadsRight
<1>9. ~f'.fresh /\ ~f'.due
  BY <1>3, <1>4, <1>5 DEF HeadsRight
<1> QED BY <1>1, <1>4, <1>7, <1>8, <1>9 DEF CallHeads, Renaming

\* While the file is closed all files are alike, and a name is as good as another.
LEMMA RenameHeads == ASSUME RotatingIInv, HeaderInv, Rename PROVE HeaderInv'
<1> DEFINE n == created[left]  d == f.disk
<1>1. /\ pc = "rename" /\ left > 0 /\ (Renames(n) => n \in DOMAIN d)
      /\ f' = IF Renames(n) THEN [f EXCEPT !.disk = Moved(@, n, NewName(n))] ELSE f
      /\ pc' = pc /\ cfg' = cfg /\ cur' = cur /\ why' = why /\ spent' = spent
  BY DEF Rename
<1> SUFFICES ASSUME HeadersKept' PROVE HeadsRight(f') /\ CallHeads'
  BY DEF HeaderInv
<1>2. /\ Typed(f) /\ DOMAIN f = Fields /\ HeadsRight(f) /\ CallHeads
  BY <1>1, KeptFacts DEF NoFault
<1>3. f.file = "closed" /\ f.pending = <<>>
  BY <1>1, <1>2, ContentTyped DEF RotatingIInv, CallInv, Renaming
<1>4. \A m \in DOMAIN d : Headed(d[m])
  BY <1>2, <1>3, NothingPending DEF HeadsRight
<1>5. /\ f'.file = f.file /\ f'.pending = <<>> /\ f'.wrote = f.wrote /\ f'.fresh = f.fresh /\ f'.due = f.due
      /\ f'.disk = IF Renames(n) THEN Moved(d, n, NewName(n)) ELSE d
  BY <1>1, <1>2, <1>3 DEF Fields
<1>6. \A m \in DOMAIN f'.disk : \E k \in DOMAIN d : f'.disk[m] = d[k]
  <2>1. CASE ~Renames(n)
    BY <1>5, <2>1
  <2>2. CASE Renames(n)
    <3> DEFINE to == NewName(n)  u == [m \in DOMAIN d \ {n} |-> d[m]]
    <3>1. f'.disk = [m \in DOMAIN u \cup {to} |-> IF m = to THEN d[n] ELSE u[m]]
      BY <1>5, <2>2 DEF Moved, Put, Unlink
    <3>2. \A m \in DOMAIN f'.disk : f'.disk[m] = d[n] \/ (m \in DOMAIN d /\ f'.disk[m] = d[m])
      BY <3>1
    <3> QED BY <1>1, <2>2, <3>2
  <2> QED BY <2>1, <2>2
<1>7. DiskHeads(f')
  <2>1. \A m \in DOMAIN f'.disk : Headed(f'.disk[m]) /\ f'.disk[m] \in Seq(Record)
    BY <1>2, <1>4, <1>6, ContentTyped
  <2>2. Base \in DOMAIN f'.disk => f'.disk[Base] \o <<>> = f'.disk[Base]
    BY <2>1, JoinedFacts
  <2> QED BY <1>3, <1>5, <2>1, <2>2 DEF DiskHeads, Content
<1>8. HeadsRight(f')
  BY <1>2, <1>3, <1>5, <1>7 DEF HeadsRight
<1>9. CallHeads'
  <2>1. Renaming
    BY <1>1 DEF Renaming
  <2> QED BY <1>1, <1>2, <1>5, <2>1 DEF CallHeads, Renaming
<1> QED BY <1>8, <1>9

LEMMA HeadsUnlink ==
  ASSUME NEW g, NEW h, NEW names, Typed(g), DiskHeads(g), g.file = "closed",
         DOMAIN h = Fields, h.disk = Unlink(g.disk, names), h.file = g.file, h.pending = g.pending, h.wrote = g.wrote
  PROVE  Typed(h) /\ DiskHeads(h) /\ DOMAIN h.disk = DOMAIN g.disk \ names
<1>1. DiskInv(g.disk, {}, Name, Record, Record) /\ g.pending = <<>> /\ g.wrote \in BOOLEAN
  BY DEF Typed, FileInv
<1>2. DiskInv(h.disk, {}, Name, Record, Record)
  <2>1. DiskInv(Unlink(g.disk, names), DOMAIN g.disk \ names, Name, Record, Record)
    BY <1>1, DiskUnlink
  <2> QED BY <2>1 DEF DiskInv
<1>3. Typed(h)
  BY <1>1, <1>2, EmptySeq DEF Typed, FileInv
<1>4. DOMAIN h.disk = DOMAIN g.disk \ names /\ \A n \in DOMAIN h.disk : h.disk[n] = g.disk[n]
  BY DEF Unlink
<1>5. DiskHeads(h)
  BY <1>1, <1>3, <1>4, NothingPending
<1> QED BY <1>3, <1>4, <1>5

\* A sink that was made looks at its file.
LEMMA HeadsConstructed ==
  ASSUME NEW g, NEW c \in FileSinkConfig, Typed(g), HeadsRight(g), ~g.wrote, g.file = "open", g.pending = <<>>,
         c.header # 0, c.mode = "w" => Content(g) = <<>>
  PROVE  LET h == Constructed(g, c)
         IN  HeadsRight(h) /\ h.file = "open" /\ (h.due <=> Content(h) = <<>>)
<1> DEFINE h == Constructed(g, c)
<1>1. DOMAIN g = Fields /\ Base \in DOMAIN g.disk /\ DiskHeads(g) /\ ~g.fresh
  BY ContentTyped DEF HeadsRight
<1>2. Content(g) = g.disk[Base]
  BY <1>1, NothingPending
<1>3. HeaderIsDue(g, c) <=> Content(g) = <<>>
  BY <1>1, <1>2, EmptyFile DEF HeaderIsDue
<1>4. h = [g EXCEPT !.due = HeaderIsDue(g, c)]
  BY DEF Constructed
<1> HIDE DEF h
<1>5. /\ DOMAIN h = Fields /\ h.disk = g.disk /\ h.file = g.file /\ h.pending = g.pending /\ h.wrote = g.wrote
      /\ h.fresh = g.fresh /\ h.due = HeaderIsDue(g, c)
  BY <1>1, <1>4 DEF Fields
<1>6. DiskHeads(h) /\ Content(h) = Content(g)
  BY <1>1, <1>5, HeadsSame
<1> QED BY <1>1, <1>3, <1>5, <1>6 DEF HeadsRight, h

\* The new file after the renames, or the first one of a sink, with its size and
\* the history noted.
LEMMA HeadsNewFile ==
  ASSUME NEW g, NEW c \in FileSinkConfig, NEW mode, NEW log, NEW size, Typed(g), DiskHeads(g), g.file = "closed",
         ~g.wrote, c.header # 0, g.fresh \/ mode = "w" \/ Base \notin DOMAIN g.disk
  PROVE  LET h == Noted(OpenFile(g, c, mode), log, size)
         IN  /\ Typed(h) /\ HeadsRight(h) /\ ~h.wrote /\ h.file = "open" /\ h.due = g.due
             /\ g.fresh => /\ h.pending = <<>>
                           /\ Content(h) = IF mode = "w" \/ Base \notin DOMAIN g.disk THEN <<>> ELSE Content(g)
             /\ ~g.fresh => Content(h) # <<>>
<1> DEFINE o == OpenFile(g, c, mode)  h == Noted(o, log, size)
<1>1. /\ Typed(o) /\ DiskHeads(o) /\ o.file = "open" /\ o.wrote = g.wrote /\ o.due = g.due /\ ~o.fresh
      /\ g.fresh => /\ o.pending = <<>>
                    /\ Content(o) = IF mode = "w" \/ Base \notin DOMAIN g.disk THEN <<>> ELSE Content(g)
      /\ ~g.fresh => Content(o) # <<>>
  <2>1. <<Header(c)>> # <<>>
    OBVIOUS
  <2> QED BY <2>1, HeadsOpen
<1> HIDE DEF o
<1>2. DOMAIN o = Fields
  BY <1>1, ContentTyped
<1>3. /\ DOMAIN h = Fields /\ h.disk = o.disk /\ h.file = o.file /\ h.pending = o.pending /\ h.wrote = o.wrote
      /\ h.due = o.due /\ h.fresh = o.fresh
  BY <1>2 DEF Noted, Fields
<1> HIDE DEF h
<1>4. Typed(h) /\ DiskHeads(h) /\ Content(h) = Content(o)
  BY <1>1, <1>3, HeadsSame
<1>5. HeadsRight(h) /\ ~h.wrote
  BY <1>1, <1>3, <1>4 DEF HeadsRight
<1>6. /\ h.file = "open" /\ h.due = g.due
      /\ g.fresh => /\ h.pending = <<>>
                    /\ Content(h) = IF mode = "w" \/ Base \notin DOMAIN g.disk THEN <<>> ELSE Content(g)
      /\ ~g.fresh => Content(h) # <<>>
  BY <1>1, <1>3, <1>4
<1> QED BY <1>4, <1>5, <1>6 DEF h, o

LEMMA CommitHeads == ASSUME RotatingIInv, HeaderInv, Commit PROVE HeaderInv'
<1> DEFINE full == Len(Recorded) > cfg.maxBackup
           oldest == Last(Recorded)
           gone == IF full /\ oldest \in DOMAIN f.disk THEN f.disk[oldest] ELSE <<>>
           log == IF full THEN Retired(f.log, gone) ELSE f.log
           names == IF full THEN {oldest} ELSE {}
           e == [f EXCEPT !.disk = Unlink(@, names)]
           h == Noted(OpenFile(e, cfg.file, cfg.file.mode), log, 0)
<1>1. /\ pc = "rename" /\ left = 0 /\ cfg' = cfg
      /\ \/ f' = Made(h) /\ AfterRotation /\ spent' = spent
         \/ Fault
  BY DEF Commit, Noted
<1>2. CASE Fault
  BY <1>2, SpentFault DEF HeaderInv, HeadersKept, RotatingIInv
<1>3. CASE ~Fault
  <2> SUFFICES ASSUME HeadersKept' PROVE HeadsRight(f') /\ CallHeads'
    BY DEF HeaderInv
  <2> HIDE DEF h
  <2>1. f' = Made(h) /\ AfterRotation /\ NoFault' = NoFault
    BY <1>1, <1>3 DEF NoFault
  <2>2. /\ Typed(f) /\ DOMAIN f = Fields /\ HeadsRight(f) /\ CallHeads /\ cfg.file \in FileSinkConfig
        /\ cfg.file.header # 0
    BY <1>1, <2>1, KeptFacts
  <2>3. f.file = "closed" /\ Base \notin DOMAIN f.disk
    BY <1>1 DEF RotatingIInv, CallInv, RenameInv, Renaming
  <2> HIDE DEF names, log
  <2>4. /\ DOMAIN e = Fields /\ e.disk = Unlink(f.disk, names) /\ e.file = f.file /\ e.pending = f.pending
        /\ e.wrote = f.wrote /\ e.fresh = f.fresh /\ e.due = f.due
    BY <2>2 DEF Fields
  <2> HIDE DEF e
  <2>5. Typed(e) /\ DiskHeads(e) /\ Base \notin DOMAIN e.disk
    BY <2>2, <2>3, <2>4, HeadsUnlink DEF HeadsRight
  <2>6. /\ Typed(h) /\ HeadsRight(h) /\ ~h.wrote /\ h.file = "open" /\ h.due = e.due
        /\ e.fresh => h.pending = <<>> /\ Content(h) = <<>>
        /\ ~e.fresh => Content(h) # <<>>
    BY <2>2, <2>3, <2>4, <2>5, HeadsNewFile DEF h, HeadsRight
  <2>7. /\ f.fresh <=> why = "start"
        /\ why # "start" => ~f.due /\ cur.id # 0 /\ cur.size > 0
    BY <1>1, <2>2 DEF CallHeads, Renaming
  <2>8. CASE why = "start"
    <3>1. pc' = "ready" /\ f' = Constructed(h, cfg.file)
      BY <2>1, <2>8 DEF AfterRotation, Made
    <3>2. h.pending = <<>> /\ Content(h) = <<>>
      BY <2>4, <2>6, <2>7, <2>8
    <3>3. HeadsRight(f') /\ f'.file = "open" /\ (f'.due <=> Content(f') = <<>>)
      BY <2>2, <2>6, <3>1, <3>2, HeadsConstructed
    <3> QED BY <3>1, <3>3 DEF CallHeads, Renaming
  <2>9. CASE why # "start"
    <3>1. pc' = "append" /\ f' = h /\ cur' = cur
      BY <2>1, <2>9 DEF AfterRotation, Made, call
    <3>2. Content(h) # <<>>
      BY <2>4, <2>6, <2>7, <2>9
    <3> QED BY <2>4, <2>6, <2>7, <2>9, <3>1, <3>2 DEF CallHeads, Renaming
  <2> QED BY <2>8, <2>9
<1> QED BY <1>2, <1>3

LEMMA AppendHeads == ASSUME RotatingIInv, HeaderInv, AppendRecord PROVE HeaderInv'
<1>1. pc = "append" /\ f' = WriteStatement(f, cfg.file, cur) /\ pc' = "ready" /\ cfg' = cfg /\ spent' = spent
  BY DEF AppendRecord
<1> SUFFICES ASSUME HeadersKept' PROVE HeadsRight(f') /\ CallHeads'
  BY DEF HeaderInv
<1>2. /\ Typed(f) /\ HeadsRight(f) /\ CallHeads /\ NoFault /\ cfg.file \in FileSinkConfig
  BY <1>1, KeptFacts DEF NoFault
<1>3. f.file # "closed" /\ cur \in Record
  BY <1>1, <1>2 DEF RotatingIInv, CallInv, CurFacts
<1>4. ~f.due /\ cur.size > 0 /\ (f.file = "open" => (cur.id = 0 <=> Content(f) = <<>>))
  BY <1>1, <1>2 DEF CallHeads
<1>5. HeadsRight(f') /\ ~f'.due /\ (f'.file = "open" => Content(f') # <<>>)
  BY <1>1, <1>2, <1>3, <1>4, HeadsWrite
<1> QED BY <1>1, <1>5 DEF CallHeads, Renaming

LEMMA FlushHeads == ASSUME RotatingIInv, HeaderInv, Flush PROVE HeaderInv'
<1>1. /\ pc = "ready" /\ f.wrote /\ f.file # "closed" /\ pc' = pc /\ cfg' = cfg
      /\ (f' = FlushSink(f, cfg.file) /\ spent' = spent) \/ Fault
  BY DEF Flush
<1>2. CASE Fault
  BY <1>2, SpentFault DEF HeaderInv, HeadersKept, RotatingIInv
<1>3. CASE ~Fault
  <2> SUFFICES ASSUME HeadersKept' PROVE HeadsRight(f') /\ CallHeads'
    BY DEF HeaderInv
  <2>1. f' = FlushSink(f, cfg.file) /\ NoFault' = NoFault
    BY <1>1, <1>3 DEF NoFault
  <2>2. /\ Typed(f) /\ HeadsRight(f) /\ CallHeads /\ cfg.file \in FileSinkConfig /\ cfg.file.header # 0
    BY <1>1, <2>1, KeptFacts
  <2>3. /\ HeadsRight(f') /\ f'.due = f.due
        /\ f.file = "open" => f'.file = "open" /\ Content(f') = Content(f)
        /\ f.file = "unlinked" => Content(f') = <<Header(cfg.file)>>
    BY <1>1, <2>1, <2>2, HeadsFlush
  <2>4. f'.file = "open" => (f'.due <=> Content(f') = <<>>)
    <3>1. CASE f.file = "open"
      BY <1>1, <2>2, <2>3, <3>1 DEF CallHeads
    <3>2. CASE f.file # "open"
      <4>1. f.file = "unlinked" /\ ~f.due
        BY <1>1, <2>2, <3>2, ContentTyped DEF HeadsRight
      <4>2. <<Header(cfg.file)>> # <<>>
        OBVIOUS
      <4> QED BY <2>3, <4>1, <4>2
    <3> QED BY <3>1, <3>2
  <2> QED BY <1>1, <2>3, <2>4 DEF CallHeads, Renaming
<1> QED BY <1>2, <1>3

LEMMA StartHeads ==
  ASSUME RotatingIInv, HeaderInv, NEW removed \in SUBSET Cleaned(f.disk), Start(removed)
  PROVE  HeaderInv'
<1> DEFINE list == <<Base>> \o Recovered(f.disk)
           rotate == RotationRequested /\ (Len(list) <= cfg.maxBackup \/ cfg.overwrite)
           log == LogAfterStart(Cleaned(f.disk), OpenMode = "w")
           g == [f EXCEPT !.disk = Unlink(@, removed), !.fresh = (cfg.file.header # 0), !.log = log]
           started == OpenFile(g, cfg.file, OpenMode)
           h == [started EXCEPT !.size = FileSize(started.disk, Base)]
           kept == Cardinality(Cleaned(f.disk) \ removed)
<1>1. /\ pc = "down" /\ cfg' = cfg
      /\ spent' = [spent EXCEPT !.starts = @ + 1, !.first = spent.records + 1, !.faults = @ + kept,
                                !.stale = IF cfg.file.mode = "w" THEN @ + kept ELSE @]
      /\ IF rotate THEN f' = g /\ pc' = "rename" /\ why' = "start"
         ELSE f' = Constructed(h, cfg.file) /\ pc' = "ready"
  BY DEF Start
<1> HIDE DEF list, log, kept
<1>2. NoFault' => NoFault
  <2>1. spent.faults \in Nat /\ spent'.faults = spent.faults + kept
    BY <1>1 DEF RotatingIInv, SpentInv
  <2>2. kept \in Nat
    <3>1. IsFiniteSet(DOMAIN f.disk) /\ Cleaned(f.disk) \ removed \subseteq DOMAIN f.disk
      BY CleanedFacts DEF Rotated
    <3>2. IsFiniteSet(Cleaned(f.disk) \ removed)
      BY <3>1, FS_Subset
    <3> QED BY <3>2, FS_CardinalityType DEF kept
  <2>3. spent.faults + kept = 0 => spent.faults = 0
    BY <2>1, <2>2
  <2> QED BY <2>1, <2>3 DEF NoFault
<1> SUFFICES ASSUME HeadersKept' PROVE HeadsRight(f') /\ CallHeads'
  BY DEF HeaderInv
<1>3. /\ Typed(f) /\ DOMAIN f = Fields /\ HeadsRight(f) /\ cfg.file \in FileSinkConfig /\ cfg.file.header # 0
      /\ cfg.file.mode = "a" \/ cfg.overwrite
  BY <1>1, <1>2, KeptFacts
<1>4. f.file = "closed" /\ ~f.wrote
  BY <1>1, <1>3 DEF RotatingIInv, CallInv, HeadsRight
<1>5. /\ DOMAIN g = Fields /\ g.disk = Unlink(f.disk, removed) /\ g.file = f.file /\ g.pending = f.pending
      /\ g.wrote = f.wrote /\ g.fresh = TRUE /\ g.due = f.due
  BY <1>3 DEF Fields
<1> HIDE DEF g
<1>6. Typed(g) /\ DiskHeads(g)
  BY <1>3, <1>4, <1>5, HeadsUnlink DEF HeadsRight
<1>7. CASE rotate
  <2>1. HeadsRight(f')
    BY <1>1, <1>4, <1>5, <1>6, <1>7 DEF HeadsRight
  <2>2. CallHeads'
    BY <1>1, <1>5, <1>7 DEF CallHeads
  <2> QED BY <2>1, <2>2
<1>8. CASE ~rotate
  <2>1. OpenMode = cfg.file.mode
    BY <1>3, <1>8 DEF OpenMode, ReopenMode
  <2>2. PICK k : k = Noted(started, started.log, FileSize(started.disk, Base))
    OBVIOUS
  <2>3. /\ Typed(k) /\ HeadsRight(k) /\ ~k.wrote /\ k.file = "open" /\ k.pending = <<>>
        /\ OpenMode = "w" => Content(k) = <<>>
    BY <1>3, <1>4, <1>5, <1>6, <2>2, HeadsNewFile
  <2>4. h = k
    <3>1. DOMAIN started = Fields
      <4>1. Typed(started)
        BY <1>3, <1>4, <1>5, <1>6, HeadsOpen
      <4> QED BY <4>1, ContentTyped
    <3> HIDE DEF started
    <3> QED BY <2>2, <3>1 DEF Noted, Fields
  <2>5. f' = Constructed(k, cfg.file) /\ pc' = "ready"
    BY <1>1, <1>8, <2>4
  <2>6. HeadsRight(f') /\ f'.file = "open" /\ (f'.due <=> Content(f') = <<>>)
    BY <1>3, <2>1, <2>3, <2>5, HeadsConstructed
  <2> QED BY <2>5, <2>6 DEF CallHeads, Renaming
<1> QED BY <1>7, <1>8

LEMMA ShutdownHeads == ASSUME RotatingIInv, HeaderInv, Shutdown PROVE HeaderInv'
<1> DEFINE e == CloseFile(f, cfg.file)
<1>1. /\ pc' = "down" /\ cfg' = cfg
      /\ (f' = Killed(e) /\ spent' = spent) \/ Fault
  BY DEF Shutdown
<1>2. CASE Fault
  BY <1>2, SpentFault DEF HeaderInv, HeadersKept, RotatingIInv
<1>3. CASE ~Fault
  <2> SUFFICES ASSUME HeadersKept' PROVE HeadsRight(f') /\ CallHeads'
    BY DEF HeaderInv
  <2>1. Typed(f) /\ HeadsRight(f) /\ f' = Killed(e)
    BY <1>1, <1>3, KeptFacts DEF NoFault
  <2>2. Typed(e) /\ DiskHeads(e)
    BY <2>1, HeadsClose DEF HeadsRight
  <2> HIDE DEF e
  <2>3. HeadsRight(f')
    BY <2>1, <2>2, HeadsKilled
  <2> QED BY <1>1, <2>3 DEF CallHeads, Renaming
<1> QED BY <1>2, <1>3

LEMMA CrashHeads == ASSUME RotatingIInv, HeaderInv, Crash PROVE HeaderInv'
<1>1. f' = Killed(f) /\ pc' = "down" /\ cfg' = cfg /\ spent' = spent
  BY DEF Crash
<1> SUFFICES ASSUME HeadersKept' PROVE HeadsRight(f') /\ CallHeads'
  BY DEF HeaderInv
<1>2. Typed(f) /\ HeadsRight(f)
  BY <1>1, KeptFacts DEF NoFault
<1>3. HeadsRight(f')
  BY <1>1, <1>2, HeadsKilled DEF HeadsRight
<1> QED BY <1>1, <1>3 DEF CallHeads, Renaming

LEMMA DeleteFileHeads == ASSUME RotatingIInv, HeaderInv, DeleteFile PROVE HeaderInv'
<1>1. /\ pc = "ready" /\ pc' = pc /\ f.file = "open" /\ f' = Deleted(f) /\ cfg' = cfg
      /\ spent' = [spent EXCEPT !.deletes = @ + 1]
  BY DEF DeleteFile
<1>2. NoFault' = NoFault
  BY <1>1 DEF NoFault, RotatingIInv, SpentInv
<1> SUFFICES ASSUME HeadersKept' PROVE HeadsRight(f') /\ CallHeads'
  BY DEF HeaderInv
<1>3. Typed(f) /\ HeadsRight(f)
  BY <1>1, <1>2, KeptFacts
<1>4. HeadsRight(f') /\ f'.file = "unlinked"
  BY <1>1, <1>3, HeadsDeleted
<1> QED BY <1>1, <1>4 DEF CallHeads, Renaming

LEMMA SameHeads ==
  ASSUME HeaderInv, cfg' = cfg, f' = f, pc' = pc, why' = why, cur' = cur, spent' = spent
  PROVE  HeaderInv'
BY DEF HeaderInv, HeadersKept, NoFault, CallHeads, Renaming

LEMMA HeaderSteps ==
  ASSUME RotatingIInv, HeaderInv, [RotatingNext]_rotatingVars
  PROVE  HeaderInv'
<1>1. ASSUME NEW late \in 0..Lateness[cfg.scheme], late <= now,
             WriteFirstHeader(now - late) \/ \E size \in Sizes : WriteRecord(size, now - late)
      PROVE  HeaderInv'
  <2>1. now \in Nat /\ Lateness[cfg.scheme] \in Nat
    BY ConfigFacts DEF RotatingIInv, SpentInv
  <2>2. now - late \in 0..now
    BY <1>1, <2>1
  <2>3. CASE WriteFirstHeader(now - late)
    BY <2>2, <2>3, WriteFirstHeaderHeads
  <2>4. CASE \E size \in Sizes : WriteRecord(size, now - late)
    BY <2>2, <2>4, WriteRecordHeads
  <2> QED BY <1>1, <2>3, <2>4
<1>2. CASE RotateReopens
  <2>1. f.file = "closed" /\ pc = "rotate" /\ spent' = spent
    BY <1>2 DEF RotateReopens
  <2> QED BY <2>1 DEF RotatingIInv, CallInv, HeaderInv, HeadersKept, NoFault
<1>3. CASE RotateEmpty \/ RotateCloses \/ Rename \/ Commit
  BY <1>3, RotateEmptyHeads, RotateClosesHeads, RenameHeads, CommitHeads
<1>4. CASE RotateThrows \/ RenameFails \/ Undo \/ Abort \/ AppendThrows \/ StartWithoutRotation
  BY <1>4, FaultsEnd
<1>5. CASE AppendRecord \/ Flush
  BY <1>5, AppendHeads, FlushHeads
<1>6. CASE \E removed \in SUBSET Cleaned(f.disk) : Start(removed)
  BY <1>6, StartHeads
<1>7. CASE Shutdown \/ Crash \/ DeleteFile
  BY <1>7, ShutdownHeads, CrashHeads, DeleteFileHeads
<1>8. CASE Tick
  BY <1>8, SameHeads DEF Tick, call
<1>9. CASE UNCHANGED rotatingVars
  BY <1>9, SameHeads DEF rotatingVars, call
<1> QED BY <1>1, <1>2, <1>3, <1>4, <1>5, <1>6, <1>7, <1>8, <1>9 DEF RotatingNext

LEMMA HeaderStarts == RotatingInit => HeaderInv
<1> SUFFICES ASSUME RotatingInit PROVE HeadsRight(f) /\ CallHeads
  BY DEF HeaderInv
<1>1. f = Closed /\ pc = "down"
  BY DEF RotatingInit
<1>2. f.disk = [n \in {} |-> <<>>] /\ f.file = "closed" /\ f.wrote = FALSE
  BY <1>1 DEF Closed
<1> QED BY <1>1, <1>2 DEF HeadsRight, DiskHeads, CallHeads, Renaming

LEMMA HeaderHeadsHolds == RotatingIInv /\ HeaderInv => HeaderHeadsEachFile
<1> SUFFICES ASSUME RotatingIInv, HeaderInv, HeadersKept, NEW n \in DOMAIN f.disk
             PROVE  LET records == f.disk[n] \o (IF n = Base THEN f.pending ELSE <<>>)
                    IN  \A i \in DOMAIN records : records[i].id = 0 <=> i = 1
  BY DEF HeaderHeadsEachFile, HeadersKept, NoFault
<1>1. Typed(f) /\ DiskHeads(f)
  BY TypedFile DEF HeaderInv, HeadsRight
<1>2. PICK s : s = f.disk[n] \o (IF n = Base THEN f.pending ELSE <<>>)
  OBVIOUS
<1>3. Headed(s) /\ s \in Seq(Record)
  <2>1. CASE n = Base
    <3>1. s = Content(f)
      BY <1>2, <2>1 DEF Content
    <3> QED BY <1>1, <2>1, <3>1, ContentTyped DEF DiskHeads
  <2>2. CASE n # Base
    <3>1. f.disk[n] \in Seq(Record)
      BY <1>1, ContentTyped
    <3>2. s = f.disk[n]
      BY <1>2, <2>2, <3>1, JoinedFacts
    <3> QED BY <1>1, <2>2, <3>1, <3>2 DEF DiskHeads
  <2> QED BY <2>1, <2>2
<1>4. DOMAIN s = 1..Len(s)
  BY <1>3
<1> QED BY <1>2, <1>3, <1>4 DEF Headed

\* Every file of a CsvWriter begins with its header and has no other, whatever
\* the configuration, through rotations (_rotate_files), restarts, kills and the
\* deletion of the file (flush_sink), until something fails.
THEOREM AlwaysHeadsEachFile == RotatingSpec => []HeaderHeadsEachFile
<1>1. RotatingInit => HeaderInv
  BY HeaderStarts
<1>2. RotatingIInv /\ HeaderInv /\ [RotatingNext]_rotatingVars => HeaderInv'
  BY HeaderSteps
<1>3. RotatingIInv /\ HeaderInv => HeaderHeadsEachFile
  BY HeaderHeadsHolds
<1> QED BY <1>1, <1>2, <1>3, RotatingInvariance, PTL DEF RotatingSpec

-----------------------------------------------------------------------------
(***************************************************************************)
(* The size of the current file.  While it is open and nothing in it is    *)
(* torn, _file_size counts what is in the file and the buffer, or all but  *)
(* the header of the notifier.  The limit is kept while nothing fails or   *)
(* is deleted, and a file found at the start of a sink is one that an      *)
(* earlier sink kept to it, or the new one may not rotate either.          *)
(***************************************************************************)

Counted(g, c) ==
  g.file = "open" /\ (\A i \in 1..Len(Content(g)) : Content(g)[i].whole) =>
    g.size = Bytes(Content(g)) \/ g.size = Bytes(Content(g)) - c.header

\* Statements, none of them torn.
Intact(s) == \A i \in 1..Len(s) : s[i].whole /\ s[i].size > 0
OnlyHeaders(s) == \A i \in 1..Len(s) : s[i].id = 0

Small(s, n) == Bytes(s) <= n \/ Single(s)

\* Also what is left of it when the process is killed.
InLimit(s, n) == \A k \in 0..Len(s) : Small(SubSeq(s, 1, k), n)

Limit == cfg.maxSize + cfg.file.growth + cfg.file.header

BufferRight(g, c) ==
  /\ Intact(Content(g)) /\ g.file # "unlinked"
  /\ g.wrote \/ g.pending = <<>> \/ g.pending = <<Header(c)>>

\* A sink that finds these files may not rotate.
WouldRefuse == ~cfg.overwrite /\ Cardinality(Rotated(f.disk)) >= cfg.maxBackup

\* Not one that is truncated at the start, once it has been renamed.
FilesInLimit ==
  IF pc = "down" THEN cfg.file.mode = "a" => InLimit(Content(f), Limit) \/ WouldRefuse
  ELSE Refused \/ (Renaming /\ why = "start" /\ cfg.file.mode = "w") \/ InLimit(Content(f), Limit)

\* A header is due, or written by the logger, when the file is empty.
FirstIsHeader ==
  /\ f.due => cfg.file.header # 0
  /\ pc = "ready" /\ f.due => Refused \/ Content(f) = <<>>
  /\ Renaming /\ why = "start" => (f.fresh <=> cfg.file.header # 0)
  /\ pc \in {"rotate", "append"} /\ cur.id = 0 =>
       /\ cur.size = cfg.file.header
       /\ Refused \/ (pc = "append" /\ why = "none") \/ Content(f) = <<>>
  /\ Renaming /\ why # "start" => cur.id # 0

\* What a call writes fits, or comes first in its file.
CallFits ==
  /\ pc # "down" => Enabled
  /\ pc \in {"rotate", "append"} \/ (Renaming /\ why # "start") => cur.whole /\ cur.size > 0 /\ ~f.due
  /\ pc = "rotate" \/ Renaming => why # "none"
  /\ pc = "append" /\ ~Refused =>
       IF why = "none" THEN f.size + cur.size <= cfg.maxSize
       ELSE OnlyHeaders(Content(f)) /\ Bytes(Content(f)) <= cfg.file.header

LimitKept == cfg.maxSize # 0 /\ NoFault /\ spent.deletes = 0

LimitsRight == BufferRight(f, cfg.file) /\ FilesInLimit /\ FirstIsHeader /\ CallFits
LimitInv == LimitKept => LimitsRight

SizeInv == Counted(f, cfg.file) /\ LimitInv

LEMMA BytesAppend ==
  ASSUME NEW s \in Seq(Record), NEW r \in Record
  PROVE  /\ Bytes(s) \in Nat /\ Bytes(<<>>) = 0
         /\ Bytes(Append(s, r)) = Bytes(s) + r.size
<1> DEFINE k == Len(s)
<1>1. PICK q \in Seq(Record) : q = Append(s, r)
  BY AppendProperties
<1>2. /\ k \in Nat /\ Len(q) = k + 1 /\ q[k + 1] = r
      /\ \A i \in 1..k : q[i] = s[i]
  BY <1>1, AppendProperties
<1>3. r.size \in Nat /\ \A i \in 1..k : s[i].size \in Nat
  <2>1. \A x \in Record : x.size \in Nat
    BY DEF Record
  <2>2. \A i \in 1..k : s[i] \in Record
    OBVIOUS
  <2> QED BY <2>1, <2>2
<1>4. PICK g \in [0..k -> Nat] : Bytes(s) = g[k] /\ g[0] = 0 /\ \A i \in 1..k : g[i] = g[i - 1] + s[i].size
  BY BytesFacts
<1>5. PICK h \in [0..(k + 1) -> Nat] :
        Bytes(q) = h[k + 1] /\ h[0] = 0 /\ \A i \in 1..(k + 1) : h[i] = h[i - 1] + q[i].size
  <2>1. \E h \in [0..Len(q) -> Nat] :
          Bytes(q) = h[Len(q)] /\ h[0] = 0 /\ \A i \in 1..Len(q) : h[i] = h[i - 1] + q[i].size
    BY BytesFacts
  <2> QED BY <1>2, <2>1
<1> DEFINE S == {i \in 0..k : h[i] = g[i]}
<1>6. 0 \in S
  BY <1>2, <1>4, <1>5
<1>7. ASSUME NEW i \in 0..(k - 1), i \in S PROVE i + 1 \in S
  <2>1. i + 1 \in 1..k /\ i + 1 \in 1..(k + 1) /\ (i + 1) - 1 = i /\ i + 1 \in 0..k
    BY <1>2
  <2>2. g[i + 1] = g[i] + s[i + 1].size /\ h[i + 1] = h[i] + q[i + 1].size /\ q[i + 1] = s[i + 1]
    BY <1>2, <1>4, <1>5, <2>1
  <2> QED BY <1>7, <2>1, <2>2
<1>8. h[k] = g[k]
  <2>1. \A i \in 0..(k - 1) : i \in S => i + 1 \in S
    BY <1>7
  <2>2. k \in 0..k
    BY <1>2
  <2> HIDE DEF S
  <2>3. k \in S
    BY <1>2, <1>6, <2>1, <2>2, UpTo
  <2> QED BY <2>3 DEF S
<1>9. h[k + 1] = h[k] + r.size /\ g[k] \in Nat
  <2>1. k + 1 \in 1..(k + 1) /\ (k + 1) - 1 = k /\ k \in 0..k
    BY <1>2
  <2> QED BY <1>2, <1>4, <1>5, <2>1
<1>10. Bytes(<<>>) = 0
  <2>1. PICK e \in Seq(Record) : e = <<>> /\ Len(e) = 0
    BY EmptySeq
  <2>2. PICK z \in [0..Len(e) -> Nat] : Bytes(e) = z[Len(e)] /\ z[0] = 0
    BY BytesFacts
  <2> QED BY <2>1, <2>2
<1> QED BY <1>1, <1>4, <1>5, <1>8, <1>9, <1>10

\* Without a size there is no statement.
LEMMA IntactEmpty ==
  ASSUME NEW s \in Seq(Record), Intact(s), Bytes(s) = 0
  PROVE  s = <<>>
<1>1. Len(s) \in Nat /\ (Len(s) = 0 <=> s = <<>>)
  BY EmptySeq
<1>2. ASSUME s # <<>> PROVE FALSE
  <2>1. 1 \in 1..Len(s)
    BY <1>1, <1>2
  <2>2. s[1].size = 0 /\ s[1].size > 0
    BY <2>1, NoBytes DEF Intact
  <2> QED BY <2>2
<1> QED BY <1>2

LEMMA IntactFacts ==
  ASSUME NEW s \in Seq(Record), NEW t \in Seq(Record), NEW r \in Record
  PROVE  /\ Intact(<<>>)
         /\ Intact(s) /\ r.whole /\ r.size > 0 => Intact(Append(s, r))
         /\ Intact(s \o t) => Intact(s)
         /\ (\A i \in 1..Len(Append(s, r)) : Append(s, r)[i].whole) =>
              r.whole /\ \A i \in 1..Len(s) : s[i].whole
<1>1. Intact(<<>>)
  BY EmptySeq DEF Intact
<1>2. PICK q \in Seq(Record) : q = Append(s, r)
  BY AppendProperties
<1>3. PICK k \in Nat : k = Len(s)
  OBVIOUS
<1>4. Len(q) = k + 1 /\ q[k + 1] = r /\ \A i \in 1..k : q[i] = s[i]
  BY <1>2, <1>3, AppendProperties
<1>5. \A i \in 1..(k + 1) : i = k + 1 \/ i \in 1..k
  BY <1>3
<1>6. k + 1 \in 1..(k + 1) /\ \A i \in 1..k : i \in 1..(k + 1)
  BY <1>3
<1>7. Intact(s) /\ r.whole /\ r.size > 0 => Intact(q)
  BY <1>3, <1>4, <1>5 DEF Intact
<1>8. (\A i \in 1..Len(q) : q[i].whole) => r.whole /\ \A i \in 1..Len(s) : s[i].whole
  BY <1>3, <1>4, <1>6
<1>9. Intact(s \o t) => Intact(s)
  <2>1. PICK u \in Seq(Record) : u = s \o t
    BY ConcatProperties
  <2>2. PICK l \in Nat : l = Len(t)
    OBVIOUS
  <2>3. Len(u) = k + l /\ \A i \in 1..k : u[i] = s[i]
    BY <1>3, <2>1, <2>2, ConcatProperties
  <2>4. \A i \in 1..k : i \in 1..Len(u)
    BY <2>3
  <2> QED BY <1>3, <2>1, <2>3, <2>4 DEF Intact
<1> QED BY <1>1, <1>2, <1>7, <1>8, <1>9

LEMMA LimitFacts ==
  ASSUME NEW n \in Nat, NEW s \in Seq(Record), NEW t \in Seq(Record), NEW r \in Record
  PROVE  /\ InLimit(<<>>, n)
         /\ r.size <= n => InLimit(<<r>>, n)
         /\ InLimit(s, n) /\ Small(Append(s, r), n) => InLimit(Append(s, r), n)
         /\ InLimit(s \o t, n) => InLimit(s, n)
         /\ InLimit(s, n) => Small(s, n)
<1>1. PICK k \in Nat : k = Len(s)
  OBVIOUS
<1>2. SubSeq(s, 1, k) = s
  BY <1>1, SubSeqProperties
<1>3. InLimit(<<>>, n)
  <2>1. PICK e \in Seq(Record) : e = <<>> /\ Len(e) = 0 /\ Bytes(e) = 0
    BY EmptySeq, BytesAppend
  <2>2. ASSUME NEW i \in 0..0 PROVE Small(SubSeq(e, 1, i), n)
    <3>1. SubSeq(e, 1, i) = e
      BY <2>1, <2>2
    <3>2. Small(e, n)
      BY <2>1 DEF Small
    <3> QED BY <3>1, <3>2
  <2> QED BY <2>1, <2>2 DEF InLimit
<1>4. InLimit(s, n) /\ Small(Append(s, r), n) => InLimit(Append(s, r), n)
  <2>1. PICK q \in Seq(Record) : q = Append(s, r)
    BY AppendProperties
  <2>2. Len(q) = k + 1 /\ \A i \in 1..k : q[i] = s[i]
    BY <1>1, <2>1, AppendProperties
  <2>3. SubSeq(q, 1, k + 1) = q
    BY <1>1, <2>2, SubSeqProperties
  <2>4. ASSUME NEW i \in 0..k PROVE SubSeq(q, 1, i) = SubSeq(s, 1, i)
    <3>1. i <= k /\ i \in Nat
      BY <1>1
    <3> DEFINE a == SubSeq(q, 1, i)  b == SubSeq(s, 1, i)
    <3>2. /\ a \in Seq(Record) /\ b \in Seq(Record) /\ Len(a) = i /\ Len(b) = i
          /\ \A j \in 1..i : a[j] = q[j] /\ b[j] = s[j]
      BY <1>1, <2>2, <3>1
    <3>3. \A j \in 1..i : a[j] = b[j]
      BY <1>1, <2>2, <3>1, <3>2
    <3> HIDE DEF a, b
    <3>4. a = b
      BY <3>2, <3>3, SeqEqual
    <3> QED BY <3>4 DEF a, b
  <2>5. \A i \in 0..(k + 1) : i = k + 1 \/ i \in 0..k
    BY <1>1
  <2> SUFFICES ASSUME InLimit(s, n), Small(q, n) PROVE InLimit(q, n)
    BY <2>1
  <2> QED BY <1>1, <2>2, <2>3, <2>4, <2>5 DEF InLimit
<1>5. InLimit(s \o t, n) => InLimit(s, n)
  <2>1. PICK u \in Seq(Record) : u = s \o t
    BY ConcatProperties
  <2>2. PICK l \in Nat : l = Len(t)
    OBVIOUS
  <2>3. Len(u) = k + l /\ \A i \in 1..k : u[i] = s[i]
    BY <1>1, <2>1, <2>2, ConcatProperties
  <2>4. ASSUME NEW i \in 0..k PROVE SubSeq(u, 1, i) = SubSeq(s, 1, i) /\ i \in 0..Len(u)
    <3>1. i <= k /\ i \in Nat /\ i <= Len(u)
      BY <1>1, <2>3
    <3> DEFINE a == SubSeq(u, 1, i)  b == SubSeq(s, 1, i)
    <3>2. /\ a \in Seq(Record) /\ b \in Seq(Record) /\ Len(a) = i /\ Len(b) = i
          /\ \A j \in 1..i : a[j] = u[j] /\ b[j] = s[j]
      BY <1>1, <2>3, <3>1
    <3>3. \A j \in 1..i : a[j] = b[j]
      BY <1>1, <2>3, <3>1, <3>2
    <3> HIDE DEF a, b
    <3>4. a = b
      BY <3>2, <3>3, SeqEqual
    <3> QED BY <3>1, <3>4, <2>3 DEF a, b
  <2> QED BY <1>1, <2>1, <2>4 DEF InLimit
<1>6. InLimit(s, n) => Small(s, n)
  <2>1. k \in 0..k
    BY <1>1
  <2> QED BY <1>1, <1>2, <2>1 DEF InLimit
<1>7. r.size <= n => InLimit(<<r>>, n)
  <2> SUFFICES ASSUME r.size <= n PROVE InLimit(<<r>>, n)
    OBVIOUS
  <2>1. PICK q \in Seq(Record) : q = <<r>>
    <3>1. <<r>> \in Seq(Record)
      OBVIOUS
    <3> QED BY <3>1
  <2>2. Len(q) = 1 /\ Bytes(q) <= n
    <3>1. PICK e \in Seq(Record) : e = <<>>
      BY EmptySeq
    <3>2. q = Append(e, r)
      BY <2>1, <3>1
    <3>3. Bytes(q) = Bytes(e) + r.size /\ Bytes(e) = 0 /\ r.size \in Nat
      <4>1. r.size \in Nat
        BY DEF Record
      <4> QED BY <3>1, <3>2, <4>1, BytesAppend
    <3> QED BY <2>1, <3>3
  <2>3. ASSUME NEW i \in 0..1 PROVE Small(SubSeq(q, 1, i), n)
    <3>1. CASE i = 1
      <4>1. SubSeq(q, 1, Len(q)) = q
        <5> HIDE <2>1
        <5> QED BY SubSeqProperties
      <4>2. Small(q, n)
        BY <2>2 DEF Small
      <4> QED BY <2>2, <3>1, <4>1, <4>2
    <3>2. CASE i = 0
      <4>1. SubSeq(q, 1, i) = <<>>
        BY <2>2, <3>2
      <4>2. Bytes(<<>>) = 0
        BY BytesAppend
      <4>3. Small(<<>>, n)
        BY <4>2 DEF Small
      <4> QED BY <4>1, <4>3
    <3> QED BY <3>1, <3>2
  <2> QED BY <2>1, <2>2, <2>3 DEF InLimit
<1> QED BY <1>3, <1>4, <1>5, <1>6, <1>7

\* A statement behind the headers is the only one.
LEMMA AfterHeaders ==
  ASSUME NEW s \in Seq(Record), NEW r \in Record, OnlyHeaders(s), r.id # 0
  PROVE  Single(Append(s, r))
<1>1. PICK q \in Seq(Record) : q = Append(s, r)
  BY AppendProperties
<1>2. PICK k \in Nat : k = Len(s)
  OBVIOUS
<1>3. Len(q) = k + 1 /\ q[k + 1] = r /\ (\A i \in 1..k : q[i] = s[i]) /\ DOMAIN q = 1..(k + 1)
  BY <1>1, <1>2, AppendProperties
<1>4. k + 1 \in 1..(k + 1) /\ \A i \in 1..(k + 1) : i = k + 1 \/ i \in 1..k
  BY <1>2
<1>5. \A j \in 1..(k + 1) : q[j].id # 0 <=> j = k + 1
  BY <1>2, <1>3, <1>4 DEF OnlyHeaders
<1>6. Single(q)
  <2>1. k + 1 \in DOMAIN q /\ \A j \in DOMAIN q : q[j].id # 0 <=> j = k + 1
    BY <1>3, <1>4, <1>5
  <2> QED BY <2>1 DEF Single
<1> QED BY <1>1, <1>6

-----------------------------------------------------------------------------

\* What is buffered goes to the file or is lost.
LEMMA ContentDrain ==
  ASSUME NEW g, Typed(g)
  PROVE  /\ Typed(Drain(g)) /\ Drain(g).pending = <<>> /\ Drain(g).file = g.file /\ Drain(g).wrote = g.wrote
         /\ Drain(g).fresh = g.fresh /\ Drain(g).due = g.due /\ Drain(g).size = g.size
         /\ DOMAIN Drain(g).disk = DOMAIN g.disk
         /\ g.file # "unlinked" => Content(Drain(g)) = Content(g)
<1> DEFINE e == Drain(g)
<1>1. /\ Typed(e) /\ e.pending = <<>> /\ e.file = g.file /\ e.wrote = g.wrote
      /\ DOMAIN e.disk = DOMAIN g.disk
      /\ g.file # "open" => e.disk = g.disk
  BY AllRecords, DrainInv DEF Typed
<1>2. /\ DOMAIN g = Fields /\ (g.file = "open" => Base \in DOMAIN g.disk) /\ (g.file = "closed" => g.pending = <<>>)
      /\ g.file \in {"closed", "open", "unlinked"} /\ Content(g) \in Seq(Record)
  BY ContentTyped
<1>3. e.fresh = g.fresh /\ e.due = g.due /\ e.size = g.size
  BY <1>2 DEF Drain, Fields
<1>4. CASE g.file = "open"
  <2>1. e.disk = [g.disk EXCEPT ![Base] = Content(g)]
    BY <1>2, <1>4 DEF Drain, Content, Fields
  <2>2. e.disk[Base] = Content(g)
    BY <1>2, <1>4, <2>1
  <2> HIDE DEF e
  <2>3. Content(e) = Content(g) \o <<>>
    BY <1>1, <1>2, <1>4, <2>2 DEF Content, e
  <2>4. Content(e) = Content(g)
    BY <1>2, <2>3, JoinedFacts
  <2> QED BY <1>1, <1>3, <2>4 DEF e
<1>5. CASE g.file # "open"
  <2>1. e.disk = g.disk /\ e.pending = <<>>
    BY <1>1, <1>5
  <2> HIDE DEF e
  <2>2. g.file = "closed" => Content(e) = Content(g)
    BY <1>2, <2>1 DEF Content
  <2> QED BY <1>1, <1>2, <1>3, <1>5, <2>2 DEF e
<1> QED BY <1>4, <1>5

LEMMA ContentClose ==
  ASSUME NEW g, NEW c, Typed(g)
  PROVE  /\ Typed(CloseFile(g, c)) /\ CloseFile(g, c).pending = <<>> /\ CloseFile(g, c).file = "closed"
         /\ CloseFile(g, c).wrote = g.wrote /\ CloseFile(g, c).fresh = g.fresh /\ CloseFile(g, c).due = g.due
         /\ DOMAIN CloseFile(g, c).disk = DOMAIN g.disk
         /\ g.file # "unlinked" => Content(CloseFile(g, c)) = Content(g)
<1> DEFINE h == CloseFile(g, c)  e == Drain(g)
<1>1. /\ Typed(h) /\ h.pending = <<>> /\ h.file = "closed" /\ h.wrote = g.wrote
      /\ DOMAIN h.disk = DOMAIN g.disk
  BY AllRecords, CloseInv DEF Typed
<1>2. CASE g.file = "closed"
  <2>1. h = g
    BY <1>2 DEF CloseFile, NativeClose, StreamClose
  <2> QED BY <1>1, <2>1
<1>3. CASE g.file # "closed"
  <2>1. /\ Typed(e) /\ e.pending = <<>> /\ e.fresh = g.fresh /\ e.due = g.due
        /\ g.file # "unlinked" => Content(e) = Content(g)
    BY ContentDrain
  <2>2. h = [e EXCEPT !.file = "closed"] \/ h = [e EXCEPT !.file = "closed", !.pending = <<>>]
    BY <1>3 DEF CloseFile, NativeClose, StreamClose
  <2> HIDE DEF h, e
  <2>3. DOMAIN e = Fields
    BY <2>1, ContentTyped
  <2>4. h.disk = e.disk /\ h.fresh = e.fresh /\ h.due = e.due
    BY <2>2, <2>3 DEF Fields
  <2>5. Content(h) = Content(e)
    BY <1>1, <2>1, <2>4 DEF Content, h
  <2> QED BY <1>1, <2>1, <2>4, <2>5 DEF h
<1> QED BY <1>2, <1>3

\* What a file holds that was just opened, with or without a header from the
\* notifier.
Begins(g, mode) == IF mode = "w" \/ Base \notin DOMAIN g.disk THEN <<>> ELSE Content(g)

LEMMA ContentOpen ==
  ASSUME NEW g, NEW c \in FileSinkConfig, NEW mode, Typed(g), g.file = "closed"
  PROVE  LET h == OpenFile(g, c, mode)  s == Begins(g, mode)
         IN  /\ Typed(h) /\ h.file = "open" /\ h.wrote = g.wrote /\ h.due = g.due /\ s \in Seq(Record)
             /\ Base \in DOMAIN h.disk
             /\ IF c.header = 0 \/ g.fresh THEN Content(h) = s /\ h.disk[Base] = s /\ h.pending = <<>>
                ELSE /\ Content(h) = Append(s, Header(c))
                     /\ \/ h.disk[Base] = Append(s, Header(c)) /\ h.pending = <<>>
                        \/ h.disk[Base] = s /\ h.pending = <<Header(c)>>
<1> DEFINE h == OpenFile(g, c, mode)
           e == IF c.native THEN NativeOpen(g, mode) ELSE StreamOpen(g, mode)
           s == Begins(g, mode)
<1>1. /\ Typed(h) /\ h.file = "open" /\ h.wrote = g.wrote /\ DOMAIN h.disk = DOMAIN g.disk \cup {Base}
  BY AllRecords, OpenInv DEF Typed
<1>2. /\ DOMAIN g = Fields /\ g.pending = <<>> /\ Content(g) = IF Base \in DOMAIN g.disk THEN g.disk[Base] ELSE <<>>
  BY ContentTyped, NothingPending
<1>3. s \in Seq(Record)
  BY ContentTyped, EmptySeq DEF Begins
<1>4. /\ DOMAIN Opened(g.disk, mode) = DOMAIN g.disk \cup {Base} /\ Opened(g.disk, mode)[Base] = s
  BY <1>2 DEF Opened, Put, Begins
<1>5. /\ DOMAIN e = Fields /\ e.disk = Opened(g.disk, mode) /\ e.file = "open" /\ e.pending = <<>>
      /\ e.fresh = g.fresh /\ e.due = g.due
  <2>1. CASE c.native
    BY <1>2, <2>1 DEF NativeOpen, Fields
  <2>2. CASE ~c.native
    BY <1>2, <2>2 DEF StreamOpen, Fields
  <2> QED BY <2>1, <2>2
<1>6. h = IF c.header = 0 THEN e ELSE IF e.fresh THEN [e EXCEPT !.fresh = FALSE] ELSE WriteHeader(e, c)
  BY DEF OpenFile, AfterOpen
<1> HIDE DEF h, e, s
<1>7. s \o <<>> = s
  BY <1>3, JoinedFacts
<1>8. CASE c.header = 0 \/ g.fresh
  <2>1. h.disk = e.disk /\ h.pending = <<>> /\ h.due = e.due
    BY <1>5, <1>6, <1>8 DEF Fields
  <2>2. h.disk[Base] = s /\ Content(h) = s
    BY <1>1, <1>4, <1>5, <1>7, <2>1 DEF Content, h
  <2> QED BY <1>1, <1>3, <1>5, <1>8, <2>1, <2>2 DEF h, s
<1>9. CASE ~(c.header = 0 \/ g.fresh)
  <2>1. PICK r \in Record : r = Header(c)
    BY AllRecords DEF FileSets
  <2>2. PICK u \in Seq(Record) : u = <<r>> /\ u = Append(<<>>, r)
    <3>1. <<r>> \in Seq(Record) /\ <<r>> = Append(<<>>, r)
      OBVIOUS
    <3> QED BY <3>1
  <2>3. Append(s, r) = s \o u /\ Append(s, r) \in Seq(Record)
    BY <1>3, <2>2, AppendIsConcat, AppendProperties
  <2>4. Append(s, r) \o <<>> = Append(s, r)
    BY <2>3, JoinedFacts
  <2>5. CASE c.native
    <3>1. h = [e EXCEPT !.disk[Base] = Append(@, r)]
      BY <1>5, <1>6, <1>9, <2>1, <2>5 DEF WriteHeader
    <3>2. h.disk = [e.disk EXCEPT ![Base] = Append(@, r)] /\ h.pending = e.pending /\ h.due = e.due
      BY <1>5, <3>1 DEF Fields
    <3>3. h.disk[Base] = Append(s, r)
      BY <1>4, <1>5, <3>2
    <3>4. Content(h) = Append(s, r)
      BY <1>1, <1>5, <2>4, <3>2, <3>3 DEF Content, h
    <3> QED BY <1>1, <1>3, <1>5, <1>9, <2>1, <3>2, <3>3, <3>4 DEF h, s
  <2>6. CASE ~c.native
    <3>1. h = [e EXCEPT !.pending = Append(@, r)]
      BY <1>5, <1>6, <1>9, <2>1, <2>6 DEF WriteHeader
    <3>2. h.disk = e.disk /\ h.pending = u /\ h.due = e.due
      BY <1>5, <2>2, <3>1 DEF Fields
    <3>3. h.disk[Base] = s /\ Content(h) = s \o u
      BY <1>1, <1>4, <1>5, <3>2 DEF Content, h
    <3> QED BY <1>1, <1>3, <1>5, <1>9, <2>1, <2>2, <2>3, <3>2, <3>3 DEF h, s
  <2> QED BY <2>5, <2>6
<1> QED BY <1>8, <1>9

-----------------------------------------------------------------------------

\* The size of a file just opened, read from the disk or, of a new one, 0.
LEMMA OpenCounts ==
  ASSUME NEW g, NEW c \in FileSinkConfig, NEW mode, Typed(g), g.file = "closed", NEW h,
         LET o == OpenFile(g, c, mode)
         IN  /\ h.disk = o.disk /\ h.file = o.file /\ h.pending = o.pending
             /\ h.size = FileSize(o.disk, Base) \/ (h.size = 0 /\ Begins(g, mode) = <<>>)
  PROVE  Counted(h, c)
<1> DEFINE o == OpenFile(g, c, mode)  s == Begins(g, mode)
<1>1. /\ s \in Seq(Record) /\ Base \in DOMAIN o.disk
      /\ IF c.header = 0 \/ g.fresh THEN Content(o) = s /\ o.disk[Base] = s
         ELSE /\ Content(o) = Append(s, Header(c))
              /\ o.disk[Base] = Append(s, Header(c)) \/ o.disk[Base] = s
  BY ContentOpen
<1> HIDE DEF o, s
<1>2. Content(h) = Content(o)
  BY DEF Content, o
<1>3. FileSize(o.disk, Base) = Bytes(o.disk[Base])
  BY <1>1 DEF FileSize
<1>4. PICK r \in Record : r = Header(c) /\ r.size = c.header
  BY AllRecords DEF FileSets, Header
<1>5. Bytes(s) \in Nat /\ Bytes(<<>>) = 0 /\ Bytes(Append(s, r)) = Bytes(s) + c.header /\ c.header \in Nat
  BY <1>1, <1>4, BytesAppend DEF FileSinkConfig
<1>6. h.size = Bytes(o.disk[Base]) \/ (h.size = 0 /\ s = <<>>)
  BY <1>3 DEF o, s
<1>7. h.size = Bytes(Content(o)) \/ h.size = Bytes(Content(o)) - c.header
  <2>1. CASE c.header = 0 \/ g.fresh
    BY <1>1, <1>5, <1>6, <2>1
  <2>2. CASE ~(c.header = 0 \/ g.fresh)
    <3>1. Content(o) = Append(s, r) /\ (o.disk[Base] = Append(s, r) \/ o.disk[Base] = s)
      BY <1>1, <1>4, <2>2
    <3>2. Bytes(Content(o)) = Bytes(s) + c.header
      BY <1>5, <3>1
    <3>3. h.size = Bytes(s) + c.header \/ h.size = Bytes(s)
      BY <1>5, <1>6, <3>1
    <3> QED BY <1>5, <3>2, <3>3
  <2> QED BY <2>1, <2>2
<1> QED BY <1>2, <1>7 DEF Counted

LEMMA ReopenCounts ==
  ASSUME NEW g, NEW c \in FileSinkConfig, Typed(g)
  PROVE  LET h == Reopen(g, c)
         IN  Typed(h) /\ Counted(h, c) /\ h.file = "open" /\ h.due = g.due
<1> DEFINE k == CloseFile(g, c)  o == OpenFile(k, c, c.mode)  h == Reopen(g, c)
<1>1. Typed(k) /\ k.file = "closed" /\ k.due = g.due
  BY ContentClose
<1>2. h = [o EXCEPT !.size = FileSize(o.disk, Base)]
  BY DEF Reopen
<1> HIDE DEF k
<1>3. Typed(o) /\ o.file = "open" /\ o.due = k.due
  BY <1>1, ContentOpen
<1>4. DOMAIN o = Fields
  BY <1>3, ContentTyped
<1> HIDE DEF h
<1>5. /\ DOMAIN h = Fields /\ h.disk = o.disk /\ h.file = o.file /\ h.pending = o.pending /\ h.wrote = o.wrote
      /\ h.due = o.due /\ h.size = FileSize(o.disk, Base)
  <2> HIDE DEF o
  <2> QED BY <1>2, <1>4 DEF Fields
<1>6. Counted(h, c)
  BY <1>1, <1>5, OpenCounts
<1>7. Typed(h)
  <2> HIDE DEF o
  <2> QED BY <1>3, <1>5, OtherFields DEF Typed
<1> QED BY <1>1, <1>3, <1>5, <1>6, <1>7 DEF h

\* Only these fields matter.
LEMMA SameCount ==
  ASSUME NEW g, NEW c, NEW h, Counted(g, c), Content(h) = Content(g), h.file = g.file, h.size = g.size
  PROVE  Counted(h, c)
BY DEF Counted

LEMMA FlushCounts ==
  ASSUME NEW g, NEW c \in FileSinkConfig, Typed(g), Counted(g, c), g.file # "closed"
  PROVE  LET h == FlushSink(g, c)
         IN  /\ Typed(h) /\ Counted(h, c) /\ h.file # "closed" /\ h.due = g.due
             /\ g.file = "open" => /\ h.file = "open" /\ Content(h) = Content(g) /\ h.size = g.size
                                   /\ h.wrote = FALSE /\ (g.wrote => h.pending = <<>>)
                                   /\ ~g.wrote => h = g
<1> DEFINE h == FlushSink(g, c)
<1>1. DOMAIN g = Fields /\ g.file \in {"closed", "open", "unlinked"} /\ (g.file = "open" => Base \in DOMAIN g.disk)
      /\ g.wrote \in BOOLEAN
  BY ContentTyped
<1>2. CASE ~g.wrote
  <2>1. h = g
    BY <1>2 DEF FlushSink, NativeFlush, StreamFlush
  <2> QED BY <1>1, <1>2, <2>1
<1>3. CASE g.wrote
  <2> DEFINE d == Drain(g)  e == [d EXCEPT !.wrote = FALSE]
  <2>1. /\ Typed(d) /\ d.pending = <<>> /\ d.file = g.file /\ d.due = g.due /\ d.size = g.size
        /\ DOMAIN d.disk = DOMAIN g.disk /\ (g.file # "unlinked" => Content(d) = Content(g)) /\ DOMAIN d = Fields
    BY ContentDrain, ContentTyped
  <2>2. h = IF Base \in DOMAIN e.disk THEN e ELSE Reopen(e, c)
    BY <1>3 DEF FlushSink, NativeFlush, StreamFlush
  <2> HIDE DEF d, h
  <2>3. /\ Typed(e) /\ DOMAIN e = Fields /\ e.disk = d.disk /\ e.file = d.file /\ e.pending = <<>> /\ e.wrote = FALSE
        /\ e.due = d.due /\ e.size = d.size
    <3>1. Typed(e) /\ e.disk = d.disk /\ e.file = d.file /\ e.pending = <<>>
      BY <2>1, NotWrittenInv DEF Typed
    <3> QED BY <2>1, <3>1 DEF Fields
  <2> HIDE DEF e
  <2>4. Content(e) = Content(d)
    BY <2>1, <2>3 DEF Content
  <2>5. Base \in DOMAIN e.disk => Counted(e, c)
    <3>1. g.file = "open" => Counted(e, c)
      BY <2>1, <2>3, <2>4, SameCount
    <3> QED BY <1>1, <2>1, <2>3, <3>1 DEF Counted
  <2>6. Typed(Reopen(e, c)) /\ Counted(Reopen(e, c), c) /\ Reopen(e, c).file = "open" /\ Reopen(e, c).due = e.due
    BY <2>3, ReopenCounts
  <2>7. g.file = "open" => h = e
    BY <1>1, <2>1, <2>2, <2>3
  <2>8. Typed(h) /\ Counted(h, c) /\ h.file # "closed" /\ h.due = g.due
    BY <2>1, <2>2, <2>3, <2>5, <2>6
  <2> QED BY <1>3, <2>1, <2>3, <2>4, <2>7, <2>8 DEF h
<1> QED BY <1>1, <1>2, <1>3

\* What write_log makes of a statement.
Longer(r, c) == [r EXCEPT !.size = @ + c.growth]

LEMMA TakenCounts ==
  ASSUME NEW g, NEW c \in FileSinkConfig, NEW r \in Record, Typed(g), Counted(g, c), g.file # "closed"
  PROVE  LET h == Taken(g, c, r)
         IN  /\ Typed(h) /\ Counted(h, c) /\ h.file = g.file /\ h.due = g.due /\ h.wrote = TRUE
             /\ Content(h) = Append(Content(g), Longer(r, c))
<1> DEFINE q == Longer(r, c)
           p == Append(g.pending, q)  s == g.size + r.size + c.growth  l == g.log \o Whole(<<r>>)
           h == Taken(g, c, r)  b == IF Base \in DOMAIN g.disk THEN g.disk[Base] ELSE <<>>
<1>1. Typed(h) /\ h.file = g.file
  BY AllRecords, TakenInv DEF Typed
<1>2. DOMAIN g = Fields /\ g.pending \in Seq(Record) /\ Content(g) \in Seq(Record) /\ b \in Seq(Record)
  BY ContentTyped
<1>3. q \in Record /\ q.size = r.size + c.growth /\ r.size \in Nat /\ c.growth \in Nat
  <2>1. r.size + c.growth \in Nat /\ r.size \in Nat /\ c.growth \in Nat
    BY DEF FileSinkConfig, Record
  <2>2. q.size = r.size + c.growth
    BY DEF Record, Longer
  <2>3. q \in Record
    BY <2>1 DEF Record, Longer
  <2> HIDE DEF q
  <2> QED BY <2>1, <2>2, <2>3
<1>4. h = [g EXCEPT !.pending = p, !.size = s, !.wrote = TRUE, !.log = l]
  BY DEF Taken, Longer
<1>5. Content(g) = b \o g.pending
  BY DEF Content
<1> HIDE DEF p, s, l, h, q, b
<1>6. h.disk = g.disk /\ h.pending = p /\ h.due = g.due /\ h.size = s /\ h.wrote = TRUE
  BY <1>2, <1>4 DEF Fields
<1>7. Content(h) = b \o p
  BY <1>6 DEF Content, b
<1>8. Content(h) = Append(Content(g), q)
  BY <1>2, <1>3, <1>5, <1>7, JoinedFacts DEF p
<1>9. Counted(h, c)
  <2> SUFFICES ASSUME g.file = "open", \A i \in 1..Len(Content(h)) : Content(h)[i].whole
               PROVE  h.size = Bytes(Content(h)) \/ h.size = Bytes(Content(h)) - c.header
    BY <1>1 DEF Counted, h
  <2>1. PICK x \in Seq(Record) : x = Content(g)
    BY <1>2
  <2>2. \A i \in 1..Len(x) : x[i].whole
    BY <1>3, <1>8, <2>1, IntactFacts
  <2>3. g.size = Bytes(x) \/ g.size = Bytes(x) - c.header
    BY <2>1, <2>2 DEF Counted
  <2>4. Bytes(x) \in Nat /\ Bytes(Content(h)) = Bytes(x) + q.size /\ c.header \in Nat
    BY <1>3, <1>8, <2>1, BytesAppend DEF FileSinkConfig
  <2>5. h.size = g.size + r.size + c.growth
    BY <1>6 DEF s
  <2>6. PICK n \in Nat, i \in Nat, j \in Nat, m \in Nat :
          n = Bytes(x) /\ i = r.size /\ j = c.growth /\ m = c.header
    BY <1>3, <2>4
  <2>7. g.size \in {n, n - m} /\ h.size = g.size + i + j /\ Bytes(Content(h)) = n + (i + j)
    BY <1>3, <2>3, <2>4, <2>5, <2>6
  <2>8. h.size \in {n + (i + j), (n + (i + j)) - m}
    <3>1. n + i + j = n + (i + j) /\ (n - m) + i + j = (n + (i + j)) - m
      OBVIOUS
    <3> QED BY <2>7, <3>1
  <2> QED BY <2>6, <2>7, <2>8
<1> QED BY <1>1, <1>6, <1>8, <1>9 DEF h, q

\* Only what is open can be intact or not.
LEMMA DrainCounts ==
  ASSUME NEW g, NEW c, Typed(g), Counted(g, c)
  PROVE  Counted(Drain(g), c)
<1>1. /\ Drain(g).file = g.file /\ Drain(g).size = g.size
      /\ g.file # "unlinked" => Content(Drain(g)) = Content(g)
  BY ContentDrain
<1>2. CASE g.file = "open"
  <2> DEFINE e == Drain(g)
  <2>1. e.file = g.file /\ e.size = g.size /\ Content(e) = Content(g)
    BY <1>1, <1>2
  <2> HIDE DEF e
  <2>2. Counted(e, c)
    BY <2>1, SameCount
  <2> QED BY <2>2 DEF e
<1>3. CASE g.file # "open"
  BY <1>1, <1>3 DEF Counted
<1> QED BY <1>2, <1>3

LEMMA WriteCounts ==
  ASSUME NEW g, NEW c \in FileSinkConfig, NEW r \in Record, Typed(g), Counted(g, c), g.file # "closed"
  PROVE  LET h == WriteStatement(g, c, r)
         IN  /\ Typed(h) /\ Counted(h, c) /\ h.file = g.file /\ h.due = g.due /\ h.wrote = TRUE
             /\ g.file = "open" => Content(h) = Append(Content(g), Longer(r, c))
<1>1. CASE ~c.native
  <2> DEFINE t == Taken(g, c, r)
  <2>1. WriteStatement(g, c, r) = t
    BY <1>1 DEF WriteStatement, StreamWrite
  <2>2. /\ Typed(t) /\ Counted(t, c) /\ t.file = g.file /\ t.due = g.due /\ t.wrote = TRUE
        /\ Content(t) = Append(Content(g), Longer(r, c))
    BY TakenCounts
  <2> HIDE DEF t
  <2> QED BY <2>1, <2>2
<1>2. CASE c.native
  <2> DEFINE e == IF Fits(g, c, r) THEN g ELSE Drain(g)
             t == Taken(e, c, r)  d == Drain(t)
  <2>1. /\ Typed(e) /\ Counted(e, c) /\ e.file = g.file /\ e.due = g.due
        /\ g.file = "open" => Content(e) = Content(g)
    BY ContentDrain, DrainCounts
  <2> HIDE DEF e
  <2>2. /\ Typed(t) /\ Counted(t, c) /\ t.file = g.file /\ t.due = g.due /\ t.wrote = TRUE
        /\ g.file = "open" => Content(t) = Append(Content(g), Longer(r, c))
    BY <2>1, TakenCounts
  <2>3. WriteStatement(g, c, r) = t \/ WriteStatement(g, c, r) = d
    BY <1>2 DEF WriteStatement, NativeWrite, e
  <2> HIDE DEF t
  <2>4. /\ Typed(d) /\ Counted(d, c) /\ d.file = g.file /\ d.due = g.due /\ d.wrote = TRUE
        /\ g.file = "open" => Content(d) = Append(Content(g), Longer(r, c))
    BY <2>2, ContentDrain, DrainCounts
  <2> HIDE DEF d
  <2> QED BY <2>2, <2>3, <2>4
<1> QED BY <1>1, <1>2

-----------------------------------------------------------------------------

\* A piece of a statement in the file or the buffer.
LEMMA TornIsNotCounted ==
  ASSUME NEW h, NEW c, NEW s \in Seq(Record), NEW t \in Seq(Record), NEW r \in Record, ~r.whole,
         Content(h) = Append(s, r) \o t
  PROVE  Counted(h, c)
<1>1. PICK q \in Seq(Record) : q = Append(s, r)
  BY AppendProperties
<1>2. PICK k \in Nat, l \in Nat : k = Len(s) /\ l = Len(t)
  OBVIOUS
<1>3. Len(q) = k + 1 /\ q[k + 1] = r
  BY <1>1, <1>2, AppendProperties
<1>4. Len(q \o t) = k + 1 + l /\ (q \o t)[k + 1] = r
  <2>1. Len(q \o t) = Len(q) + Len(t) /\ \A i \in 1..Len(q) : (q \o t)[i] = q[i]
    BY ConcatProperties
  <2>2. k + 1 \in 1..Len(q)
    BY <1>3
  <2> QED BY <1>2, <1>3, <2>1, <2>2
<1>5. k + 1 \in 1..Len(Content(h)) /\ ~Content(h)[k + 1].whole
  BY <1>1, <1>2, <1>4
<1> QED BY <1>5 DEF Counted

LEMMA NativeFailsCount ==
  ASSUME NEW g, NEW c, NEW records \in Seq(Record), Typed(g), Counted(g, c),
         NEW h \in NativeWriteFails(g, records)
  PROVE  Counted(h, c)
<1>1. CASE h = g
  BY <1>1
<1>2. CASE h # g
  <2> DEFINE r == Torn(Head(records))
  <2>1. records # <<>> /\ g.file = "open" /\ h = [g EXCEPT !.disk[Base] = Append(@, r)]
    BY <1>2 DEF NativeWriteFails
  <2>2. Head(records) \in Record
    BY <2>1, HeadTailProperties
  <2>3. r \in Record /\ ~r.whole
    BY <2>2 DEF Torn, Record
  <2>4. /\ DOMAIN g = Fields /\ Base \in DOMAIN g.disk /\ g.disk[Base] \in Seq(Record)
        /\ g.pending \in Seq(Record)
    BY <2>1, ContentTyped
  <2> HIDE DEF r
  <2>5. h.disk = [g.disk EXCEPT ![Base] = Append(@, r)] /\ h.pending = g.pending
    BY <2>1, <2>4 DEF Fields
  <2>6. Base \in DOMAIN h.disk /\ h.disk[Base] = Append(g.disk[Base], r)
    BY <2>4, <2>5
  <2>7. Content(h) = Append(g.disk[Base], r) \o g.pending
    BY <2>5, <2>6 DEF Content
  <2> QED BY <2>3, <2>4, <2>7, TornIsNotCounted
<1> QED BY <1>1, <1>2

LEMMA FlushThrowsCount ==
  ASSUME NEW g, NEW c \in FileSinkConfig, Typed(g), Counted(g, c), NEW h \in FlushThrows(g, c)
  PROVE  Counted(h, c)
<1> DEFINE e == CloseFile(g, c)
<1>1. Typed(e) /\ e.file = "closed" /\ DOMAIN e = Fields
  BY ContentClose, ContentTyped
<1>2. g.pending \in Seq(Record)
  BY ContentTyped
<1>3. \/ h = g \/ h = Drain(g) \/ h = [e EXCEPT !.wrote = FALSE]
      \/ h \in NativeWriteFails(g, g.pending)
  BY DEF FlushThrows, NativeFlushThrows, StreamFlushThrows
<1> HIDE DEF e
<1>4. h = [e EXCEPT !.wrote = FALSE] => Counted(h, c)
  <2>1. h = [e EXCEPT !.wrote = FALSE] => h.file = "closed"
    BY <1>1 DEF Fields
  <2> QED BY <2>1 DEF Counted
<1> QED BY <1>2, <1>3, <1>4, DrainCounts, NativeFailsCount

LEMMA WriteThrowsCount ==
  ASSUME NEW g, NEW c \in FileSinkConfig, NEW r \in Record, Typed(g), Counted(g, c), NEW h \in WriteThrows(g, c, r)
  PROVE  Counted(h, c)
<1> DEFINE e == Drain(g)
<1>1. Typed(e) /\ Counted(e, c)
  BY ContentDrain, DrainCounts
<1>2. g.pending \in Seq(Record) /\ <<r>> \in Seq(Record) /\ DOMAIN g = Fields
  BY ContentTyped
<1>3. CASE c.native
  <2>1. h \in NativeWriteFails(g, g.pending) \/ h \in NativeWriteFails(e, <<r>>)
    BY <1>3 DEF WriteThrows, NativeWriteThrows
  <2> HIDE DEF e
  <2> QED BY <1>1, <1>2, <2>1, NativeFailsCount
<1>4. CASE ~c.native /\ h = g
  BY <1>4
<1>5. CASE ~c.native /\ h # g
  <2> DEFINE b == IF Base \in DOMAIN g.disk THEN g.disk[Base] ELSE <<>>
  <2>1. h = [g EXCEPT !.pending = Append(@, Torn(r))]
    BY <1>5 DEF WriteThrows, StreamWriteThrows
  <2>2. Torn(r) \in Record /\ ~Torn(r).whole
    BY DEF Torn, Record
  <2>3. b \in Seq(Record)
    BY ContentTyped, EmptySeq
  <2>4. h.disk = g.disk /\ h.pending = Append(g.pending, Torn(r))
    BY <1>2, <2>1 DEF Fields
  <2>5. Content(h) = b \o Append(g.pending, Torn(r))
    BY <2>4 DEF Content
  <2> HIDE DEF b
  <2>6. /\ b \o g.pending \in Seq(Record) /\ Append(b \o g.pending, Torn(r)) \in Seq(Record)
        /\ Content(h) = Append(b \o g.pending, Torn(r))
    BY <1>2, <2>2, <2>3, <2>5, JoinedFacts, AppendProperties
  <2>7. Content(h) = Append(b \o g.pending, Torn(r)) \o <<>> /\ <<>> \in Seq(Record)
    BY <2>6, JoinedFacts
  <2> QED BY <2>2, <2>6, <2>7, TornIsNotCounted
<1> QED BY <1>3, <1>4, <1>5

\* The process dies: of the current file what is on the disk is left.
LEMMA ContentKilled ==
  ASSUME NEW g, NEW c, Typed(g)
  PROVE  LET h == Killed(g)
         IN  /\ Counted(h, c) /\ h.file = "closed" /\ h.pending = <<>> /\ h.disk = g.disk /\ h.due = FALSE
             /\ \E t \in Seq(Record) : Content(g) = Content(h) \o t /\ Content(h) \in Seq(Record)
                                       /\ (g.pending = <<>> => Content(h) = Content(g))
<1> DEFINE h == Killed(g)  l == WithoutLast(g.log, Len(Whole(g.pending)))
           b == IF Base \in DOMAIN g.disk THEN g.disk[Base] ELSE <<>>
<1>1. DOMAIN g = Fields /\ g.pending \in Seq(Record) /\ b \in Seq(Record)
  BY ContentTyped, EmptySeq
<1>2. h = [g EXCEPT !.file = "closed", !.pending = <<>>, !.size = 0, !.wrote = FALSE, !.fresh = FALSE,
                    !.due = FALSE, !.log = l]
  BY DEF Killed
<1>3. Content(g) = b \o g.pending
  BY DEF Content
<1> HIDE DEF l, h
<1>4. h.disk = g.disk /\ h.pending = <<>> /\ h.file = "closed" /\ h.due = FALSE
  BY <1>1, <1>2 DEF Fields
<1>5. Content(h) = b \o <<>>
  BY <1>4 DEF Content
<1> HIDE DEF b
<1>6. Content(h) = b /\ (g.pending = <<>> => Content(g) = b)
  BY <1>1, <1>3, <1>5, JoinedFacts
<1>7. Counted(h, c)
  BY <1>4 DEF Counted
<1> QED BY <1>1, <1>3, <1>4, <1>6, <1>7 DEF h

LEMMA ContentUnlink ==
  ASSUME NEW g, NEW h, NEW names, Typed(g), g.file = "closed",
         DOMAIN h = Fields, h.disk = Unlink(g.disk, names), h.file = g.file, h.pending = g.pending, h.wrote = g.wrote
  PROVE  /\ Typed(h) /\ DOMAIN h.disk = DOMAIN g.disk \ names
         /\ Base \notin names => Content(h) = Content(g)
<1>1. DiskInv(g.disk, {}, Name, Record, Record) /\ g.pending = <<>> /\ g.wrote \in BOOLEAN
  BY DEF Typed, FileInv
<1>2. DiskInv(h.disk, {}, Name, Record, Record)
  <2>1. DiskInv(Unlink(g.disk, names), DOMAIN g.disk \ names, Name, Record, Record)
    BY <1>1, DiskUnlink
  <2> QED BY <2>1 DEF DiskInv
<1>3. Typed(h)
  BY <1>1, <1>2, EmptySeq DEF Typed, FileInv
<1>4. DOMAIN h.disk = DOMAIN g.disk \ names /\ \A n \in DOMAIN h.disk : h.disk[n] = g.disk[n]
  BY DEF Unlink
<1>5. Base \notin names => Content(h) = Content(g)
  BY <1>4 DEF Content
<1> QED BY <1>3, <1>4, <1>5

\* A file that was opened, with its size and the history noted, and perhaps a
\* header due.
LEMMA NewFileCounts ==
  ASSUME NEW g, NEW c \in FileSinkConfig, NEW mode, NEW log, NEW size, Typed(g), g.file = "closed", NEW h,
         LET o == OpenFile(g, c, mode)
         IN  /\ size = FileSize(o.disk, Base) \/ (size = 0 /\ Begins(g, mode) = <<>>)
             /\ h = Noted(o, log, size) \/ h = Constructed(Noted(o, log, size), c)
  PROVE  /\ Counted(h, c) /\ DOMAIN h = Fields
         /\ LET o == OpenFile(g, c, mode)
            IN  h.disk = o.disk /\ h.file = o.file /\ h.pending = o.pending /\ h.wrote = o.wrote /\ h.size = size
<1> DEFINE o == OpenFile(g, c, mode)  k == Noted(o, log, size)
<1>1. DOMAIN o = Fields
  <2>1. Typed(o)
    BY ContentOpen
  <2> HIDE DEF o
  <2> QED BY <2>1, ContentTyped
<1>2. size = FileSize(o.disk, Base) \/ (size = 0 /\ Begins(g, mode) = <<>>)
  OBVIOUS
<1>3. h = k \/ h = Constructed(k, c)
  OBVIOUS
<1>4. /\ DOMAIN k = Fields /\ k.disk = o.disk /\ k.file = o.file /\ k.pending = o.pending /\ k.size = size
      /\ k.wrote = o.wrote
  <2> HIDE DEF o
  <2> QED BY <1>1 DEF Noted, Fields
<1> HIDE DEF k
<1>5. /\ DOMAIN h = Fields /\ h.disk = k.disk /\ h.file = k.file /\ h.pending = k.pending /\ h.size = size
      /\ h.wrote = k.wrote
  BY <1>3, <1>4 DEF Constructed, Fields
<1>6. h.disk = o.disk /\ h.file = o.file /\ h.pending = o.pending /\ h.size = size /\ h.wrote = o.wrote
  BY <1>4, <1>5
<1>7. Counted(h, c)
  BY <1>2, <1>6, OpenCounts
<1> QED BY <1>5, <1>6, <1>7

\* Noting the size alone.
LEMMA SizeNoted ==
  ASSUME NEW g, NEW c \in FileSinkConfig, NEW mode, NEW size, Typed(g), g.file = "closed"
  PROVE  LET o == OpenFile(g, c, mode) IN [o EXCEPT !.size = size] = Noted(o, o.log, size)
<1> DEFINE o == OpenFile(g, c, mode)
<1>1. DOMAIN o = Fields
  <2>1. Typed(o)
    BY ContentOpen
  <2> HIDE DEF o
  <2> QED BY <2>1, ContentTyped
<1>2. PICK x : x = o
  OBVIOUS
<1>3. [x EXCEPT !.size = size] = [x EXCEPT !.log = x.log, !.size = size]
  BY <1>1, <1>2 DEF Fields
<1> QED BY <1>2, <1>3 DEF Noted

LEMMA CountFacts ==
  ASSUME RotatingIInv, SizeInv
  PROVE  /\ Typed(f) /\ DOMAIN f = Fields /\ cfg.file \in FileSinkConfig /\ Counted(f, cfg.file)
         /\ f.file \in {"closed", "open", "unlinked"} /\ (f.file = "closed" => f.pending = <<>>)
         /\ Renaming \/ pc = "down" => f.file = "closed"
<1>1. cfg.file \in FileSinkConfig
  BY ConfigFacts DEF RotatingIInv, SpentInv
<1> QED BY <1>1, TypedFile, ContentTyped DEF RotatingIInv, CallInv, SizeInv

LEMMA ClosedIsCounted == ASSUME NEW g, NEW c, g.file # "open" PROVE Counted(g, c)
BY DEF Counted

LEMMA CountInCall ==
  ASSUME RotatingIInv, SizeInv,
         RotateReopens \/ RotateEmpty \/ RotateCloses \/ RotateThrows \/ AppendRecord \/ AppendThrows \/ Flush
  PROVE  Counted(f', cfg.file)
<1> DEFINE c == cfg.file  g == FlushSink(f, c)
<1>1. Typed(f) /\ DOMAIN f = Fields /\ c \in FileSinkConfig /\ Counted(f, c)
  BY CountFacts
<1>2. CASE RotateReopens
  <2> DEFINE o == OpenFile(f, c, ReopenMode)  size == FileSize(o.disk, Base)
  <2>1. f.file = "closed" /\ f' = [o EXCEPT !.size = size]
    BY <1>2 DEF RotateReopens
  <2>2. f' = Noted(o, o.log, size)
    BY <1>1, <2>1, SizeNoted
  <2> QED BY <1>1, <2>1, <2>2, NewFileCounts
<1>3. f.file # "closed" => Typed(g) /\ Counted(g, c)
  BY <1>1, FlushCounts
<1>4. CASE RotateEmpty
  BY <1>3, <1>4 DEF RotateEmpty
<1>5. CASE RotateCloses
  <2>1. f' = CloseFile(g, c) /\ f.file # "closed"
    BY <1>5 DEF RotateCloses
  <2> HIDE DEF g
  <2>2. f'.file = "closed"
    BY <1>3, <2>1, ContentClose
  <2> QED BY <2>2, ClosedIsCounted
<1>6. CASE RotateThrows
  <2>1. \/ f' = f
        \/ f.file # "closed" /\ (f' \in FlushThrows(f, c) \/ f' = [g EXCEPT !.wrote = TRUE] \/ f' = CloseFile(g, c))
    BY <1>6 DEF RotateThrows
  <2> HIDE DEF g, c
  <2>2. CASE f.file # "closed" /\ f' = [g EXCEPT !.wrote = TRUE]
    <3>1. DOMAIN g = Fields
      BY <1>3, <2>2, ContentTyped
    <3>2. f'.disk = g.disk /\ f'.pending = g.pending /\ f'.file = g.file /\ f'.size = g.size
      BY <2>2, <3>1 DEF Fields
    <3>3. Content(f') = Content(g)
      BY <3>2 DEF Content
    <3>4. Counted(f', c)
      BY <1>3, <2>2, <3>2, <3>3, SameCount
    <3> QED BY <3>4 DEF c
  <2>3. CASE f.file # "closed" /\ f' = CloseFile(g, c)
    <3>1. f'.file = "closed"
      BY <1>3, <2>3, ContentClose
    <3> QED BY <3>1, ClosedIsCounted
  <2>4. f' \in FlushThrows(f, c) => Counted(f', c)
    BY <1>1, FlushThrowsCount
  <2> QED BY <1>1, <2>1, <2>2, <2>3, <2>4 DEF c
<1>7. CASE AppendRecord \/ AppendThrows
  <2>1. pc = "append" /\ (f' = WriteStatement(f, c, cur) \/ f' \in WriteThrows(f, c, cur))
    BY <1>7 DEF AppendRecord, AppendThrows
  <2>2. cur \in Record
    BY <2>1 DEF RotatingIInv, CallInv, CurFacts
  <2>3. CASE f.file = "closed" /\ f' = WriteStatement(f, c, cur)
    BY <1>1, <2>3 DEF WriteStatement, NativeWrite, StreamWrite
  <2>4. CASE f.file # "closed" /\ f' = WriteStatement(f, c, cur)
    BY <1>1, <2>2, <2>4, WriteCounts
  <2>5. CASE f' \in WriteThrows(f, c, cur)
    BY <1>1, <2>2, <2>5, WriteThrowsCount
  <2> QED BY <2>1, <2>3, <2>4, <2>5
<1>8. CASE Flush
  <2>1. f.file # "closed" /\ (f' = g \/ f' \in FlushThrows(f, c))
    BY <1>8 DEF Flush
  <2>2. f' \in FlushThrows(f, c) => Counted(f', c)
    BY <1>1, FlushThrowsCount
  <2> QED BY <1>3, <2>1, <2>2
<1> QED BY <1>2, <1>4, <1>5, <1>6, <1>7, <1>8

LEMMA CountInRotation ==
  ASSUME RotatingIInv, SizeInv, Rename \/ RenameFails \/ Undo \/ Abort \/ Commit
  PROVE  Counted(f', cfg.file)
<1> DEFINE c == cfg.file
<1>1. Typed(f) /\ DOMAIN f = Fields /\ c \in FileSinkConfig /\ Renaming /\ f.file = "closed"
  BY CountFacts DEF Rename, RenameFails, Undo, Abort, Commit, Renaming
<1>2. CASE f' = f
  BY <1>1, <1>2 DEF Counted
<1>3. CASE \E d : f' = [f EXCEPT !.disk = d]
  <2>1. f'.file = "closed"
    BY <1>1, <1>3 DEF Fields
  <2> QED BY <2>1 DEF Counted
<1>4. CASE Rename \/ RenameFails \/ Undo
  BY <1>2, <1>3, <1>4 DEF Rename, RenameFails, Undo
<1>5. CASE Abort
  <2> DEFINE o == OpenFile(f, c, ReopenMode)  size == FileSize(o.disk, Base)
             h == [o EXCEPT !.size = size]
  <2>1. f' = h \/ f' = Constructed(h, c) \/ f' = f
    BY <1>5 DEF Abort, Made
  <2>2. h = Noted(o, o.log, size)
    BY <1>1, SizeNoted
  <2>3. f' = h \/ f' = Constructed(h, c) => Counted(f', c)
    <3> HIDE DEF h
    <3> QED BY <1>1, <2>2, NewFileCounts
  <2> QED BY <1>2, <2>1, <2>3
<1>6. CASE Commit
  <2> DEFINE full == Len(Recorded) > cfg.maxBackup
             oldest == Last(Recorded)
             gone == IF full /\ oldest \in DOMAIN f.disk THEN f.disk[oldest] ELSE <<>>
             log == IF full THEN Retired(f.log, gone) ELSE f.log
             names == IF full THEN {oldest} ELSE {}
             e == [f EXCEPT !.disk = Unlink(@, names)]
             Reopened(g) == Made([OpenFile(g, c, c.mode) EXCEPT !.log = log, !.size = 0])
  <2>1. /\ pc = "rename" /\ left = 0
        /\ \/ f' = Reopened(e)
           \/ f' = Reopened(f)
           \/ f' = [f EXCEPT !.disk = Unlink(@, names), !.log = log]
    BY <1>6 DEF Commit
  <2>2. Base \notin DOMAIN f.disk
    BY <2>1 DEF RotatingIInv, RenameInv
  <2> HIDE DEF log, names
  <2>3. /\ DOMAIN e = Fields /\ e.disk = Unlink(f.disk, names) /\ e.file = f.file /\ e.pending = f.pending
        /\ e.wrote = f.wrote
    BY <1>1 DEF Fields
  <2> HIDE DEF e
  <2>4. Typed(e) /\ e.file = "closed" /\ Base \notin DOMAIN e.disk
    BY <1>1, <2>2, <2>3, ContentUnlink
  <2>5. ASSUME NEW g, Typed(g), g.file = "closed", Base \notin DOMAIN g.disk,
               f' = Reopened(g)
        PROVE  Counted(f', c)
    <3> DEFINE o == OpenFile(g, c, c.mode)
    <3>1. f' = Noted(o, log, 0) \/ f' = Constructed(Noted(o, log, 0), c)
      BY <2>5 DEF Made, Noted
    <3>2. Begins(g, c.mode) = <<>>
      BY <2>5 DEF Begins
    <3> QED BY <1>1, <2>5, <3>1, <3>2, NewFileCounts
  <2>6. f' = [f EXCEPT !.disk = Unlink(@, names), !.log = log] => Counted(f', c)
    <3>1. f' = [f EXCEPT !.disk = Unlink(@, names), !.log = log] => f'.file = "closed"
      BY <1>1 DEF Fields
    <3> QED BY <3>1 DEF Counted
  <2> HIDE DEF Reopened
  <2>7. CASE f' = Reopened(e)
    BY <2>4, <2>5, <2>7
  <2>8. CASE f' = Reopened(f)
    BY <1>1, <2>2, <2>5, <2>8
  <2> QED BY <2>1, <2>6, <2>7, <2>8
<1> QED BY <1>4, <1>5, <1>6

LEMMA StartCounts ==
  ASSUME RotatingIInv, SizeInv, NEW removed \in SUBSET Cleaned(f.disk), Start(removed)
  PROVE  Counted(f', cfg.file)
<1> DEFINE c == cfg.file
           log == LogAfterStart(Cleaned(f.disk), OpenMode = "w")
           g == [f EXCEPT !.disk = Unlink(@, removed), !.fresh = (cfg.file.header # 0), !.log = log]
           o == OpenFile(g, c, OpenMode)  size == FileSize(o.disk, Base)
           list == <<Base>> \o Recovered(f.disk)
           rotate == RotationRequested /\ (Len(list) <= cfg.maxBackup \/ cfg.overwrite)
<1>0. Typed(f) /\ DOMAIN f = Fields /\ c \in FileSinkConfig
  BY CountFacts
<1>1. pc = "down" /\ IF rotate THEN f' = g ELSE f' = Constructed([o EXCEPT !.size = size], cfg.file)
  BY DEF Start
<1> HIDE DEF list
<1>2. f.file = "closed"
  BY <1>1, CountFacts
<1> HIDE DEF log
<1>3. /\ DOMAIN g = Fields /\ g.disk = Unlink(f.disk, removed) /\ g.file = f.file /\ g.pending = f.pending
      /\ g.wrote = f.wrote
  BY <1>0 DEF Fields
<1> HIDE DEF g
<1>4. Typed(g) /\ g.file = "closed"
  BY <1>0, <1>2, <1>3, ContentUnlink
<1>5. [o EXCEPT !.size = size] = Noted(o, o.log, size)
  BY <1>0, <1>4, SizeNoted
<1>6. f' = Constructed([o EXCEPT !.size = size], c) => Counted(f', c)
  BY <1>0, <1>4, <1>5, NewFileCounts
<1>7. f' = g => Counted(f', c)
  BY <1>4, ClosedIsCounted
<1> QED BY <1>1, <1>6, <1>7

LEMMA CountAtTheEnds ==
  ASSUME RotatingIInv, SizeInv,
         \/ \E removed \in SUBSET Cleaned(f.disk) : Start(removed)
         \/ StartWithoutRotation \/ Shutdown \/ Crash \/ DeleteFile
  PROVE  Counted(f', cfg.file)
<1> DEFINE c == cfg.file
<1>1. Typed(f) /\ DOMAIN f = Fields /\ c \in FileSinkConfig
  BY CountFacts
<1>3. CASE \E removed \in SUBSET Cleaned(f.disk) : Start(removed)
  BY <1>3, StartCounts
<1>4. CASE StartWithoutRotation
  <2> DEFINE g == [f EXCEPT !.fresh = (c.header # 0)]
             o == OpenFile(g, c, OpenMode)  size == FileSize(o.disk, Base)
             log == LogAfterStart({}, OpenMode = "w")
  <2>1. pc = "down" /\ f' = Constructed([o EXCEPT !.size = size, !.log = log], c)
    BY <1>4 DEF StartWithoutRotation
  <2>2. f.file = "closed"
    BY <2>1, CountFacts
  <2> HIDE DEF log
  <2>3. /\ DOMAIN g = Fields /\ g.disk = f.disk /\ g.file = f.file /\ g.pending = f.pending /\ g.wrote = f.wrote
    BY <1>1 DEF Fields
  <2> HIDE DEF g
  <2>4. Typed(g) /\ g.file = "closed"
    BY <1>1, <2>2, <2>3, OtherFields DEF Typed
  <2>5. [o EXCEPT !.size = size, !.log = log] = Noted(o, log, size)
    <3>1. DOMAIN o = Fields
      <4>1. Typed(o)
        BY <1>1, <2>4, ContentOpen
      <4> HIDE DEF o
      <4> QED BY <4>1, ContentTyped
    <3>2. PICK x : x = o
      OBVIOUS
    <3>3. PICK y : y = size
      OBVIOUS
    <3>4. [x EXCEPT !.size = y, !.log = log] = [x EXCEPT !.log = log, !.size = y]
      BY <3>1, <3>2 DEF Fields
    <3> QED BY <3>2, <3>3, <3>4 DEF Noted
  <2> QED BY <1>1, <2>1, <2>4, <2>5, NewFileCounts
<1>5. CASE Shutdown
  <2> DEFINE e == CloseFile(f, c)
  <2>1. f' = Killed(e) \/ f' = Killed(f)
    BY <1>5 DEF Shutdown
  <2>2. Typed(e)
    BY <1>1, ContentClose
  <2> HIDE DEF e
  <2> QED BY <1>1, <2>1, <2>2, ContentKilled
<1>6. CASE Crash
  BY <1>1, <1>6, ContentKilled DEF Crash
<1>7. CASE DeleteFile
  <2>1. f' = Deleted(f)
    BY <1>7 DEF DeleteFile
  <2> DEFINE n == Len(Whole(f.pending))  m == Len(f.log) - n - Len(Whole(f.disk[Base]))
             l == SubSeq(f.log, 1, m) \o SubSeq(f.log, Len(f.log) - n + 1, Len(f.log))
  <2>2. f' = [f EXCEPT !.disk = Unlink(@, {Base}), !.file = "unlinked", !.log = l]
    BY <2>1 DEF Deleted
  <2> HIDE DEF l
  <2>3. f'.file = "unlinked"
    BY <1>1, <2>2 DEF Fields
  <2> QED BY <2>3, ClosedIsCounted
<1> QED BY <1>3, <1>4, <1>5, <1>6, <1>7

\* The header is no longer due.
LEMMA DueIsNotCounted ==
  ASSUME NEW g, NEW c, NEW d, Counted(g, c), DOMAIN g = Fields
  PROVE  LET h == [g EXCEPT !.due = d]
         IN  /\ Counted(h, c) /\ Content(h) = Content(g) /\ h.due = d
             /\ h.file = g.file /\ h.pending = g.pending /\ h.wrote = g.wrote /\ h.size = g.size /\ h.disk = g.disk
<1> DEFINE h == [g EXCEPT !.due = d]
<1>1. /\ h.file = g.file /\ h.pending = g.pending /\ h.wrote = g.wrote /\ h.size = g.size /\ h.disk = g.disk
      /\ h.due = d
  BY DEF Fields
<1> HIDE DEF h
<1>2. Content(h) = Content(g)
  BY <1>1 DEF Content
<1>3. Counted(h, c)
  BY <1>1, <1>2, SameCount
<1> QED BY <1>1, <1>2, <1>3 DEF h

LEMMA CountSteps ==
  ASSUME RotatingIInv, SizeInv, [RotatingNext]_rotatingVars
  PROVE  Counted(f', cfg.file) /\ cfg' = cfg
<1>1. Counted(f, cfg.file) /\ DOMAIN f = Fields
  BY CountFacts
<1>2. ASSUME NEW late \in 0..Lateness[cfg.scheme],
             WriteFirstHeader(now - late) \/ \E size \in Sizes : WriteRecord(size, now - late)
      PROVE  Counted(f', cfg.file) /\ cfg' = cfg
  <2>1. cfg' = cfg /\ (f' = f \/ f' = [f EXCEPT !.due = FALSE])
    BY <1>2 DEF WriteFirstHeader, WriteRecord, WriteLog
  <2> QED BY <1>1, <2>1, DueIsNotCounted
<1>3. CASE RotateReopens \/ RotateEmpty \/ RotateCloses \/ RotateThrows \/ AppendRecord \/ AppendThrows \/ Flush
  <2>1. cfg' = cfg
    BY <1>3 DEF RotateReopens, RotateEmpty, RotateCloses, RotateThrows, AppendRecord, AppendThrows, Flush
  <2> QED BY <1>3, <2>1, CountInCall
<1>4. CASE Rename \/ RenameFails \/ Undo \/ Abort \/ Commit
  <2>1. cfg' = cfg
    BY <1>4 DEF Rename, RenameFails, Undo, Abort, Commit
  <2> QED BY <1>4, <2>1, CountInRotation
<1>5. CASE \/ \E removed \in SUBSET Cleaned(f.disk) : Start(removed)
           \/ StartWithoutRotation \/ Shutdown \/ Crash \/ DeleteFile
  <2>1. ASSUME NEW removed, Start(removed) PROVE cfg' = cfg
    BY <2>1 DEF Start
  <2>2. cfg' = cfg
    BY <1>5, <2>1 DEF StartWithoutRotation, Shutdown, Crash, DeleteFile
  <2> QED BY <1>5, <2>2, CountAtTheEnds
<1>6. CASE Tick \/ UNCHANGED rotatingVars
  <2>1. cfg' = cfg /\ f' = f
    BY <1>6 DEF Tick, rotatingVars
  <2> QED BY <1>1, <2>1
<1> QED BY <1>2, <1>3, <1>4, <1>5, <1>6 DEF RotatingNext

-----------------------------------------------------------------------------

LEMMA LimitNumbers ==
  ASSUME RotatingIInv
  PROVE  /\ cfg.file.header \in Nat /\ cfg.file.growth \in Nat /\ cfg.maxSize \in Nat /\ Limit \in Nat
         /\ cfg.file.mode \in {"a", "w"}
<1>1. cfg \in Config
  BY ConfigAssumption DEF RotatingIInv, SpentInv
<1>2. cfg.file.header \in Nat /\ cfg.file.growth \in Nat /\ cfg.maxSize \in Nat
  BY <1>1 DEF Config, FileSinkConfig
<1>3. Limit \in Nat
  BY <1>2 DEF Limit
<1>4. cfg.file.mode \in {"a", "w"}
  BY <1>1 DEF Config, FileSinkConfig
<1> QED BY <1>2, <1>3, <1>4

\* What is known before a step that is no fault and deletes nothing.
LEMMA LimitBefore ==
  ASSUME RotatingIInv, SizeInv, LimitKept', cfg' = cfg, NoFault' => NoFault, spent'.deletes = spent.deletes
  PROVE  /\ LimitKept /\ NoFault /\ cfg.maxSize # 0 /\ LimitsRight
         /\ cfg.file.header \in Nat /\ cfg.file.growth \in Nat /\ cfg.maxSize \in Nat /\ Limit \in Nat
         /\ Intact(Content(f)) /\ Content(f) \in Seq(Record) /\ Bytes(Content(f)) \in Nat
         /\ f.file \in {"closed", "open"} /\ f.wrote \in BOOLEAN
         /\ f.file = "open" => f.size = Bytes(Content(f)) \/ f.size = Bytes(Content(f)) - cfg.file.header
<1>1. LimitKept /\ NoFault /\ cfg.maxSize # 0 /\ LimitsRight
  BY DEF LimitKept, SizeInv, LimitInv
<1>2. cfg.file.header \in Nat /\ cfg.file.growth \in Nat /\ cfg.maxSize \in Nat /\ Limit \in Nat
  BY LimitNumbers
<1>3. Content(f) \in Seq(Record) /\ f.file \in {"closed", "open", "unlinked"} /\ f.wrote \in BOOLEAN
  BY CountFacts, ContentTyped
<1>4. Bytes(Content(f)) \in Nat
  <2>1. [id |-> 0, size |-> 0, ts |-> 0, whole |-> TRUE] \in Record
    BY DEF Record
  <2> QED BY <1>3, <2>1, BytesAppend
<1>5. Intact(Content(f)) /\ f.file # "unlinked"
  BY <1>1 DEF LimitsRight, BufferRight
<1>6. f.file = "open" => f.size = Bytes(Content(f)) \/ f.size = Bytes(Content(f)) - cfg.file.header
  BY <1>5 DEF SizeInv, Counted, Intact
<1> QED BY <1>1, <1>2, <1>3, <1>4, <1>5, <1>6

\* A statement comes to a sink that has a file.
LEMMA WriteLogFits ==
  ASSUME RotatingIInv, SizeInv, NEW r \in Record, WriteLog(r), r.whole, r.size > 0,
         r.id = 0 => r.size = cfg.file.header /\ f.due,
         Content(f') = Content(f), f'.file = f.file, f'.pending = f.pending, f'.wrote = f.wrote, f'.size = f.size,
         ~f'.due, NoFault' = NoFault, spent'.deletes = spent.deletes
  PROVE  LimitInv'
<1>1. /\ pc = "ready" /\ cur' = r /\ cfg' = cfg /\ created' = created
      /\ pc' \in {"append", "rotate"} /\ (pc' = "append" => why' = "none" \/ Refused)
      /\ pc' = "rotate" => why' # "none"
      /\ why' = "none" => ~Enabled \/ ~SizeRotation(r.size)
  BY DEF WriteLog
<1> SUFFICES ASSUME LimitKept' PROVE LimitsRight'
  BY DEF LimitInv
<1>2. LimitsRight /\ NoFault /\ cfg.maxSize # 0
  BY <1>1, LimitBefore
<1>3. Refused' = Refused /\ Enabled' = Enabled /\ Limit' = Limit
  BY <1>1 DEF Refused, Enabled, Limit
<1>4. BufferRight(f', cfg'.file)
  BY <1>1, <1>2 DEF LimitsRight, BufferRight
<1>5. FilesInLimit'
  BY <1>1, <1>2, <1>3 DEF LimitsRight, FilesInLimit, Renaming
<1>6. FirstIsHeader'
  BY <1>1, <1>2, <1>3 DEF LimitsRight, FirstIsHeader, Renaming
<1>7. pc' = "append" /\ ~Refused' => why' = "none" /\ f'.size + cur'.size <= cfg'.maxSize
  <2> SUFFICES ASSUME pc' = "append", ~Refused PROVE why' = "none" /\ f.size + r.size <= cfg.maxSize
    BY <1>1, <1>3
  <2>1. why' = "none" /\ ~SizeRotation(r.size)
    BY <1>1, <1>2 DEF LimitsRight, CallFits
  <2>2. f.file = "open"
    BY <1>1, <1>2, LimitBefore DEF RotatingIInv, CallInv
  <2>3. f.size \in Int /\ cfg.maxSize \in Nat /\ r.size \in Nat
    BY <1>1, <2>2, LimitBefore DEF Record
  <2>4. ~(r.size > cfg.maxSize - f.size)
    BY <1>2, <2>1 DEF SizeRotation
  <2> QED BY <2>1, <2>3, <2>4
<1>8. CallFits'
  BY <1>1, <1>2, <1>3, <1>7 DEF LimitsRight, CallFits, Renaming
<1> QED BY <1>4, <1>5, <1>6, <1>8 DEF LimitsRight

LEMMA WriteRecordFits ==
  ASSUME RotatingIInv, SizeInv, NEW size \in Sizes, NEW t \in 0..now, WriteRecord(size, t)
  PROVE  LimitInv'
<1> DEFINE r == [id |-> spent.records + 1, size |-> size, ts |-> t, whole |-> TRUE]
<1>1. spent' = [spent EXCEPT !.records = @ + 1] /\ f' = f /\ ~f.due /\ WriteLog(r)
  BY DEF WriteRecord
<1>2. spent.records \in Nat /\ now \in Nat /\ size \in Nat /\ size > 0
  BY SizesAssumption DEF RotatingIInv, SpentInv
<1>3. r \in Record /\ r.id # 0 /\ r.size > 0 /\ r.whole
  BY <1>2 DEF Record
<1>4. NoFault' = NoFault /\ spent'.deletes = spent.deletes
  BY <1>1 DEF RotatingIInv, SpentInv, NoFault
<1> HIDE DEF r
<1> QED BY <1>1, <1>3, <1>4, WriteLogFits

LEMMA WriteFirstHeaderFits ==
  ASSUME RotatingIInv, SizeInv, NEW t \in 0..now, WriteFirstHeader(t)
  PROVE  LimitInv'
<1> DEFINE r == [Header(cfg.file) EXCEPT !.ts = t]
<1>1. spent' = spent /\ f' = [f EXCEPT !.due = FALSE] /\ f.due /\ WriteLog(r)
  BY DEF WriteFirstHeader
<1>2. now \in Nat /\ NoFault' = NoFault /\ spent'.deletes = spent.deletes /\ cfg' = cfg
  BY <1>1 DEF WriteLog, RotatingIInv, SpentInv, NoFault
<1> SUFFICES ASSUME LimitKept' PROVE LimitInv'
  BY DEF LimitInv
<1>3. cfg.file.header \in Nat /\ cfg.file.header # 0
  BY <1>1, <1>2, LimitBefore DEF LimitsRight, FirstIsHeader
<1>4. r \in Record /\ r.id = 0 /\ r.size = cfg.file.header /\ r.size > 0 /\ r.whole
  <2>1. Header(cfg.file) \in [id : {0}, size : {cfg.file.header}, ts : Nat, whole : BOOLEAN] /\ Header(cfg.file).whole
    BY DEF Header
  <2>2. t \in Nat
    BY <1>2
  <2>3. r \in [id : {0}, size : {cfg.file.header}, ts : Nat, whole : BOOLEAN] /\ r.whole
    BY <2>1, <2>2
  <2> HIDE DEF r
  <2> QED BY <1>3, <2>3 DEF Record
<1> HIDE DEF r
<1>5. /\ Content(f') = Content(f) /\ f'.file = f.file /\ f'.pending = f.pending /\ f'.wrote = f.wrote
      /\ f'.size = f.size /\ ~f'.due
  <2>1. Counted(f, cfg.file) /\ DOMAIN f = Fields
    BY CountFacts
  <2> QED BY <1>1, <2>1, DueIsNotCounted
<1> QED BY <1>1, <1>2, <1>4, <1>5, WriteLogFits

\* A file of size 0 holds no statement.
LEMMA NoSizeNothing ==
  ASSUME NEW g, Typed(g), Intact(Content(g)), Base \in DOMAIN g.disk
  PROVE  /\ g.disk[Base] \in Seq(Record) /\ g.pending \in Seq(Record)
         /\ FileSize(g.disk, Base) = 0 => g.disk[Base] = <<>> /\ Content(g) = g.pending
         /\ FileSize(g.disk, Base) > 0 => Content(g) # <<>>
<1>0. PICK r \in Record : TRUE
  <2>1. [id |-> 0, size |-> 0, ts |-> 0, whole |-> TRUE] \in Record
    BY DEF Record
  <2> QED BY <2>1
<1>1. PICK s \in Seq(Record), p \in Seq(Record) : s = g.disk[Base] /\ p = g.pending
  BY ContentTyped
<1>2. Content(g) = s \o p /\ FileSize(g.disk, Base) = Bytes(s)
  BY <1>1 DEF Content, FileSize
<1>3. Intact(s)
  BY <1>0, <1>1, <1>2, IntactFacts
<1>4. Bytes(s) = 0 => s = <<>>
  BY <1>3, IntactEmpty
<1>5. s = <<>> => s \o p = p
  BY <1>0, <1>1, JoinedFacts
<1>6. s \o p = <<>> => Bytes(s) = 0
  <2>1. Bytes(<<>>) = 0
    BY <1>0, <1>1, BytesAppend
  <2>2. s \o p = <<>> => s = <<>>
    BY <1>0, <1>1, JoinedFacts
  <2> QED BY <2>1, <2>2
<1>7. Bytes(s) \in Nat
  BY <1>0, BytesAppend
<1>8. Bytes(s) = 0 => s = <<>> /\ Content(g) = p
  BY <1>2, <1>4, <1>5
<1>9. Bytes(s) > 0 => Content(g) # <<>>
  BY <1>2, <1>6, <1>7
<1> QED BY <1>1, <1>2, <1>8, <1>9

\* Nothing, or the header alone, at the start of a file.
Bare(s, c) == s = <<>> \/ (s = <<Header(c)>> /\ c.header # 0)

LEMMA BareFacts ==
  ASSUME NEW c \in FileSinkConfig, NEW s, Bare(s, c), NEW n \in Nat, c.header <= n
  PROVE  /\ Intact(s) /\ InLimit(s, n) /\ OnlyHeaders(s) /\ Bytes(s) <= c.header /\ s \in Seq(Record)
         /\ c.header \in Nat
<1> DEFINE h == Header(c)
<1>1. h \in Record /\ h.id = 0 /\ h.size = c.header /\ h.whole /\ c.header \in Nat
  BY DEF FileSinkConfig, Header, Record
<1> HIDE DEF h
<1>2. PICK e : e = <<>> /\ e \in Seq(Record)
  BY EmptySeq
<1>3. Append(e, h) = <<h>> /\ <<h>> \in Seq(Record) /\ Len(<<h>>) = 1 /\ <<h>>[1] = h
  BY <1>1, <1>2
<1>4. Intact(e) /\ InLimit(e, n) /\ InLimit(<<h>>, n) /\ Bytes(e) = 0 /\ Bytes(Append(e, h)) = c.header
  <2>1. Intact(e)
    BY <1>1, <1>2, IntactFacts
  <2>2. InLimit(e, n) /\ InLimit(<<h>>, n)
    BY <1>1, <1>2, LimitFacts
  <2>3. Bytes(e) = 0 /\ Bytes(Append(e, h)) = Bytes(e) + h.size
    BY <1>1, <1>2, BytesAppend
  <2> QED BY <1>1, <2>1, <2>2, <2>3
<1>5. CASE s = <<>>
  <2>1. OnlyHeaders(e)
    BY <1>2 DEF OnlyHeaders
  <2> QED BY <1>1, <1>2, <1>4, <1>5, <2>1
<1>6. CASE s = <<h>> /\ c.header # 0
  <2>1. OnlyHeaders(<<h>>)
    BY <1>1, <1>3 DEF OnlyHeaders
  <2>2. Intact(<<h>>)
    BY <1>1, <1>3, <1>6 DEF Intact
  <2> QED BY <1>1, <1>3, <1>4, <1>6, <2>1, <2>2
<1> QED BY <1>5, <1>6 DEF Bare, h

\* The flush of a file nobody deleted.
LEMMA FlushOpen ==
  ASSUME NEW g, NEW c \in FileSinkConfig, Typed(g), Counted(g, c), g.file = "open", NEW h, h = FlushSink(g, c)
  PROVE  /\ Typed(h) /\ h.file = "open" /\ h.due = g.due /\ Content(h) = Content(g) /\ h.size = g.size
         /\ ~h.wrote /\ (g.wrote => h.pending = <<>>) /\ (~g.wrote => h = g)
<1>1. g.file # "closed"
  OBVIOUS
<1>2. Typed(FlushSink(g, c)) /\ FlushSink(g, c).due = g.due
  BY <1>1, FlushCounts
<1>3. /\ FlushSink(g, c).file = "open" /\ Content(FlushSink(g, c)) = Content(g) /\ FlushSink(g, c).size = g.size
      /\ FlushSink(g, c).wrote = FALSE /\ (g.wrote => FlushSink(g, c).pending = <<>>)
      /\ ~g.wrote => FlushSink(g, c) = g
  BY <1>1, FlushCounts
<1> QED BY <1>2, <1>3

LEMMA RotateEmptyFits == ASSUME RotatingIInv, SizeInv, RotateEmpty PROVE LimitInv'
<1> DEFINE c == cfg.file
<1>1. /\ pc = "rotate" /\ f.file # "closed" /\ f' = FlushSink(f, cfg.file) /\ FileSize(f'.disk, Base) = 0
      /\ pc' = "append" /\ cfg' = cfg /\ cur' = cur /\ why' = why /\ spent' = spent /\ created' = created
  BY DEF RotateEmpty, call
<1> SUFFICES ASSUME LimitKept' PROVE LimitsRight'
  BY DEF LimitInv
<1>2. /\ LimitsRight /\ f.file = "open" /\ Intact(Content(f)) /\ Limit \in Nat /\ c.header \in Nat
      /\ c.growth \in Nat /\ cfg.maxSize \in Nat /\ f.wrote \in BOOLEAN
  BY <1>1, LimitBefore DEF NoFault
<1>3. /\ Typed(f) /\ c \in FileSinkConfig /\ Counted(f, c)
  BY CountFacts
<1>4. /\ Typed(f') /\ f'.due = f.due /\ f'.file = "open" /\ Content(f') = Content(f) /\ f'.size = f.size
      /\ ~f'.wrote /\ (f.wrote => f'.pending = <<>>) /\ (~f.wrote => f' = f)
  BY <1>1, <1>2, <1>3, FlushOpen
<1>5. Content(f') = f'.pending
  BY <1>1, <1>2, <1>4, NoSizeNothing, ContentTyped
<1>6. Bare(Content(f'), c) /\ (f'.pending = <<>> \/ f'.pending = <<Header(c)>>)
  <2>1. f'.pending = <<>> \/ f'.pending = <<Header(c)>>
    BY <1>2, <1>4 DEF LimitsRight, BufferRight
  <2>2. f'.pending = <<Header(c)>> => c.header # 0
    <3> SUFFICES ASSUME f'.pending = <<Header(c)>> PROVE c.header # 0
      OBVIOUS
    <3>1. PICK h : h = Header(c)
      OBVIOUS
    <3>2. Content(f') = <<h>>
      BY <1>5, <3>1
    <3>3. Intact(<<h>>)
      BY <1>2, <1>4, <3>2
    <3>4. Len(<<h>>) = 1 /\ <<h>>[1] = h /\ 1 \in 1..1
      OBVIOUS
    <3>5. h.size > 0
      BY <3>3, <3>4 DEF Intact
    <3> QED BY <1>2, <3>1, <3>5 DEF Header
  <2> QED BY <1>5, <2>1, <2>2 DEF Bare
<1>7. OnlyHeaders(Content(f')) /\ Bytes(Content(f')) <= c.header /\ InLimit(Content(f'), Limit)
  <2>1. c.header <= Limit
    BY <1>2 DEF Limit
  <2> QED BY <1>2, <1>3, <1>6, <2>1, BareFacts
<1>8. Refused' = Refused /\ Enabled' = Enabled /\ Limit' = Limit
  BY <1>1 DEF Refused, Enabled, Limit
<1>9. BufferRight(f', cfg'.file)
  BY <1>1, <1>2, <1>4, <1>6 DEF BufferRight
<1>10. FilesInLimit'
  BY <1>1, <1>7, <1>8 DEF FilesInLimit
<1>11. FirstIsHeader'
  BY <1>1, <1>2, <1>4, <1>8 DEF LimitsRight, FirstIsHeader, Renaming
<1>12. CallFits'
  BY <1>1, <1>2, <1>4, <1>7, <1>8 DEF LimitsRight, CallFits, Renaming
<1> QED BY <1>9, <1>10, <1>11, <1>12 DEF LimitsRight

LEMMA RotateClosesFits == ASSUME RotatingIInv, SizeInv, RotateCloses PROVE LimitInv'
<1> DEFINE c == cfg.file  g == FlushSink(f, c)
<1>1. /\ pc = "rotate" /\ f.file # "closed" /\ FileSize(g.disk, Base) > 0 /\ f' = CloseFile(g, cfg.file)
      /\ pc' = "rename" /\ cfg' = cfg /\ cur' = cur /\ why' = why /\ spent' = spent /\ created' = created
  BY DEF RotateCloses
<1> SUFFICES ASSUME LimitKept' PROVE LimitsRight'
  BY DEF LimitInv
<1>2. LimitsRight /\ f.file = "open" /\ Intact(Content(f))
  BY <1>1, LimitBefore DEF NoFault
<1>3. /\ Typed(f) /\ c \in FileSinkConfig /\ Counted(f, c)
  BY CountFacts
<1>4. Typed(g) /\ g.due = f.due /\ g.file = "open" /\ Content(g) = Content(f)
  BY <1>1, <1>2, <1>3, FlushOpen
<1> HIDE DEF g
<1>5. Content(g) # <<>>
  BY <1>1, <1>2, <1>4, NoSizeNothing, ContentTyped
<1>6. Content(f') = Content(f) /\ f'.file = "closed" /\ f'.pending = <<>> /\ f'.due = f.due
  BY <1>1, <1>4, ContentClose
<1>7. ~Refused /\ Enabled /\ why # "start"
  BY <1>1 DEF RotatingIInv, CallInv
<1>8. Enabled' = Enabled /\ Limit' = Limit
  BY <1>1 DEF Enabled, Limit
<1>9. BufferRight(f', cfg'.file)
  BY <1>1, <1>2, <1>6 DEF BufferRight
<1>10. FilesInLimit'
  BY <1>1, <1>2, <1>6, <1>7, <1>8 DEF LimitsRight, FilesInLimit, Renaming
<1>11. FirstIsHeader'
  BY <1>1, <1>2, <1>4, <1>5, <1>6, <1>7 DEF LimitsRight, FirstIsHeader, CallFits, Renaming
<1>12. CallFits'
  BY <1>1, <1>2, <1>6, <1>8 DEF LimitsRight, CallFits, Renaming
<1> QED BY <1>9, <1>10, <1>11, <1>12 DEF LimitsRight

LEMMA FlushFits == ASSUME RotatingIInv, SizeInv, Flush PROVE LimitInv'
<1>1. /\ pc = "ready" /\ f.wrote /\ f.file # "closed" /\ pc' = pc /\ cfg' = cfg /\ created' = created
      /\ (f' = FlushSink(f, cfg.file) /\ spent' = spent) \/ Fault
  BY DEF Flush
<1>2. CASE Fault
  BY <1>2, SpentFault DEF LimitInv, LimitKept, RotatingIInv
<1>3. CASE ~Fault
  <2> SUFFICES ASSUME LimitKept' PROVE LimitsRight'
    BY DEF LimitInv
  <2>1. LimitsRight /\ f.file = "open" /\ Intact(Content(f)) /\ f' = FlushSink(f, cfg.file)
    BY <1>1, <1>3, LimitBefore DEF NoFault
  <2>2. f'.due = f.due /\ f'.file = "open" /\ Content(f') = Content(f) /\ f'.pending = <<>>
    <3>1. Typed(f) /\ cfg.file \in FileSinkConfig /\ Counted(f, cfg.file)
      BY CountFacts
    <3> QED BY <1>1, <2>1, <3>1, FlushOpen
  <2>3. Refused' = Refused /\ Enabled' = Enabled /\ Limit' = Limit
    BY <1>1 DEF Refused, Enabled, Limit
  <2>4. BufferRight(f', cfg'.file)
    BY <1>1, <2>1, <2>2 DEF BufferRight
  <2>5. FilesInLimit'
    BY <1>1, <2>1, <2>2, <2>3 DEF LimitsRight, FilesInLimit, Renaming
  <2>6. FirstIsHeader'
    BY <1>1, <2>1, <2>2, <2>3 DEF LimitsRight, FirstIsHeader, Renaming
  <2>7. CallFits'
    BY <1>1, <2>1, <2>3 DEF LimitsRight, CallFits, Renaming
  <2> QED BY <2>4, <2>5, <2>6, <2>7 DEF LimitsRight
<1> QED BY <1>2, <1>3

\* The current file gets another name, or is what it was.
LEMMA ContentMoved ==
  ASSUME NEW g, NEW h, NEW from, NEW to, Typed(g), g.file = "closed", from \in DOMAIN g.disk, to # Base,
         DOMAIN h = Fields, h.disk = Moved(g.disk, from, to), h.file = g.file, h.pending = g.pending
  PROVE  Content(h) = IF from = Base THEN <<>> ELSE Content(g)
<1>1. g.pending = <<>> /\ h.pending = <<>>
  BY ContentTyped
<1> DEFINE u == [m \in DOMAIN g.disk \ {from} |-> g.disk[m]]
<1>3. h.disk = [m \in DOMAIN u \cup {to} |-> IF m = to THEN g.disk[from] ELSE u[m]]
  BY DEF Moved, Put, Unlink
<1>4. CASE from = Base
  <2>1. Base \notin DOMAIN h.disk
    BY <1>3, <1>4
  <2>2. Content(h) = <<>> \o <<>>
    BY <1>1, <2>1 DEF Content
  <2> QED BY <1>4, <2>2
<1>5. CASE from # Base
  <2>1. (Base \in DOMAIN h.disk <=> Base \in DOMAIN g.disk) /\ (Base \in DOMAIN g.disk => h.disk[Base] = g.disk[Base])
    BY <1>3, <1>5
  <2>2. Content(h) = Content(g)
    BY <1>1, <2>1 DEF Content
  <2> QED BY <1>5, <2>2
<1> QED BY <1>4, <1>5

LEMMA RenameFits == ASSUME RotatingIInv, SizeInv, Rename PROVE LimitInv'
<1> DEFINE n == created[left]
<1>1. /\ pc = "rename" /\ left > 0 /\ (Renames(n) => n \in DOMAIN f.disk)
      /\ f' = IF Renames(n) THEN [f EXCEPT !.disk = Moved(@, n, NewName(n))] ELSE f
      /\ pc' = pc /\ cfg' = cfg /\ cur' = cur /\ why' = why /\ spent' = spent /\ created' = created
  BY DEF Rename
<1> SUFFICES ASSUME LimitKept' PROVE LimitsRight'
  BY DEF LimitInv
<1>2. LimitsRight /\ Intact(Content(f)) /\ Limit \in Nat /\ cfg.file.header \in Nat
  BY <1>1, LimitBefore DEF NoFault
<1>3. Renaming /\ Typed(f) /\ f.file = "closed" /\ f.pending = <<>> /\ SpentInv
  BY <1>1, CountFacts DEF Renaming, RotatingIInv
<1>4. n \in Allowed
  <2>1. left \in 1..Len(created)
    BY <1>1, <1>3, RenamingFacts
  <2> QED BY <1>3, <2>1, RenamingFacts
<1> HIDE DEF n
<1>5. /\ Content(f') = <<>> \/ Content(f') = Content(f)
      /\ f'.wrote = f.wrote /\ f'.due = f.due /\ f'.fresh = f.fresh /\ f'.file = "closed" /\ f'.pending = <<>>
  <2>1. CASE ~Renames(n)
    BY <1>1, <1>3, <2>1
  <2>2. CASE Renames(n)
    <3>1. PICK to : to = NewName(n) /\ to # Base
      BY <1>3, <1>4, <2>2, NewNameFacts
    <3>2. f' = [f EXCEPT !.disk = Moved(@, n, to)] /\ DOMAIN f = Fields /\ n \in DOMAIN f.disk
      BY <1>1, <2>2, <3>1, CountFacts
    <3>3. /\ DOMAIN f' = Fields /\ f'.disk = Moved(f.disk, n, to) /\ f'.file = f.file /\ f'.pending = f.pending
          /\ f'.wrote = f.wrote /\ f'.due = f.due /\ f'.fresh = f.fresh
      BY <3>2 DEF Fields
    <3>4. Content(f') = IF n = Base THEN <<>> ELSE Content(f)
      BY <1>3, <3>1, <3>2, <3>3, ContentMoved
    <3> QED BY <1>3, <3>3, <3>4
  <2> QED BY <2>1, <2>2
<1>6. Intact(Content(f'))
  <2>1. Intact(<<>>)
    BY EmptySeq DEF Intact
  <2> QED BY <1>2, <1>5, <2>1
<1>7. InLimit(Content(f), Limit) => InLimit(Content(f'), Limit)
  <2>1. InLimit(<<>>, Limit)
    <3>1. PICK r : r \in Record
      <4>1. Header(cfg.file) \in Record
        BY <1>2 DEF Header, Record
      <4> QED BY <4>1
    <3>2. <<>> \in Seq(Record)
      OBVIOUS
    <3> QED BY <1>2, <3>1, <3>2, LimitFacts
  <2> QED BY <1>5, <2>1
<1>8. Refused' = Refused /\ Enabled' = Enabled /\ Limit' = Limit /\ Renaming' = Renaming
  BY <1>1 DEF Refused, Enabled, Limit, Renaming
<1>9. BufferRight(f', cfg'.file)
  BY <1>1, <1>5, <1>6 DEF BufferRight
<1>10. FilesInLimit'
  BY <1>1, <1>2, <1>3, <1>7, <1>8 DEF LimitsRight, FilesInLimit
<1>11. FirstIsHeader'
  BY <1>1, <1>2, <1>3, <1>5, <1>8 DEF LimitsRight, FirstIsHeader
<1>12. CallFits'
  BY <1>1, <1>2, <1>3, <1>5, <1>8 DEF LimitsRight, CallFits
<1> QED BY <1>9, <1>10, <1>11, <1>12 DEF LimitsRight

LEMMA ListAfterCommit == ASSUME RotatingIInv, Commit PROVE created' # <<>>
<1> DEFINE kept == IF Len(Recorded) > cfg.maxBackup THEN Front(Recorded) ELSE Recorded
<1>1. pc = "rename" /\ left = 0 /\ created' = <<Base>> \o kept
  BY DEF Commit
<1>2. PICK q \in Seq(Allowed) : q = Recorded
  BY <1>1, RecordedFacts
<1>3. kept \in Seq(Allowed)
  <2>1. SubSeq(q, 1, Len(q) - 1) \in Seq(Allowed)
    OBVIOUS
  <2> QED BY <1>2, <2>1 DEF Front
<1> HIDE DEF kept
<1>4. Len(<<Base>> \o kept) = 1 + Len(kept) /\ Len(kept) \in Nat
  BY <1>3
<1>5. Len(<<Base>> \o kept) # 0
  BY <1>4
<1> QED BY <1>1, <1>5, EmptySeq

\* What a file holds, and is owed, that was opened with its size noted.
LEMMA NewFileFits ==
  ASSUME NEW g, NEW c \in FileSinkConfig, NEW mode, NEW log, NEW size, Typed(g), g.file = "closed",
         Intact(Begins(g, mode)), NEW h, NEW p, p = Noted(OpenFile(g, c, mode), log, size),
         h = p \/ h = Constructed(p, c)
  PROVE  /\ BufferRight(h, c) /\ h.file = "open" /\ Base \in DOMAIN h.disk /\ Typed(p) /\ h.disk = p.disk
         /\ IF c.header = 0 \/ g.fresh THEN Content(h) = Begins(g, mode) /\ h.pending = <<>>
            ELSE Content(h) = Append(Begins(g, mode), Header(c))
         /\ h = p => h.due = g.due
         /\ h = Constructed(p, c) => h.due = HeaderIsDue(p, c)
<1> DEFINE o == OpenFile(g, c, mode)  s == Begins(g, mode)
<1>1. /\ Typed(o) /\ o.file = "open" /\ o.due = g.due /\ s \in Seq(Record) /\ Base \in DOMAIN o.disk
      /\ IF c.header = 0 \/ g.fresh THEN Content(o) = s /\ o.disk[Base] = s /\ o.pending = <<>>
         ELSE Content(o) = Append(s, Header(c)) /\ (o.pending = <<>> \/ o.pending = <<Header(c)>>)
  BY ContentOpen
<1>2. p = Noted(o, log, size) /\ Intact(s)
  OBVIOUS
<1>3. c.header \in Nat /\ Header(c) \in Record /\ Header(c).whole /\ Header(c).size = c.header
  BY DEF FileSinkConfig, Header, Record
<1> HIDE DEF o, s
<1>4. DOMAIN o = Fields
  BY <1>1, ContentTyped
<1>5. /\ DOMAIN p = Fields /\ p.disk = o.disk /\ p.file = o.file /\ p.pending = o.pending /\ p.wrote = o.wrote
      /\ p.due = o.due
  BY <1>2, <1>4 DEF Noted, Fields
<1>6. Typed(p)
  BY <1>1, <1>5, OtherFields DEF Typed
<1>7. /\ h.disk = o.disk /\ h.file = o.file /\ h.pending = o.pending /\ h.wrote = o.wrote
      /\ h = p => h.due = g.due
      /\ h = Constructed(p, c) => h.due = HeaderIsDue(p, c)
  <2>1. CASE h = p
    <3>1. p = Constructed(p, c) => p.due = HeaderIsDue(p, c)
      BY <1>5 DEF Constructed, Fields
    <3> QED BY <1>1, <1>5, <2>1, <3>1
  <2>2. CASE h = Constructed(p, c) /\ h # p
    BY <1>1, <1>5, <2>2 DEF Constructed, Fields
  <2> QED BY <2>1, <2>2
<1>8. Content(h) = Content(o)
  BY <1>7 DEF Content
<1>9. Intact(Content(o))
  <2>1. CASE c.header = 0 \/ g.fresh
    BY <1>1, <1>2, <2>1
  <2>2. CASE ~(c.header = 0 \/ g.fresh)
    <3>1. PICK r \in Record : r = Header(c) /\ r.whole /\ r.size > 0
      BY <1>3, <2>2
    <3>2. Intact(Append(s, r))
      BY <1>1, <1>2, <3>1, IntactFacts
    <3> QED BY <1>1, <2>2, <3>1, <3>2
  <2> QED BY <2>1, <2>2
<1>10. BufferRight(h, c)
  BY <1>1, <1>7, <1>8, <1>9 DEF BufferRight
<1> QED BY <1>1, <1>5, <1>6, <1>7, <1>8, <1>10 DEF s

LEMMA CommitFits == ASSUME RotatingIInv, SizeInv, Commit PROVE LimitInv'
<1> DEFINE c == cfg.file
           full == Len(Recorded) > cfg.maxBackup
           oldest == Last(Recorded)
           gone == IF full /\ oldest \in DOMAIN f.disk THEN f.disk[oldest] ELSE <<>>
           log == IF full THEN Retired(f.log, gone) ELSE f.log
           names == IF full THEN {oldest} ELSE {}
           e == [f EXCEPT !.disk = Unlink(@, names)]
           h == Noted(OpenFile(e, cfg.file, cfg.file.mode), log, 0)
<1>1. /\ pc = "rename" /\ left = 0 /\ cfg' = cfg
      /\ \/ f' = Made(h) /\ AfterRotation /\ spent' = spent
         \/ Fault
  BY DEF Commit, Noted
<1>2. CASE Fault
  BY <1>2, SpentFault DEF LimitInv, LimitKept, RotatingIInv
<1>3. CASE ~Fault
  <2> SUFFICES ASSUME LimitKept' PROVE LimitsRight'
    BY DEF LimitInv
  <2> HIDE DEF h
  <2>1. f' = Made(h) /\ AfterRotation
    BY <1>1, <1>3
  <2>2. LimitsRight /\ Limit \in Nat /\ c.header \in Nat /\ c.growth \in Nat /\ cfg.maxSize \in Nat
    BY <1>1, <1>3, LimitBefore DEF NoFault
  <2>3. Typed(f) /\ DOMAIN f = Fields /\ c \in FileSinkConfig /\ Renaming /\ f.file = "closed" /\ Base \notin DOMAIN f.disk
    BY <1>1, CountFacts DEF RotatingIInv, RenameInv, Renaming
  <2> HIDE DEF names, log
  <2>4. /\ DOMAIN e = Fields /\ e.disk = Unlink(f.disk, names) /\ e.file = f.file /\ e.pending = f.pending
        /\ e.wrote = f.wrote /\ e.fresh = f.fresh /\ e.due = f.due
    BY <2>3 DEF Fields
  <2> HIDE DEF e
  <2>5. Typed(e) /\ e.file = "closed" /\ Begins(e, c.mode) = <<>>
    <3>1. PICK n : n = names /\ e.disk = Unlink(f.disk, n)
      BY <2>4
    <3>2. DOMAIN e = Fields /\ e.file = f.file /\ e.pending = f.pending /\ e.wrote = f.wrote
      BY <2>4
    <3>3. Typed(f) /\ f.file = "closed"
      BY <2>3
    <3>4. Typed(e) /\ DOMAIN e.disk = DOMAIN f.disk \ n
      BY <3>1, <3>2, <3>3, ContentUnlink
    <3> QED BY <2>3, <2>4, <3>4 DEF Begins
  <2>6. /\ BufferRight(f', c)
        /\ IF c.header = 0 \/ e.fresh THEN Content(f') = <<>> ELSE Content(f') = Append(<<>>, Header(c))
        /\ why # "start" => f'.due = f.due
        /\ why = "start" => f'.due = HeaderIsDue(h, c)
    <3>1. Intact(Begins(e, c.mode))
      BY <2>5, EmptySeq DEF Intact
    <3>2. f' = IF why = "start" THEN Constructed(h, c) ELSE h
      BY <2>1 DEF Made
    <3>3. PICK p : p = h /\ p = Noted(OpenFile(e, c, c.mode), log, 0)
      BY DEF h
    <3>4. f' = p \/ f' = Constructed(p, c)
      BY <3>2, <3>3
    <3>5. c \in FileSinkConfig /\ Typed(e) /\ e.file = "closed"
      BY <2>3, <2>5
    <3> HIDE DEF c
    <3>6. /\ BufferRight(f', c)
          /\ IF c.header = 0 \/ e.fresh THEN Content(f') = Begins(e, c.mode) /\ f'.pending = <<>>
             ELSE Content(f') = Append(Begins(e, c.mode), Header(c))
          /\ f' = p => f'.due = e.due
          /\ f' = Constructed(p, c) => f'.due = HeaderIsDue(p, c)
      BY <3>1, <3>3, <3>4, <3>5, NewFileFits
    <3> QED BY <2>4, <2>5, <3>2, <3>3, <3>6 DEF c
  <2>7. Bare(Content(f'), c)
    <3>1. PICK r : r = Header(c)
      OBVIOUS
    <3>2. Append(<<>>, r) = <<r>>
      OBVIOUS
    <3> QED BY <2>6, <3>1, <3>2 DEF Bare
  <2>8. OnlyHeaders(Content(f')) /\ Bytes(Content(f')) <= c.header /\ InLimit(Content(f'), Limit)
    <3>1. c.header <= Limit
      BY <2>2 DEF Limit
    <3> QED BY <2>2, <2>3, <2>7, <3>1, BareFacts
  <2>9. /\ Limit' = Limit /\ Enabled' /\ (pc' = "ready" \/ pc' = "append")
        /\ pc' = "append" => why # "start" /\ why' = why /\ cur' = cur
        /\ pc' = "ready" => why = "start"
    BY <1>1, <2>1, ListAfterCommit DEF Limit, Enabled, AfterRotation, call
  <2>10. FilesInLimit'
    BY <1>1, <2>8, <2>9 DEF FilesInLimit
  <2>11. FirstIsHeader'
    <3>1. f'.due => c.header # 0 /\ why = "start"
      BY <2>2, <2>3, <2>6 DEF LimitsRight, CallFits, HeaderIsDue
    <3>2. why = "start" /\ c.header # 0 => Content(f') = <<>>
      BY <2>2, <2>3, <2>4, <2>6 DEF LimitsRight, FirstIsHeader
    <3>3. why # "start" => cur.id # 0
      BY <2>2, <2>3 DEF LimitsRight, FirstIsHeader
    <3> QED BY <1>1, <2>9, <3>1, <3>2, <3>3 DEF FirstIsHeader, Renaming
  <2>12. CallFits'
    <3>1. why # "start" => cur.whole /\ cur.size > 0 /\ ~f'.due /\ why # "none"
      BY <2>2, <2>3, <2>6 DEF LimitsRight, CallFits
    <3> QED BY <1>1, <2>8, <2>9, <3>1 DEF CallFits, Renaming
  <2> QED BY <1>1, <2>6, <2>10, <2>11, <2>12 DEF LimitsRight
<1> QED BY <1>2, <1>3

\* What before_write adds comes on top of the limit.
LEMMA AppendFits == ASSUME RotatingIInv, SizeInv, AppendRecord PROVE LimitInv'
<1> DEFINE c == cfg.file  s == Content(f)  r == Longer(cur, c)
<1>1. /\ pc = "append" /\ f' = WriteStatement(f, cfg.file, cur) /\ pc' = "ready" /\ cfg' = cfg /\ spent' = spent
      /\ created' = created
  BY DEF AppendRecord
<1> SUFFICES ASSUME LimitKept' PROVE LimitsRight'
  BY DEF LimitInv
<1>2. /\ LimitsRight /\ NoFault /\ Limit \in Nat /\ c.header \in Nat /\ c.growth \in Nat /\ cfg.maxSize \in Nat
      /\ Intact(s) /\ s \in Seq(Record) /\ Bytes(s) \in Nat /\ f.file \in {"closed", "open"}
      /\ f.file = "open" => f.size = Bytes(s) \/ f.size = Bytes(s) - c.header
  BY <1>1, LimitBefore DEF NoFault
<1>3. f.file = "open" /\ cur \in Record
  BY <1>1, <1>2 DEF RotatingIInv, CallInv, CurFacts
<1>4. Typed(f) /\ c \in FileSinkConfig /\ Counted(f, c) /\ f.file # "closed"
  BY <1>3, CountFacts
<1>5. /\ f'.file = f.file /\ f'.due = f.due /\ f'.wrote = TRUE
      /\ Content(f') = Append(s, r)
  BY <1>1, <1>3, <1>4, WriteCounts
<1>6. r \in Record /\ r.size = cur.size + c.growth /\ r.id = cur.id /\ r.whole = cur.whole
  <2>1. cur.size \in Nat /\ cur.size + c.growth \in Nat
    BY <1>2, <1>3 DEF Record
  <2> QED BY <1>3, <2>1 DEF Longer, Record
<1>7. cur.whole /\ cur.size > 0 /\ ~f.due /\ Enabled
  BY <1>1, <1>2 DEF LimitsRight, CallFits
<1> HIDE DEF s, r
<1>8. r.whole /\ r.size > 0 /\ cur.size \in Nat
  BY <1>2, <1>3, <1>6, <1>7 DEF Record
<1>9. Intact(Append(s, r))
  BY <1>2, <1>6, <1>8, IntactFacts
<1>10. Refused' = Refused /\ Enabled' = Enabled /\ Limit' = Limit
  BY <1>1 DEF Refused, Enabled, Limit
<1>11. ASSUME ~Refused PROVE InLimit(Append(s, r), Limit)
  <2>1. InLimit(s, Limit)
    BY <1>1, <1>2, <1>11 DEF LimitsRight, FilesInLimit, Renaming, s
  <2>2. Bytes(Append(s, r)) = Bytes(s) + r.size
    BY <1>2, <1>6, BytesAppend
  <2>3. Small(Append(s, r), Limit)
    <3>1. CASE why = "none"
      <4>1. f.size + cur.size <= cfg.maxSize
        BY <1>1, <1>2, <1>11, <3>1 DEF LimitsRight, CallFits
      <4>2. Bytes(s) + cur.size + c.growth <= cfg.maxSize + c.growth + c.header
        <5>1. PICK b \in Nat, h \in Nat, m \in Nat, n \in Nat, k \in Nat :
                 b = Bytes(s) /\ h = c.header /\ m = c.growth /\ n = cfg.maxSize /\ k = cur.size
          BY <1>2, <1>8
        <5>2. f.size = b \/ f.size = b - h
          BY <1>2, <1>3, <5>1
        <5>3. b - h + k <= n
          BY <4>1, <5>1, <5>2
        <5>4. b + k + m <= n + m + h
          BY <5>3
        <5> QED BY <5>1, <5>4
      <4>3. Bytes(Append(s, r)) <= Limit
        BY <1>2, <1>6, <1>8, <2>2, <4>2 DEF Limit
      <4> QED BY <4>3 DEF Small
    <3>2. CASE why # "none" /\ cur.id # 0
      <4>1. OnlyHeaders(s)
        BY <1>1, <1>2, <1>11, <3>2 DEF LimitsRight, CallFits, s
      <4>2. Single(Append(s, r))
        BY <1>2, <1>6, <3>2, <4>1, AfterHeaders
      <4> QED BY <4>2 DEF Small
    <3>3. CASE why # "none" /\ cur.id = 0
      <4>1. s = <<>> /\ cur.size = c.header
        BY <1>1, <1>2, <1>11, <3>3 DEF LimitsRight, FirstIsHeader, s
      <4>2. Bytes(s) = 0
        BY <1>2, <1>6, <4>1, BytesAppend
      <4>3. Bytes(Append(s, r)) <= Limit
        BY <1>2, <1>6, <2>2, <4>1, <4>2 DEF Limit
      <4> QED BY <4>3 DEF Small
    <3> QED BY <3>1, <3>2, <3>3
  <2> QED BY <1>2, <1>6, <2>1, <2>3, LimitFacts
<1>12. BufferRight(f', cfg'.file)
  BY <1>1, <1>3, <1>5, <1>9 DEF BufferRight
<1>13. FilesInLimit'
  BY <1>1, <1>5, <1>10, <1>11 DEF FilesInLimit, Renaming
<1>14. FirstIsHeader'
  BY <1>1, <1>5, <1>7 DEF FirstIsHeader, Renaming
<1>15. CallFits'
  BY <1>1, <1>7, <1>10 DEF CallFits, Renaming
<1> QED BY <1>12, <1>13, <1>14, <1>15 DEF LimitsRight

LEMMA SameFits ==
  ASSUME SizeInv, cfg' = cfg, f' = f, created' = created, pc' = pc, why' = why, cur' = cur, spent' = spent
  PROVE  LimitInv'
<1>1. /\ LimitKept' = LimitKept /\ Refused' = Refused /\ Enabled' = Enabled /\ Limit' = Limit /\ Renaming' = Renaming
      /\ WouldRefuse' = WouldRefuse
  BY DEF LimitKept, NoFault, Refused, Enabled, Limit, Renaming, WouldRefuse, Rotated
<1>2. LimitKept => LimitsRight
  BY DEF SizeInv, LimitInv
<1>3. LimitsRight => BufferRight(f', cfg'.file) /\ FilesInLimit' /\ FirstIsHeader' /\ CallFits'
  BY <1>1 DEF LimitsRight, BufferRight, FilesInLimit, FirstIsHeader, CallFits
<1> QED BY <1>1, <1>2, <1>3 DEF LimitInv, LimitsRight

\* After a fault, or once the file was deleted, nothing is claimed.
LEMMA FaultsEndLimits ==
  ASSUME RotatingIInv,
         \/ RotateReopens \/ RotateThrows \/ RenameFails \/ Undo \/ Abort \/ AppendThrows
         \/ StartWithoutRotation \/ DeleteFile
  PROVE  LimitInv'
<1>1. Fault => ~NoFault'
  BY SpentFault DEF RotatingIInv
<1>2. CASE Fault
  BY <1>1, <1>2 DEF LimitInv, LimitKept
<1>3. CASE Undo \/ Abort \/ RotateReopens
  <2>1. ~NoFault /\ (Fault \/ spent' = spent)
    BY <1>3 DEF RotatingIInv, RenameInv, CallInv, Undo, Abort, RotateReopens
  <2> QED BY <1>1, <2>1 DEF LimitInv, LimitKept, NoFault
<1>4. CASE RenameFails
  <2>1. pc = "rename" /\ left > 0 /\ (Fault \/ (created[left] \notin DOMAIN f.disk /\ spent' = spent))
    BY <1>4 DEF RenameFails
  <2>2. NoFault => created[left] \in DOMAIN f.disk
    <3>1. left \in Nat
      BY <2>1, RenamingFacts DEF Renaming, DoneInv
    <3>2. left \in 1..left
      BY <2>1, <3>1
    <3> QED BY <2>1, <3>2 DEF RotatingIInv, RenameInv
  <2> QED BY <1>1, <2>1, <2>2 DEF LimitInv, LimitKept, NoFault
<1>5. CASE StartWithoutRotation
  <2>1. spent' = [spent EXCEPT !.starts = @ + 1, !.first = spent.records + 1, !.faults = @ + 1] /\ spent.faults \in Nat
    BY <1>5 DEF StartWithoutRotation, RotatingIInv, SpentInv
  <2>2. spent'.faults = spent.faults + 1
    BY <2>1 DEF RotatingIInv, SpentInv
  <2>3. spent'.faults # 0
    BY <2>1, <2>2
  <2> QED BY <2>3 DEF LimitInv, LimitKept, NoFault
<1>6. CASE DeleteFile
  <2>1. spent' = [spent EXCEPT !.deletes = @ + 1] /\ spent.deletes \in Nat
    BY <1>6 DEF DeleteFile, RotatingIInv, SpentInv
  <2>2. spent'.deletes = spent.deletes + 1
    BY <2>1 DEF RotatingIInv, SpentInv
  <2>3. spent'.deletes # 0
    BY <2>1, <2>2
  <2> QED BY <2>3 DEF LimitInv, LimitKept
<1> QED BY <1>2, <1>3, <1>4, <1>5, <1>6 DEF RotateThrows, AppendThrows

-----------------------------------------------------------------------------

\* Refused because of the files that the list names; while nothing fails they
\* are on disk, and a sink that finds them will be refused as well.
LEMMA RefusedAgain ==
  ASSUME RotatingIInv, NoFault, ~Renaming, pc # "down", Refused
  PROVE  WouldRefuse
<1> DEFINE S == 1..(Len(created) - 1)  T == Rotated(f.disk)  p == [i \in S |-> created[i + 1]]
<1>1. created \in Seq(Allowed) /\ Len(created) \in Nat
  BY DEF RotatingIInv, ListInv
<1>2. cfg.maxBackup \in Nat /\ ~cfg.overwrite /\ Len(created) > cfg.maxBackup
  BY ConfigFacts DEF RotatingIInv, SpentInv, Refused
<1>3. Len(created) >= 1 /\ Enabled
  BY <1>1, <1>2, EmptySeq DEF Enabled
<1>4. Range(created) \ {Base} \subseteq DOMAIN f.disk
  BY DEF RotatingIInv, DiskFits, FileInv, DiskInv, Kept
<1>5. IsFiniteSet(T) /\ T = DOMAIN f.disk \ {Base}
  <2>1. IsFiniteSet(DOMAIN f.disk) /\ T = DOMAIN f.disk \ {Base}
    BY CleanedFacts
  <2>2. T \in SUBSET DOMAIN f.disk
    BY <2>1
  <2> HIDE DEF T
  <2> QED BY <2>1, <2>2, FS_Subset
<1>6. 1 \in 1..Len(created)
  BY <1>1, <1>3
<1>7. ASSUME NEW i \in S PROVE i + 1 \in 1..Len(created) /\ p[i] = created[i + 1] /\ p[i] \in T
  <2>1. i + 1 \in 1..Len(created) /\ 1 < i + 1
    BY <1>1
  <2>2. created[i + 1] # Base
    BY <1>3, <1>6, <2>1, ListIsDistinct
  <2>3. created[i + 1] \in Range(created)
    BY <1>1, <2>1 DEF Range
  <2>4. p[i] = created[i + 1]
    OBVIOUS
  <2> QED BY <1>4, <1>5, <2>1, <2>2, <2>3, <2>4
<1>8. ASSUME NEW i \in S, NEW j \in S, i # j PROVE p[i] # p[j]
  <2>1. i + 1 < j + 1 \/ j + 1 < i + 1
    BY <1>8
  <2> QED BY <1>3, <1>7, <2>1, ListIsDistinct
<1>9. p \in Injection(S, T)
  <2>1. p \in [S -> T]
    BY <1>7
  <2> HIDE DEF p, S, T
  <2> QED BY <1>8, <2>1 DEF Injection, IsInjective
<1>10. Cardinality(S) = Len(created) - 1
  <2>1. 1 \in Int /\ Len(created) - 1 \in Int
    BY <1>1
  <2>2. Cardinality(S) = IF 1 > Len(created) - 1 THEN 0 ELSE (Len(created) - 1) - 1 + 1
    BY <2>1, FS_Interval
  <2> QED BY <1>1, <1>3, <2>2
<1>11. Cardinality(S) <= Cardinality(T) /\ Cardinality(T) \in Nat
  <2> HIDE DEF p, S, T
  <2> QED BY <1>5, <1>9, FS_Injection, FS_CardinalityType
<1>12. Cardinality(T) >= cfg.maxBackup
  BY <1>1, <1>2, <1>10, <1>11
<1> QED BY <1>2, <1>12 DEF WouldRefuse

\* A sink that may not overwrite removes no file and lists them all.
LEMMA AllRecovered ==
  ASSUME RotatingIInv, cfg.file.mode = "a", ~cfg.overwrite
  PROVE  Len(<<Base>> \o Recovered(f.disk)) = 1 + Cardinality(Rotated(f.disk))
<1> DEFINE T == Rotated(f.disk)  files == OldestFirst(T)  n == Cardinality(T)
<1>1. IsFiniteSet(T) /\ T \subseteq Name
  <2>1. T \in SUBSET DOMAIN f.disk /\ IsFiniteSet(DOMAIN f.disk) /\ DOMAIN f.disk \subseteq Name
    BY CleanedFacts DEF Allowed, Rotated
  <2> HIDE DEF T
  <2> QED BY <2>1, FS_Subset
<1>2. files \in Seq(T) /\ Len(files) = n /\ n \in Nat
  BY <1>1, OldestFirstFacts
<1>3. Cleaned(f.disk) = {}
  <2>1. Cleaned(f.disk) = Range(SubSeq(files, 1, 0))
    BY DEF Cleaned
  <2>2. SubSeq(files, 1, 0) = <<>>
    <3> HIDE DEF files
    <3> QED BY <1>2
  <2>3. Range(<<>>) = {}
    BY DEF Range
  <2> QED BY <2>1, <2>2, <2>3
<1>4. Recovered(f.disk) = Reverse(files)
  <2>1. T \ {} = T
    OBVIOUS
  <2> QED BY <1>3, <2>1 DEF Recovered
<1> HIDE DEF T, files, n
<1>5. Reverse(files) = [i \in 1..n |-> files[(n - i) + 1]]
  BY <1>2 DEF Reverse
<1>6. \A i \in 1..n : (n - i) + 1 \in 1..n
  BY <1>2
<1>7. Reverse(files) \in [1..n -> T]
  BY <1>2, <1>5, <1>6, ElementOfSeq
<1>8. Reverse(files) \in Seq(T) /\ Len(Reverse(files)) = n
  BY <1>2, <1>7
<1>9. Len(<<Base>> \o Reverse(files)) = 1 + n
  <2>1. PICK q : q = Reverse(files)
    OBVIOUS
  <2>2. q \in Seq(T) /\ Len(q) = n
    BY <1>8, <2>1
  <2>3. Len(<<Base>> \o q) = 1 + Len(q)
    BY <2>2
  <2> QED BY <2>1, <2>2, <2>3
<1> QED BY <1>4, <1>9 DEF n, T

\* What the process leaves: what a sink may have written, or less.
LEMMA KilledFits ==
  ASSUME RotatingIInv, LimitsRight, NoFault, pc # "down", pc' = "down", cfg' = cfg,
         NEW g, Typed(g), f' = Killed(g), Content(g) = Content(f), DOMAIN g.disk = DOMAIN f.disk
  PROVE  LimitsRight'
<1>1. f'.file = "closed" /\ f'.pending = <<>> /\ f'.disk = g.disk /\ f'.due = FALSE
  BY ContentKilled
<1>2. PICK t \in Seq(Record) : Content(f) = Content(f') \o t /\ Content(f') \in Seq(Record)
  BY ContentKilled
<1>3. cfg.file.header \in Nat /\ Limit \in Nat /\ cfg.file.mode \in {"a", "w"} /\ Limit' = Limit
  BY LimitNumbers DEF Limit
<1>4. PICK r \in Record : TRUE
  <2>1. Header(cfg.file) \in Record
    BY <1>3 DEF Header, Record
  <2> QED BY <2>1
<1>5. Intact(Content(f'))
  BY <1>2, <1>4, IntactFacts DEF LimitsRight, BufferRight
<1>6. InLimit(Content(f), Limit) => InLimit(Content(f'), Limit)
  <2>1. PICK s \in Seq(Record), n \in Nat : s = Content(f') /\ n = Limit
    BY <1>2, <1>3
  <2>2. InLimit(s \o t, n) => InLimit(s, n)
    BY <1>4, LimitFacts
  <2> QED BY <1>2, <2>1, <2>2
<1>7. Refused => WouldRefuse'
  <2>1. Refused => ~Renaming
    BY DEF RotatingIInv, CallInv
  <2>2. Refused => WouldRefuse
    BY <2>1, RefusedAgain
  <2>3. Rotated(f.disk)' = Rotated(f.disk)
    BY <1>1 DEF Rotated
  <2>4. WouldRefuse' = WouldRefuse
    BY <2>3 DEF WouldRefuse
  <2> QED BY <2>2, <2>4
<1>8. BufferRight(f', cfg'.file)
  BY <1>1, <1>5 DEF BufferRight
<1>9. FilesInLimit'
  BY <1>3, <1>6, <1>7 DEF LimitsRight, FilesInLimit
<1>10. FirstIsHeader'
  BY <1>1 DEF FirstIsHeader, Renaming
<1>11. CallFits'
  BY DEF CallFits, Renaming
<1> QED BY <1>8, <1>9, <1>10, <1>11 DEF LimitsRight

LEMMA CrashFits == ASSUME RotatingIInv, SizeInv, Crash PROVE LimitInv'
<1>1. pc # "down" /\ f' = Killed(f) /\ pc' = "down" /\ cfg' = cfg /\ spent' = spent
  BY DEF Crash
<1> SUFFICES ASSUME LimitKept' PROVE LimitsRight'
  BY DEF LimitInv
<1>2. LimitsRight /\ NoFault
  BY <1>1, LimitBefore DEF NoFault
<1> QED BY <1>1, <1>2, CountFacts, KilledFits

LEMMA ShutdownFits == ASSUME RotatingIInv, SizeInv, Shutdown PROVE LimitInv'
<1> DEFINE e == CloseFile(f, cfg.file)
<1>1. /\ pc = "ready" /\ pc' = "down" /\ cfg' = cfg
      /\ (f' = Killed(e) /\ spent' = spent) \/ Fault
  BY DEF Shutdown
<1>2. CASE Fault
  BY <1>2, SpentFault DEF LimitInv, LimitKept, RotatingIInv
<1>3. CASE ~Fault
  <2> SUFFICES ASSUME LimitKept' PROVE LimitsRight'
    BY DEF LimitInv
  <2>1. LimitsRight /\ NoFault /\ f.file # "unlinked"
    BY <1>1, <1>3, LimitBefore DEF NoFault
  <2>2. Typed(f) /\ f' = Killed(e) /\ pc # "down"
    BY <1>1, <1>3, CountFacts
  <2>3. Typed(e) /\ DOMAIN e.disk = DOMAIN f.disk /\ Content(e) = Content(f)
    BY <2>1, <2>2, ContentClose
  <2> HIDE DEF e
  <2> QED BY <1>1, <2>1, <2>2, <2>3, KilledFits
<1> QED BY <1>2, <1>3

\* A new sink finds files that are in the limit, or may not rotate, or truncates
\* the current one.
LEMMA StartFits ==
  ASSUME RotatingIInv, SizeInv, NEW removed \in SUBSET Cleaned(f.disk), Start(removed)
  PROVE  LimitInv'
<1> DEFINE c == cfg.file
           list == <<Base>> \o Recovered(f.disk)
           rotate == RotationRequested /\ (Len(list) <= cfg.maxBackup \/ cfg.overwrite)
           log == LogAfterStart(Cleaned(f.disk), OpenMode = "w")
           g == [f EXCEPT !.disk = Unlink(@, removed), !.fresh = (cfg.file.header # 0), !.log = log]
           started == OpenFile(g, cfg.file, OpenMode)
           h == [started EXCEPT !.size = FileSize(started.disk, Base)]
           kept == Cardinality(Cleaned(f.disk) \ removed)
<1>1. /\ pc = "down" /\ cfg' = cfg /\ created' = list
      /\ spent' = [spent EXCEPT !.starts = @ + 1, !.first = spent.records + 1, !.faults = @ + kept,
                                !.stale = IF cfg.file.mode = "w" THEN @ + kept ELSE @]
      /\ IF rotate THEN f' = g /\ pc' = "rename" /\ why' = "start"
         ELSE f' = Constructed(h, cfg.file) /\ pc' = "ready"
  BY DEF Start
<1>2. /\ list # <<>> /\ Len(list) \in Nat
      /\ cfg.file.mode = "a" /\ ~cfg.overwrite => Len(list) = 1 + Cardinality(Rotated(f.disk))
  BY RecoveredFacts, AllRecovered
<1>3. (NoFault' => NoFault) /\ spent'.deletes = spent.deletes
  <2> HIDE DEF kept, list, log
  <2>1. spent.faults \in Nat /\ spent'.faults = spent.faults + kept /\ spent'.deletes = spent.deletes
    BY <1>1 DEF RotatingIInv, SpentInv
  <2>2. kept \in Nat
    <3>1. IsFiniteSet(DOMAIN f.disk) /\ Cleaned(f.disk) \ removed \subseteq DOMAIN f.disk
      BY CleanedFacts DEF Rotated
    <3>2. IsFiniteSet(Cleaned(f.disk) \ removed)
      BY <3>1, FS_Subset
    <3> QED BY <3>2, FS_CardinalityType DEF kept
  <2>3. spent.faults + kept = 0 => spent.faults = 0
    BY <2>1, <2>2
  <2> QED BY <2>1, <2>3 DEF NoFault
<1> HIDE DEF list, log, kept
<1> SUFFICES ASSUME LimitKept' PROVE LimitsRight'
  BY DEF LimitInv
<1>4. /\ LimitsRight /\ Limit \in Nat /\ c.header \in Nat /\ Intact(Content(f)) /\ c.mode \in {"a", "w"}
  BY <1>1, <1>3, LimitBefore, LimitNumbers
<1>5. Typed(f) /\ DOMAIN f = Fields /\ c \in FileSinkConfig /\ f.file = "closed" /\ f.pending = <<>>
  BY <1>1, CountFacts
<1>6. /\ DOMAIN g = Fields /\ g.disk = Unlink(f.disk, removed) /\ g.file = f.file /\ g.pending = f.pending
      /\ g.wrote = f.wrote /\ (g.fresh <=> c.header # 0) /\ g.due = f.due
  BY <1>5 DEF Fields
<1> HIDE DEF g
<1>7. Typed(g) /\ g.file = "closed" /\ Content(g) = Content(f)
  <2>1. Base \notin removed
    BY CleanedFacts
  <2> QED BY <1>5, <1>6, <2>1, ContentUnlink
<1>8. Enabled' /\ Limit' = Limit
  BY <1>1, <1>2 DEF Enabled, Limit
<1>9. WouldRefuse /\ c.mode = "a" => Refused'
  <2>1. Cardinality(Rotated(f.disk)) \in Nat /\ cfg.maxBackup \in Nat
    <3>1. IsFiniteSet(Rotated(f.disk))
      BY CleanedFacts, FS_Subset
    <3> QED BY <3>1, FS_CardinalityType, ConfigFacts DEF RotatingIInv, SpentInv
  <2>2. WouldRefuse /\ c.mode = "a" => Len(list) > cfg.maxBackup /\ ~cfg.overwrite
    BY <1>2, <2>1 DEF WouldRefuse
  <2> QED BY <1>1, <2>2 DEF Refused
<1>10. RotationRequested /\ ~rotate => Refused'
  <2>1. cfg.maxBackup \in Nat
    BY ConfigFacts DEF RotatingIInv, SpentInv
  <2> QED BY <1>1, <1>2, <2>1 DEF Refused
<1>11. c.mode = "a" => InLimit(Content(f), Limit) \/ Refused'
  BY <1>1, <1>4, <1>9 DEF LimitsRight, FilesInLimit
<1>12. CASE rotate
  <2>1. f' = g /\ pc' = "rename" /\ why' = "start"
    BY <1>1, <1>12
  <2>2. BufferRight(f', cfg'.file)
    BY <1>1, <1>4, <1>5, <1>6, <1>7, <2>1 DEF BufferRight
  <2>3. FilesInLimit'
    BY <1>1, <1>4, <1>7, <1>8, <1>11, <2>1 DEF FilesInLimit, Renaming
  <2>4. FirstIsHeader'
    BY <1>1, <1>4, <1>6, <2>1 DEF LimitsRight, FirstIsHeader, Renaming
  <2>5. CallFits'
    BY <1>8, <2>1 DEF CallFits, Renaming
  <2> QED BY <2>2, <2>3, <2>4, <2>5 DEF LimitsRight
<1>13. CASE ~rotate
  <2> DEFINE s == Begins(g, OpenMode)
  <2>1. PICK p : p = Noted(started, started.log, FileSize(started.disk, Base))
    OBVIOUS
  <2>2. h = p
    <3>1. DOMAIN started = Fields
      <4>1. Typed(started)
        BY <1>5, <1>7, ContentOpen
      <4> QED BY <4>1, ContentTyped
    <3> HIDE DEF started
    <3> QED BY <2>1, <3>1 DEF Noted, Fields
  <2>3. f' = Constructed(p, c) /\ pc' = "ready"
    BY <1>1, <1>13, <2>2
  <2>4. s = <<>> \/ (s = Content(f) /\ OpenMode # "w")
    BY <1>7 DEF Begins
  <2>5. Intact(s)
    <3>1. Intact(<<>>)
      BY EmptySeq DEF Intact
    <3> QED BY <1>4, <2>4, <3>1
  <2>6. /\ BufferRight(f', c) /\ Base \in DOMAIN p.disk /\ Typed(p) /\ f'.disk = p.disk /\ f'.pending = <<>>
        /\ Content(f') = s /\ (f'.due <=> HeaderIsDue(p, c))
    <3>1. PICK size : size = FileSize(started.disk, Base) /\ p = Noted(started, started.log, size)
      BY <2>1
    <3>2. c.header = 0 \/ g.fresh
      BY <1>6
    <3> QED BY <1>5, <1>7, <2>3, <2>5, <3>1, <3>2, NewFileFits
  <2> HIDE DEF s
  <2>7. Refused' \/ OpenMode = c.mode
    BY <1>10, <1>13 DEF OpenMode
  <2>8. Refused' \/ InLimit(s, Limit)
    <3>1. InLimit(<<>>, Limit)
      <4>1. PICK r : r \in Record
        <5>1. Header(c) \in Record
          BY <1>4 DEF Header, Record
        <5> QED BY <5>1
      <4>2. <<>> \in Seq(Record)
        OBVIOUS
      <4> QED BY <1>4, <4>1, <4>2, LimitFacts
    <3> QED BY <1>4, <1>11, <2>4, <2>7, <3>1
  <2>9. f'.due => c.header # 0 /\ (Refused' \/ s = <<>>)
    <3>1. f'.due => c.header # 0 /\ (c.mode = "w" \/ FileSize(p.disk, Base) = 0)
      BY <2>6 DEF HeaderIsDue
    <3>2. FileSize(p.disk, Base) = 0 => s = <<>>
      <4>1. Content(p) = Content(f') /\ p.pending = f'.pending
        <5>1. DOMAIN p = Fields
          BY <2>6, ContentTyped
        <5>2. p.pending = f'.pending
          BY <2>3, <5>1 DEF Constructed, Fields
        <5> QED BY <2>6, <5>2 DEF Content
      <4> QED BY <2>5, <2>6, <4>1, NoSizeNothing
    <3>3. c.mode = "w" => Refused' \/ s = <<>>
      BY <2>4, <2>7
    <3> QED BY <3>1, <3>2, <3>3
  <2>10. FilesInLimit'
    BY <1>1, <1>8, <2>3, <2>6, <2>8 DEF FilesInLimit
  <2>11. FirstIsHeader'
    BY <1>1, <2>3, <2>6, <2>9 DEF FirstIsHeader, Renaming
  <2>12. CallFits'
    BY <1>8, <2>3 DEF CallFits, Renaming
  <2> QED BY <1>1, <2>6, <2>10, <2>11, <2>12 DEF LimitsRight
<1> QED BY <1>12, <1>13

LEMMA SizeSteps ==
  ASSUME RotatingIInv, SizeInv, [RotatingNext]_rotatingVars
  PROVE  SizeInv'
<1> SUFFICES LimitInv'
  BY CountSteps DEF SizeInv
<1>1. ASSUME NEW late \in 0..Lateness[cfg.scheme], late <= now,
             WriteFirstHeader(now - late) \/ \E size \in Sizes : WriteRecord(size, now - late)
      PROVE  LimitInv'
  <2>1. now \in Nat /\ Lateness[cfg.scheme] \in Nat
    BY ConfigFacts DEF RotatingIInv, SpentInv
  <2>2. now - late \in 0..now
    BY <1>1, <2>1
  <2>3. CASE WriteFirstHeader(now - late)
    BY <2>2, <2>3, WriteFirstHeaderFits
  <2>4. CASE \E size \in Sizes : WriteRecord(size, now - late)
    BY <2>2, <2>4, WriteRecordFits
  <2> QED BY <1>1, <2>3, <2>4
<1>2. CASE RotateEmpty \/ RotateCloses \/ Rename \/ Commit
  BY <1>2, RotateEmptyFits, RotateClosesFits, RenameFits, CommitFits
<1>3. CASE \/ RotateReopens \/ RotateThrows \/ RenameFails \/ Undo \/ Abort \/ AppendThrows
           \/ StartWithoutRotation \/ DeleteFile
  BY <1>3, FaultsEndLimits
<1>4. CASE AppendRecord \/ Flush
  BY <1>4, AppendFits, FlushFits
<1>5. CASE \E removed \in SUBSET Cleaned(f.disk) : Start(removed)
  BY <1>5, StartFits
<1>6. CASE Shutdown \/ Crash
  BY <1>6, ShutdownFits, CrashFits
<1>7. CASE Tick
  BY <1>7, SameFits DEF Tick, call
<1>8. CASE UNCHANGED rotatingVars
  BY <1>8, SameFits DEF rotatingVars, call
<1> QED BY <1>1, <1>2, <1>3, <1>4, <1>5, <1>6, <1>7, <1>8 DEF RotatingNext

LEMMA SizeStarts == RotatingInit => SizeInv
<1> SUFFICES ASSUME RotatingInit PROVE SizeInv
  OBVIOUS
<1>1. f = Closed /\ pc = "down" /\ cfg \in Configs
  BY DEF RotatingInit
<1>2. f.disk = [n \in {} |-> <<>>] /\ f.file = "closed" /\ f.pending = <<>> /\ f.due = FALSE
  BY <1>1 DEF Closed
<1>3. Content(f) = <<>>
  BY <1>2 DEF Content
<1>4. cfg.file.header \in Nat /\ Limit \in Nat
  <2>1. cfg \in Config
    BY <1>1, ConfigAssumption
  <2>2. cfg.file.header \in Nat /\ cfg.file.growth \in Nat /\ cfg.maxSize \in Nat
    BY <2>1 DEF Config, FileSinkConfig
  <2> QED BY <2>2 DEF Limit
<1>5. Intact(<<>>) /\ InLimit(<<>>, Limit)
  <2>1. Intact(<<>>)
    BY EmptySeq DEF Intact
  <2>2. PICK r : r \in Record
    <3>1. Header(cfg.file) \in Record
      BY <1>4 DEF Header, Record
    <3> QED BY <3>1
  <2>3. <<>> \in Seq(Record)
    OBVIOUS
  <2> QED BY <1>4, <2>1, <2>2, <2>3, LimitFacts
<1>6. LimitsRight
  <2>1. BufferRight(f, cfg.file)
    BY <1>2, <1>3, <1>5 DEF BufferRight
  <2>2. FilesInLimit
    BY <1>1, <1>3, <1>5 DEF FilesInLimit
  <2>3. FirstIsHeader
    BY <1>1, <1>2 DEF FirstIsHeader, Renaming
  <2>4. CallFits
    BY <1>1 DEF CallFits, Renaming
  <2> QED BY <2>1, <2>2, <2>3, <2>4 DEF LimitsRight
<1>7. Counted(f, cfg.file)
  BY <1>2, ClosedIsCounted
<1> QED BY <1>6, <1>7 DEF SizeInv, LimitInv

LEMMA SizeHolds == RotatingIInv /\ SizeInv => SizeStaysRight
<1> SUFFICES ASSUME RotatingIInv, SizeInv, pc = "ready", f.file = "open", \A r \in Range(Current) : r.whole
             PROVE  /\ f.size \in {Bytes(Current), Bytes(Current) - cfg.file.header}
                    /\ Enabled /\ cfg.maxSize # 0 /\ spent.faults = 0 /\ spent.deletes = 0 /\ ~Refused
                       => \/ Bytes(Current) <= cfg.maxSize + cfg.file.growth + cfg.file.header
                          \/ Single(Current)
  BY DEF SizeStaysRight
<1>1. Current = Content(f)
  BY DEF Current, Content
<1>2. PICK s \in Seq(Record) : s = Current
  BY <1>1, CountFacts, ContentTyped
<1>3. \A i \in 1..Len(s) : s[i].whole
  <2>1. \A i \in 1..Len(s) : s[i] \in Range(s)
    BY DEF Range
  <2> QED BY <1>2, <2>1
<1>4. f.size = Bytes(s) \/ f.size = Bytes(s) - cfg.file.header
  BY <1>1, <1>2, <1>3 DEF SizeInv, Counted
<1>5. ASSUME cfg.maxSize # 0, spent.faults = 0, spent.deletes = 0, ~Refused
      PROVE  Small(s, Limit)
  <2>1. InLimit(s, Limit)
    BY <1>1, <1>2, <1>5 DEF SizeInv, LimitInv, LimitsRight, LimitKept, NoFault, FilesInLimit, Renaming
  <2>2. PICK r : r \in Record
    <3>1. Header(cfg.file) \in Record
      BY LimitNumbers DEF Header, Record
    <3> QED BY <3>1
  <2> QED BY <2>1, <2>2, LimitNumbers, LimitFacts
<1> QED BY <1>2, <1>4, <1>5 DEF Small, Limit

\* While no statement is torn, _file_size is what is in the file and the buffer,
\* or all but the notifier's header; and while nothing fails (_size_rotation,
\* _rotate_files), a file exceeds the limit by one statement alone, by what
\* before_write added or by the header: for every configuration, through
\* rotations, restarts on the files of earlier sinks and kills at any step.
THEOREM AlwaysSizedRight == RotatingSpec => []SizeStaysRight
<1>1. RotatingInit => SizeInv
  BY SizeStarts
<1>2. RotatingIInv /\ SizeInv /\ [RotatingNext]_rotatingVars => SizeInv'
  BY SizeSteps
<1>3. RotatingIInv /\ SizeInv => SizeStaysRight
  BY SizeHolds
<1> QED BY <1>1, <1>2, <1>3, RotatingInvariance, PTL DEF RotatingSpec
=============================================================================
