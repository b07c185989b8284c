------------------------- MODULE BackendWorkerProofs -------------------------
(***************************************************************************)
(* What the backend promises about the events of the threads, for any      *)
(* number of threads, capacities, limits and options.                      *)
(***************************************************************************)
EXTENDS BackendWorker, FiniteSetTheorems, SequenceTheorems, NaturalsInduction, WellFoundedInduction, TLAPS

Waiting(t) == Range(buffer[t]) \cup Range(queue[t])
Buffered == UNION {Range(buffer[t]) : t \in Threads}

\* The events of t that are no longer waiting.
Out(t) == sent[t] - Len(buffer[t]) - Len(queue[t])

-----------------------------------------------------------------------------
(***************************************************************************)
(* The parts of the invariant.                                             *)
(***************************************************************************)

\* Where the backend and the thread that stops it are.
ModesRight ==
  /\ running <=> spc = "idle"
  /\ exiting => ~running
  /\ bpc \in {"exit", "exitcheck", "done"} => exiting
  /\ bpc \in {"poll", "one", "idle", "idlecheck", "sleep"} => ~exiting
  /\ spc = "stopped" => bpc = "done"
  /\ bpc # "read" => pos = 1

\* A context is registered while events wait in it, and the backend knows it
\* when they wait in its transit buffer, or will be told.  It processes only
\* what there is.
ContextsCached ==
  /\ \A t \in Threads : queue[t] # <<>> \/ buffer[t] # <<>> => t \in Range(contexts)
  /\ spc # "stopped" => /\ Range(contexts) \subseteq Range(cache) \/ newFlag
                        /\ \A t \in Threads : buffer[t] # <<>> => t \in Range(cache)
  /\ bpc \in {"one", "process"} => \E t \in Range(cache) : buffer[t] # <<>>

\* The numbers of the events of a thread: those that wait are the last.
Numbered ==
  \A t \in Threads :
    /\ Out(t) \in Nat
    /\ \A i \in 1..Len(buffer[t]) : buffer[t][i].thread = t /\ buffer[t][i].seq = Out(t) + i
    /\ \A i \in 1..Len(queue[t]) : /\ queue[t][i].thread = t
                                   /\ queue[t][i].seq = Out(t) + Len(buffer[t]) + i

\* ... and the others were processed in their order.
ProcessedInOrder ==
  \A t \in Threads :
    /\ \A i \in 1..Len(processed) : processed[i].thread = t => processed[i].seq \in 1..Out(t)
    /\ \A n \in 1..Out(t) : \E i \in 1..Len(processed) : processed[i].thread = t /\ processed[i].seq = n
    /\ \A i, j \in 1..Len(processed) :
         processed[i].thread = t /\ processed[j].thread = t /\ i < j => processed[i].seq < processed[j].seq

\* A thread's event is its own, and no earlier than those it published.
EventsStamped ==
  \A t \in Threads : tpc[t] \in {"stamped", "blocked"} =>
    /\ event[t].thread = t /\ event[t].kind # "none" /\ event[t].ts <= clock
    /\ \A e \in Waiting(t) : e.ts <= event[t].ts

\* The timestamps of a thread's events increase with their numbers.
Timestamps ==
  /\ \A t \in Threads : \A e \in Waiting(t) :
       /\ e.ts <= e.at /\ e.at <= clock
       /\ \A d \in Waiting(t) : d.seq < e.seq => d.ts <= e.ts
  /\ \A e \in Range(processed) : e.at <= clock

StructureInv ==
  /\ TypeOK /\ ModesRight /\ ContextsCached /\ Numbered /\ ProcessedInOrder
  /\ EventsStamped /\ Timestamps

\* What was published when stop was called is drained before the backend ends.
Drains ==
  /\ stopMark \subseteq Published
  /\ options.waitForEmpty =>
       /\ bpc = "exitcheck" => \A t \in Threads \ Range(cache) : Waiting(t) \cap stopMark = {}
       /\ exiting /\ bpc \in {"cleanup", "done"} => stopMark \subseteq Flushed

\* e comes behind x in time, or was published when x was old enough to be read.
NotOvertaken(e, x) == e.ts >= x.ts \/ e.at >= x.ts + Grace

\* Of the events of t that are not buffered, none should come before a buffered one.
Seen(t) ==
  buffer[t] # <<>> \/ \A e \in Range(queue[t]), x \in Buffered : NotOvertaken(e, x)

\* ... nor before one that this pass may still read.
SeenNow(t) ==
  buffer[t] # <<>> \/ \A e \in Range(queue[t]) : e.ts >= tsNow \/ e.at >= tsNow + Grace

\* What is or was buffered is older than the grace period.
OldEnough == \A x \in Buffered \cup Range(processed) : x.ts + Grace <= clock \/ x.ts = 0

\* What the backend has looked at when it takes the lowest timestamp.
CutoffRight ==
  /\ tsNow + Grace <= clock \/ tsNow = 0
  /\ OldEnough
  /\ bpc = "read" => /\ \A x \in Buffered : x.ts <= tsNow
                     /\ \A i \in 1..(pos - 1) : SeenNow(cache[i])
                     /\ pos <= Len(cache) /\ read > 0 => buffer[cache[pos]] # <<>>
  /\ bpc = "pending" => \A t \in Threads \ Range(cache) : Seen(t)
  /\ bpc = "process" => \A t \in Threads : Seen(t)

\* No thread registers behind the back of a poll that takes a single event:
\* all contexts are there beforehand, or every poll ends in a batch.
ContextsKnown == options.preallocated = Threads \/ options.softLimit = 1

AllContextsCached ==
  options.preallocated = Threads =>
    /\ \A t \in Threads : tpc[t] # "exited" => t \in Range(contexts)
    /\ bpc \in {"cutoff", "read"} /\ ~exiting => Range(contexts) \subseteq Range(cache)

\* What is processed was not overtaken and will not be.
Ordered ==
  /\ bpc = "one" => \A t \in Threads : Seen(t)
  /\ \A t \in Threads : \A e \in Waiting(t), x \in Range(processed) : NotOvertaken(e, x)
  /\ \A j \in 1..Len(processed) : \A i \in 1..(j - 1) : NotOvertaken(processed[j], processed[i])

\* The events that a flush with the timestamp ts of thread t has to cover.
Covers(t, ts) == \A e \in mark[t] : e \in Published /\ e.ts < ts /\ e.at <= ts

\* A flush_log in progress.
FlushesRight ==
  \A t \in Threads :
    /\ tpc[t] \in {"stamped", "blocked"} /\ event[t].kind = "flush" => Covers(t, event[t].ts)
    /\ \A e \in Waiting(t) : e.kind = "flush" =>
         /\ Covers(t, e.ts) /\ tpc[t] = "waiting" /\ ~flushFlag[t]
         /\ \A d \in Waiting(t) : d.kind = "flush" => d = e
    /\ flushFlag[t] => tpc[t] = "waiting" /\ mark[t] \subseteq Flushed

IInv ==
  /\ StructureInv /\ Drains /\ AllContextsCached
  /\ Grace > 0 => CutoffRight
  /\ Grace > 0 /\ ContextsKnown => Ordered /\ FlushesRight
-----------------------------------------------------------------------------
(***************************************************************************)
(* Sequences and what they hold.                                           *)
(***************************************************************************)

\* What is in the range of a sequence.
LEMMA InRange ==
  ASSUME NEW S, NEW s \in Seq(S)
  PROVE  /\ Len(s) \in Nat /\ Range(s) = {s[i] : i \in 1..Len(s)} /\ Range(s) \subseteq S
         /\ s = <<>> <=> Len(s) = 0
         /\ s = <<>> <=> Range(s) = {}
         /\ \A e : e \in Range(s) <=> \E i \in 1..Len(s) : s[i] = e
<1>1. Len(s) \in Nat /\ DOMAIN s = 1..Len(s) /\ (\A i \in 1..Len(s) : s[i] \in S) /\ (s = <<>> <=> Len(s) = 0)
  OBVIOUS
<1>2. Range(s) = {s[i] : i \in 1..Len(s)}
  BY <1>1 DEF Range
<1>3. s # <<>> => s[1] \in Range(s)
  <2>1. s # <<>> => 1 \in 1..Len(s)
    BY <1>1
  <2> QED BY <1>2, <2>1
<1>4. s = <<>> => Range(s) = {}
  <2>1. s = <<>> => 1..Len(s) = {}
    BY <1>1
  <2> QED BY <1>2, <2>1
<1> QED
  BY <1>1, <1>2, <1>3, <1>4

\* A sequence with one element more at its end.
LEMMA AppendedEvents ==
  ASSUME NEW S, NEW s \in Seq(S), NEW x \in S
  PROVE  /\ Append(s, x) \in Seq(S) /\ Len(Append(s, x)) = Len(s) + 1 /\ Append(s, x) # <<>>
         /\ Range(Append(s, x)) = Range(s) \cup {x}
         /\ \A i \in 1..Len(s) : Append(s, x)[i] = s[i]
         /\ Append(s, x)[Len(s) + 1] = x
<1>1. /\ Append(s, x) \in Seq(S) /\ Len(Append(s, x)) = Len(s) + 1 /\ Len(s) \in Nat
      /\ \A i \in 1..Len(s) : Append(s, x)[i] = s[i]
      /\ Append(s, x)[Len(s) + 1] = x
  BY AppendProperties
<1>2. Append(s, x) # <<>>
  <2>1. Len(<<>>) = 0
    OBVIOUS
  <2> QED BY <1>1, <2>1
<1>3. Range(s) = {s[i] : i \in 1..Len(s)}
  BY InRange
<1>4. Range(Append(s, x)) = {Append(s, x)[i] : i \in 1..Len(s) + 1}
  BY <1>1, InRange
<1>5. 1..Len(s) + 1 = 1..Len(s) \cup {Len(s) + 1}
  BY <1>1
<1>6. {Append(s, x)[i] : i \in 1..Len(s) + 1} = {Append(s, x)[i] : i \in 1..Len(s)} \cup {Append(s, x)[Len(s) + 1]}
  BY <1>5
<1>7. {Append(s, x)[i] : i \in 1..Len(s)} = {s[i] : i \in 1..Len(s)}
  BY <1>1
<1>8. Range(Append(s, x)) = Range(s) \cup {x}
  BY <1>1, <1>3, <1>4, <1>6, <1>7
<1> QED
  BY <1>1, <1>2, <1>8

\* A sequence without its first element.
LEMMA RemainingEvents ==
  ASSUME NEW S, NEW s \in Seq(S), s # <<>>
  PROVE  /\ Tail(s) \in Seq(S) /\ Len(Tail(s)) = Len(s) - 1 /\ Len(s) > 0
         /\ Head(s) = s[1] /\ Head(s) \in S /\ Head(s) \in Range(s)
         /\ Range(s) = Range(Tail(s)) \cup {Head(s)}
         /\ \A i \in 1..Len(Tail(s)) : Tail(s)[i] = s[i + 1]
<1>1. /\ Tail(s) \in Seq(S) /\ Len(Tail(s)) = Len(s) - 1 /\ Len(s) \in Nat /\ Len(s) > 0
      /\ Head(s) = s[1] /\ Head(s) \in S
      /\ \A i \in 1..Len(Tail(s)) : Tail(s)[i] = s[i + 1]
  BY HeadTailProperties
<1>2. \A e : e \in Range(s) <=> \E i \in 1..Len(s) : s[i] = e
  BY InRange
<1>3. \A e : e \in Range(Tail(s)) <=> \E i \in 1..Len(s) - 1 : s[i + 1] = e
  <2>1. \A e : e \in Range(Tail(s)) <=> \E i \in 1..Len(Tail(s)) : Tail(s)[i] = e
    BY <1>1, InRange
  <2> QED BY <1>1, <2>1
<1>4. 1 \in 1..Len(s) /\ \A i \in 1..Len(s) - 1 : i + 1 \in 1..Len(s)
  BY <1>1
<1>5. \A i \in 1..Len(s) : i = 1 \/ (i - 1 \in 1..Len(s) - 1 /\ i = (i - 1) + 1)
  BY <1>1
<1>6. Head(s) \in Range(s)
  BY <1>1, <1>2, <1>4
<1>7. ASSUME NEW e \in Range(s) PROVE e \in Range(Tail(s)) \cup {Head(s)}
  BY <1>1, <1>2, <1>3, <1>5
<1>8. Range(Tail(s)) \subseteq Range(s)
  BY <1>2, <1>3, <1>4
<1> QED
  BY <1>1, <1>6, <1>7, <1>8

\* A nonempty set of natural numbers has a least element.
LEMMA LeastNumber ==
  ASSUME NEW S, S \subseteq Nat, S # {}
  PROVE  \E x \in S : \A y \in S : x <= y
<1> DEFINE R == OpToRel(<, Nat)
<1>1. IsWellFoundedOn(R, Nat)
  BY NatLessThanWellFounded
<1>2. \A x, y \in Nat : x < y => <<x, y>> \in R
  BY DEF OpToRel
<1> HIDE DEF R
<1>3. PICK x \in S : \A y \in S : <<y, x>> \notin R
  BY <1>1, WFMin
<1>4. ASSUME NEW y \in S PROVE x <= y
  <2>1. ~(y < x)
    BY <1>2, <1>3
  <2> QED BY <2>1
<1> QED BY <1>4

\* What is left of a sequence without some of its elements.
LEMMA WithoutRight ==
  ASSUME NEW S, NEW s \in Seq(S), NEW gone
  PROVE  Without(s, gone) \in Seq(S) /\ Range(Without(s, gone)) = Range(s) \ gone
<1> DEFINE kept == {i \in DOMAIN s : s[i] \notin gone}
           upto(i) == {j \in kept : j <= i}
           N == Cardinality(kept)
           place == [i \in kept |-> Cardinality(upto(i))]
           w == [n \in 1..N |-> s[CHOOSE i \in kept : Cardinality(upto(i)) = n]]
<1>1. Without(s, gone) = w
  BY DEF Without
<1>2. DOMAIN s = 1..Len(s) /\ Len(s) \in Nat
  OBVIOUS
<1>3. IsFiniteSet(kept) /\ kept \subseteq 1..Len(s)
  <2>1. IsFiniteSet(1..Len(s)) /\ kept \in SUBSET (1..Len(s))
    BY <1>2, FS_Interval
  <2> QED BY <2>1, FS_Subset
<1>4. N \in Nat
  BY <1>3, FS_CardinalityType
<1>5. \A i \in kept : IsFiniteSet(upto(i)) /\ Cardinality(upto(i)) \in Nat /\ Cardinality(upto(i)) <= N
  <2> TAKE i \in kept
  <2>1. upto(i) \subseteq kept
    OBVIOUS
  <2> HIDE DEF kept, upto
  <2> QED BY <2>1, <1>3, FS_Subset, FS_CardinalityType
<1>6. \A i \in kept : Cardinality(upto(i)) # 0
  <2> TAKE i \in kept
  <2>1. i \in upto(i)
    BY <1>3
  <2> HIDE DEF kept, upto
  <2> QED BY <2>1, <1>5, FS_EmptySet
<1>7. \A i, j \in kept : i < j => Cardinality(upto(i)) # Cardinality(upto(j))
  <2> TAKE i, j \in kept
  <2> HAVE i < j
  <2>1. upto(i) \subseteq upto(j) /\ j \in upto(j) /\ j \notin upto(i)
    BY <1>3
  <2> HIDE DEF kept, upto
  <2>2. upto(i) # upto(j) /\ IsFiniteSet(upto(j)) /\ upto(i) \in SUBSET upto(j)
    BY <2>1, <1>5
  <2> QED BY <2>2, FS_Subset
<1>8. \A i, j \in kept : i # j => Cardinality(upto(i)) # Cardinality(upto(j))
  <2> TAKE i, j \in kept
  <2> HAVE i # j
  <2>1. i \in Nat /\ j \in Nat
    BY <1>3, <1>2
  <2> HIDE DEF kept, upto
  <2>2. i < j \/ j < i
    BY <2>1
  <2> QED BY <2>2, <1>7
<1> HIDE DEF kept, upto, N
<1>9. place \in [kept -> 1..N]
  BY <1>4, <1>5, <1>6
<1>10. place \in Injection(kept, 1..N)
  <2>1. \A i, j \in kept : place[i] = place[j] => i = j
    BY <1>8
  <2> HIDE DEF place
  <2> QED BY <1>9, <2>1 DEF Injection, IsInjective
<1>11. IsFiniteSet(1..N) /\ Cardinality(1..N) = N
  BY <1>4, FS_Interval
<1>12. place \in Surjection(kept, 1..N)
  BY <1>10, <1>11, FS_Injection DEF N
<1>13. \A n \in 1..N : \E i \in kept : Cardinality(upto(i)) = n
  BY <1>12 DEF Surjection
<1>14. \A n \in 1..N : \E i \in kept : w[n] = s[i]
  BY <1>13
<1>15. \A i \in kept : Cardinality(upto(i)) \in 1..N /\ w[Cardinality(upto(i))] = s[i]
  <2> TAKE i \in kept
  <2> DEFINE n == Cardinality(upto(i))
  <2>1. n \in 1..N
    BY <1>9
  <2>2. \A j \in kept : Cardinality(upto(j)) = n => j = i
    BY <1>8
  <2>3. (CHOOSE j \in kept : Cardinality(upto(j)) = n) = i
    BY <2>2
  <2> QED BY <2>1, <2>3
<1> HIDE DEF w
<1>16. \A i \in kept : s[i] \in S /\ s[i] \in Range(s) \ gone
  <2>1. \A i \in kept : i \in 1..Len(s) /\ s[i] \notin gone
    BY <1>2 DEF kept
  <2> QED BY <2>1, InRange
<1>17. \A e \in Range(s) \ gone : \E i \in kept : s[i] = e
  <2>1. \A e \in Range(s) : \E i \in 1..Len(s) : s[i] = e
    BY InRange
  <2> QED BY <2>1, <1>2 DEF kept
<1>18. w \in Seq(S) /\ Len(w) = N
  <2>1. w = [n \in 1..N |-> w[n]]
    BY DEF w
  <2>2. \A n \in 1..N : w[n] \in S
    BY <1>14, <1>16
  <2>3. w \in [1..N -> S]
    BY <2>1, <2>2
  <2> QED BY <2>3, <1>4
<1>19. \A e : e \in Range(w) <=> \E n \in 1..N : w[n] = e
  BY <1>18, InRange
<1>20. Range(w) = Range(s) \ gone
  <2>1. ASSUME NEW e \in Range(w) PROVE e \in Range(s) \ gone
    BY <1>19, <1>14, <1>16
  <2>2. ASSUME NEW e \in Range(s) \ gone PROVE e \in Range(w)
    BY <1>19, <1>15, <1>17
  <2> QED BY <2>1, <2>2
<1> QED BY <1>1, <1>18, <1>20

\* The contexts registered beforehand, in some order.
LEMMA SetToSeqRight ==
  ASSUME NEW S, IsFiniteSet(S)
  PROVE  SetToSeq(S) \in Seq(S) /\ Range(SetToSeq(S)) = S
<1> DEFINE n == Cardinality(S)
<1>1. n \in Nat /\ \E f : f \in Bijection(1..n, S)
  BY FS_CardinalityType DEF ExistsBijection
<1>2. \E f \in [1..n -> S] : IsInjective(f)
  BY <1>1 DEF Bijection, Injection, IsInjective
<1>3. SetToSeq(S) \in [1..n -> S] /\ IsInjective(SetToSeq(S))
  BY <1>2 DEF SetToSeq
<1> DEFINE f == SetToSeq(S)
<1> HIDE DEF f, n
<1>4. f \in Injection(1..n, S)
  BY <1>3 DEF Injection, IsInjective, f
<1>5. IsFiniteSet(1..n) /\ Cardinality(1..n) = n
  BY <1>1, FS_Interval
<1>6. f \in Surjection(1..n, S)
  BY <1>4, <1>5, FS_Injection DEF n
<1>7. f \in Seq(S) /\ DOMAIN f = 1..n
  BY <1>1, <1>3 DEF f
<1>8. Range(f) = S
  BY <1>6, <1>7 DEF Surjection, Range
<1> QED BY <1>7, <1>8 DEF f

-----------------------------------------------------------------------------
(***************************************************************************)
(* What the steps do to the events.                                        *)
(***************************************************************************)

\* The options are numbers, flags and sets of threads.
LEMMA OptionsTyped ==
  ASSUME TypeOK
  PROVE  /\ Grace \in Nat /\ MaxTime \in Nat /\ HardLimit \in Nat \ {0} /\ QueueCapacity \in Nat \ {0}
         /\ options.maxStops \in Nat /\ options.softLimit \in Nat \ {0}
         /\ options.waitForEmpty \in BOOLEAN /\ options.dropping \in BOOLEAN
         /\ options.preallocated \in SUBSET Threads
<1>1. options \in Config /\ QueueCapacity \in Nat \ {0}
  BY ConstantsAssumption DEF TypeOK
<1> QED BY <1>1 DEF Config, Grace, MaxTime, HardLimit

\* The fields of an event.
LEMMA EventTyped ==
  ASSUME NEW e \in Event
  PROVE  e.thread \in Threads /\ e.seq \in Nat /\ e.ts \in Nat /\ e.at \in Nat
BY DEF Event

\* What is published are events.
LEMMA PublishedTyped == TypeOK => Published \subseteq Event
<1> SUFFICES ASSUME TypeOK PROVE Published \subseteq Event
  OBVIOUS
<1>1. \A t \in Threads : queue[t] \in Seq(Event) /\ buffer[t] \in Seq(Event)
  BY DEF TypeOK
<1>2. \A t \in Threads : Range(queue[t]) \subseteq Event /\ Range(buffer[t]) \subseteq Event
  BY <1>1, InRange
<1>3. Range(processed) \subseteq Event
  BY InRange DEF TypeOK
<1> QED BY <1>2, <1>3 DEF Published

\* An event that is published gets the thread's next number and the time.
LEMMA PublishEffect ==
  ASSUME TypeOK, NEW t \in Threads, Publish(t)
  PROVE  \E e \in Event :
           /\ e.kind = event[t].kind /\ e.thread = event[t].thread /\ e.ts = event[t].ts
           /\ e.seq = sent[t] + 1 /\ e.at = clock
           /\ queue' = [queue EXCEPT ![t] = Append(queue[t], e)]
           /\ queue' \in [Threads -> Seq(Event)] /\ queue'[t] # <<>>
           /\ Len(queue'[t]) = Len(queue[t]) + 1 /\ queue'[t][Len(queue[t]) + 1] = e
           /\ \A i \in 1..Len(queue[t]) : queue'[t][i] = queue[t][i]
           /\ Range(queue'[t]) = Range(queue[t]) \cup {e}
           /\ \A u \in Threads \ {t} : queue'[u] = queue[u] /\ Waiting(u)' = Waiting(u)
           /\ Waiting(t)' = Waiting(t) \cup {e}
           /\ Published' = Published \cup {e}
<1>1. /\ event[t] \in Event /\ sent[t] \in Nat
      /\ queue \in [Threads -> Seq(Event)] /\ queue[t] \in Seq(Event)
  BY DEF TypeOK
<1>a. clock \in Nat
  BY OptionsTyped DEF TypeOK
<1>b. PICK x \in Event, n \in Nat, c \in Nat : x = event[t] /\ n = sent[t] + 1 /\ c = clock
  BY <1>1, <1>a
<1> DEFINE e == [x EXCEPT !.seq = n, !.at = c]
<1>2. /\ e \in Event /\ e.kind = event[t].kind /\ e.thread = event[t].thread /\ e.ts = event[t].ts
      /\ e.seq = sent[t] + 1 /\ e.at = clock
  <2>1. [x EXCEPT !.seq = n] \in Event
    BY DEF Event
  <2>2. e \in Event
    BY <2>1 DEF Event
  <2>3. e.seq = n /\ e.at = c
    BY DEF Event
  <2>4. e.kind = x.kind /\ e.thread = x.thread /\ e.ts = x.ts
    BY DEF Event
  <2> HIDE DEF e
  <2> QED BY <2>2, <2>3, <2>4, <1>b
<1>3. queue' = [queue EXCEPT ![t] = Append(queue[t], e)]
  BY <1>b DEF Publish
<1> HIDE DEF e
<1>4. /\ queue'[t] = Append(queue[t], e) /\ queue' \in [Threads -> Seq(Event)]
      /\ \A u \in Threads \ {t} : queue'[u] = queue[u]
  BY <1>1, <1>2, <1>3, AppendedEvents
<1>5. /\ queue'[t] # <<>> /\ Len(queue'[t]) = Len(queue[t]) + 1 /\ queue'[t][Len(queue[t]) + 1] = e
      /\ \A i \in 1..Len(queue[t]) : queue'[t][i] = queue[t][i]
      /\ Range(queue'[t]) = Range(queue[t]) \cup {e}
  BY <1>1, <1>2, <1>4, AppendedEvents
<1>6. buffer' = buffer /\ processed' = processed
  BY DEF Publish, bvars
<1>7. /\ Waiting(t)' = Waiting(t) \cup {e}
      /\ \A u \in Threads \ {t} : Waiting(u)' = Waiting(u)
  BY <1>4, <1>5, <1>6 DEF Waiting
<1>8. Published' = Published \cup {e}
  <2>1. Published = Range(processed) \cup UNION {Waiting(u) : u \in Threads}
    BY DEF Published, Waiting
  <2>2. Published' = Range(processed) \cup UNION {Waiting(u)' : u \in Threads}
    BY <1>6 DEF Published, Waiting
  <2> QED BY <2>1, <2>2, <1>7
<1> WITNESS e \in Event
<1> QED BY <1>2, <1>3, <1>4, <1>5, <1>7, <1>8

\* An event that is read goes from the queue to the end of the buffer.
LEMMA ReadEffect ==
  ASSUME TypeOK, ReadEvent
  PROVE  \E t \in Threads, e \in Event :
           /\ pos \in 1..Len(cache) /\ t = cache[pos] /\ t \in Range(cache)
           /\ queue[t] # <<>> /\ e = queue[t][1] /\ e \in Range(queue[t]) /\ e.ts <= tsNow
           /\ read < QueueCapacity /\ Len(buffer[t]) < HardLimit
           /\ queue' = [queue EXCEPT ![t] = Tail(queue[t])]
           /\ buffer' = [buffer EXCEPT ![t] = Append(buffer[t], e)]
           /\ queue' \in [Threads -> Seq(Event)] /\ buffer' \in [Threads -> Seq(Event)]
           /\ Len(queue'[t]) = Len(queue[t]) - 1 /\ Len(queue[t]) > 0
           /\ \A i \in 1..Len(queue'[t]) : queue'[t][i] = queue[t][i + 1]
           /\ Len(buffer'[t]) = Len(buffer[t]) + 1 /\ buffer'[t][Len(buffer[t]) + 1] = e
           /\ buffer'[t] # <<>>
           /\ \A i \in 1..Len(buffer[t]) : buffer'[t][i] = buffer[t][i]
           /\ Range(queue[t]) = Range(queue'[t]) \cup {e}
           /\ Range(buffer'[t]) = Range(buffer[t]) \cup {e}
           /\ \A u \in Threads \ {t} : queue'[u] = queue[u] /\ buffer'[u] = buffer[u]
           /\ \A u \in Threads : Waiting(u)' = Waiting(u)
           /\ Published' = Published
<1> DEFINE t == cache[pos]
           e == Head(queue[t])
<1>1. /\ pos \in 1..Len(cache) /\ cache \in Seq(Threads) /\ t \in Threads
      /\ queue \in [Threads -> Seq(Event)] /\ queue[t] \in Seq(Event)
      /\ buffer \in [Threads -> Seq(Event)] /\ buffer[t] \in Seq(Event)
  <2>1. /\ pos <= Len(cache) /\ pos \in 1..(Len(cache) + 1) /\ cache \in Seq(Threads)
        /\ queue \in [Threads -> Seq(Event)] /\ buffer \in [Threads -> Seq(Event)]
    BY DEF ReadEvent, TypeOK
  <2>2. pos \in 1..Len(cache)
    BY <2>1
  <2>3. t \in Threads
    BY <2>1, <2>2
  <2> QED BY <2>1, <2>2, <2>3
<1>2. t \in Range(cache)
  BY <1>1, InRange
<1>3. /\ queue[t] # <<>> /\ e.ts <= tsNow /\ read < QueueCapacity /\ Len(buffer[t]) < HardLimit
      /\ queue' = [queue EXCEPT ![t] = Tail(queue[t])]
      /\ buffer' = [buffer EXCEPT ![t] = Append(buffer[t], e)]
      /\ processed' = processed
  BY DEF ReadEvent, Readable
<1> HIDE DEF t
<1>4. /\ e = queue[t][1] /\ e \in Event /\ e \in Range(queue[t])
      /\ Tail(queue[t]) \in Seq(Event) /\ Len(Tail(queue[t])) = Len(queue[t]) - 1 /\ Len(queue[t]) > 0
      /\ Range(queue[t]) = Range(Tail(queue[t])) \cup {e}
      /\ \A i \in 1..Len(Tail(queue[t])) : Tail(queue[t])[i] = queue[t][i + 1]
  BY <1>1, <1>3, RemainingEvents
<1> HIDE DEF e
<1>5. /\ queue'[t] = Tail(queue[t]) /\ queue' \in [Threads -> Seq(Event)]
      /\ \A u \in Threads \ {t} : queue'[u] = queue[u]
  BY <1>1, <1>3, <1>4
<1>6. /\ Append(buffer[t], e) \in Seq(Event) /\ Append(buffer[t], e) # <<>>
      /\ Len(Append(buffer[t], e)) = Len(buffer[t]) + 1 /\ Append(buffer[t], e)[Len(buffer[t]) + 1] = e
      /\ \A i \in 1..Len(buffer[t]) : Append(buffer[t], e)[i] = buffer[t][i]
      /\ Range(Append(buffer[t], e)) = Range(buffer[t]) \cup {e}
  <2>1. buffer[t] \in Seq(Event) /\ e \in Event
    BY <1>1, <1>4
  <2> QED BY <2>1, AppendedEvents
<1>7. /\ buffer'[t] = Append(buffer[t], e) /\ buffer' \in [Threads -> Seq(Event)]
      /\ \A u \in Threads \ {t} : buffer'[u] = buffer[u]
  BY <1>1, <1>3, <1>6
<1>8. \A u \in Threads : Waiting(u)' = Waiting(u)
  BY <1>4, <1>5, <1>6, <1>7 DEF Waiting
<1>9. Published' = Published
  <2>1. Published = Range(processed) \cup UNION {Waiting(u) : u \in Threads}
    BY DEF Published, Waiting
  <2>2. Published' = Range(processed) \cup UNION {Waiting(u)' : u \in Threads}
    BY <1>3 DEF Published, Waiting
  <2> QED BY <2>1, <2>2, <1>8
<1>10. t = cache[pos]
  BY DEF t
<1> QED BY <1>1, <1>2, <1>3, <1>4, <1>5, <1>6, <1>7, <1>8, <1>9, <1>10 DEF e

\* There is a first buffer with the lowest timestamp.
LEMMA LowestExists ==
  ASSUME TypeOK, NEW u \in Range(cache), buffer[u] # <<>>
  PROVE  /\ LowestTimestamp \in Range(cache) /\ LowestTimestamp \in Threads
         /\ buffer[LowestTimestamp] # <<>>
         /\ \A v \in Range(cache) : buffer[v] # <<>> => Head(buffer[LowestTimestamp]).ts <= Head(buffer[v]).ts
<1> DEFINE full == {i \in 1..Len(cache) : buffer[cache[i]] # <<>>}
           ts(i) == Head(buffer[cache[i]]).ts
           Best(i) == \A j \in full : ts(i) < ts(j) \/ (ts(i) = ts(j) /\ i <= j)
<1>1. cache \in Seq(Threads) /\ Len(cache) \in Nat /\ \A i \in 1..Len(cache) : cache[i] \in Threads
  BY DEF TypeOK
<1>2. /\ \A v \in Range(cache) : \E i \in 1..Len(cache) : cache[i] = v
      /\ \A i \in 1..Len(cache) : cache[i] \in Range(cache)
  BY <1>1, InRange
<1>3. full # {} /\ full \subseteq Nat
  BY <1>2
<1>4. \A i \in full : ts(i) \in Nat
  <2> TAKE i \in full
  <2>1. buffer[cache[i]] \in Seq(Event) /\ buffer[cache[i]] # <<>>
    BY <1>1 DEF TypeOK
  <2>2. Head(buffer[cache[i]]) \in Event
    BY <2>1, RemainingEvents
  <2> QED BY <2>2, EventTyped
<1> HIDE DEF full, ts
<1>5. \E i \in full : Best(i)
  <2> DEFINE T == {ts(i) : i \in full}
  <2>1. T \subseteq Nat /\ T # {}
    BY <1>3, <1>4
  <2>2. PICK m \in T : \A y \in T : m <= y
    <3> HIDE DEF T
    <3> QED BY <2>1, LeastNumber
  <2> DEFINE M == {i \in full : ts(i) = m}
  <2>3. M \subseteq Nat /\ M # {}
    BY <1>3
  <2>4. PICK i \in M : \A j \in M : i <= j
    <3> HIDE DEF M
    <3> QED BY <2>3, LeastNumber
  <2>5. \A j \in full : ts(i) < ts(j) \/ (ts(i) = ts(j) /\ i <= j)
    <3> TAKE j \in full
    <3>1. ts(j) \in T /\ m <= ts(j) /\ ts(i) = m
      BY <2>2, <2>4
    <3>2. CASE ts(j) = m
      BY <2>4, <3>1, <3>2
    <3>3. CASE ts(j) # m
      BY <1>4, <2>4, <3>1, <3>3
    <3> QED BY <3>2, <3>3
  <2> QED BY <2>4, <2>5
<1>6. LowestTimestamp = cache[CHOOSE i \in full : Best(i)]
  BY DEF LowestTimestamp, full, ts
<1>7. PICK i \in full : LowestTimestamp = cache[i] /\ Best(i)
  BY <1>5, <1>6
<1>8. \A j \in full : ts(i) <= ts(j)
  BY <1>4, <1>7
<1>9. LowestTimestamp \in Range(cache) /\ LowestTimestamp \in Threads /\ buffer[LowestTimestamp] # <<>>
  BY <1>1, <1>2, <1>7 DEF full
<1>10. \A v \in Range(cache) : buffer[v] # <<>> => \E j \in full : cache[j] = v
  BY <1>2 DEF full
<1>11. \A v \in Range(cache) : buffer[v] # <<>> => Head(buffer[LowestTimestamp]).ts <= Head(buffer[v]).ts
  BY <1>7, <1>8, <1>10 DEF ts
<1> QED BY <1>9, <1>11


\* The event that is processed is the first of the buffer with the lowest timestamp.
LEMMA ProcessEffect ==
  ASSUME TypeOK, ContextsCached, ProcessLowest
  PROVE  \E t \in Threads, e \in Event :
           /\ t = LowestTimestamp /\ t \in Range(cache)
           /\ buffer[t] # <<>> /\ e = Head(buffer[t]) /\ e = buffer[t][1] /\ e \in Range(buffer[t])
           /\ \A u \in Range(cache) : buffer[u] # <<>> => e.ts <= Head(buffer[u]).ts
           /\ buffer' = [buffer EXCEPT ![t] = Tail(buffer[t])]
           /\ buffer' \in [Threads -> Seq(Event)]
           /\ Len(buffer'[t]) = Len(buffer[t]) - 1 /\ Len(buffer[t]) > 0
           /\ \A i \in 1..Len(buffer'[t]) : buffer'[t][i] = buffer[t][i + 1]
           /\ Range(buffer[t]) = Range(buffer'[t]) \cup {e}
           /\ \A u \in Threads \ {t} : buffer'[u] = buffer[u] /\ Waiting(u)' = Waiting(u)
           /\ Waiting(t) = Waiting(t)' \cup {e}
           /\ processed' \in Seq(Event) /\ Len(processed') = Len(processed) + 1
           /\ Range(processed') = Range(processed) \cup {e}
           /\ \A i \in 1..Len(processed) : processed'[i] = processed[i]
           /\ processed'[Len(processed) + 1] = e
           /\ Published' = Published
           /\ IF e.kind = "flush"
              THEN /\ flushed' = Len(processed) /\ flushFlag' = [flushFlag EXCEPT ![t] = TRUE]
                   /\ CleanupContexts(buffer')
              ELSE UNCHANGED <<flushed, contexts, cache, flushFlag>>
<1>1. PICK t \in Threads :
        /\ t = LowestTimestamp /\ t \in Range(cache) /\ buffer[t] # <<>>
        /\ \A u \in Range(cache) : buffer[u] # <<>> => Head(buffer[t]).ts <= Head(buffer[u]).ts
  <2>1. PICK u \in Range(cache) : buffer[u] # <<>>
    BY DEF ProcessLowest, ContextsCached
  <2> QED BY <2>1, LowestExists
<1> DEFINE e == Head(buffer[t])
<1>2. /\ buffer' = [buffer EXCEPT ![t] = Tail(buffer[t])] /\ processed' = Append(processed, e)
      /\ queue' = queue
      /\ IF e.kind = "flush"
         THEN /\ flushed' = Len(processed) /\ flushFlag' = [flushFlag EXCEPT ![t] = TRUE]
              /\ CleanupContexts(buffer')
         ELSE UNCHANGED <<flushed, contexts, cache, flushFlag>>
  BY <1>1 DEF ProcessLowest, FlushedExplicitly, SinksFlushed
<1>3. buffer[t] \in Seq(Event) /\ buffer \in [Threads -> Seq(Event)] /\ processed \in Seq(Event)
  BY <1>1 DEF TypeOK
<1>4. /\ e = buffer[t][1] /\ e \in Event /\ e \in Range(buffer[t])
      /\ Tail(buffer[t]) \in Seq(Event) /\ Len(Tail(buffer[t])) = Len(buffer[t]) - 1 /\ Len(buffer[t]) > 0
      /\ Range(buffer[t]) = Range(Tail(buffer[t])) \cup {e}
      /\ \A i \in 1..Len(Tail(buffer[t])) : Tail(buffer[t])[i] = buffer[t][i + 1]
  BY <1>1, <1>3, RemainingEvents
<1>5. e = Head(buffer[t])
  OBVIOUS
<1> HIDE DEF e
<1>6. /\ buffer'[t] = Tail(buffer[t]) /\ buffer' \in [Threads -> Seq(Event)]
      /\ \A u \in Threads \ {t} : buffer'[u] = buffer[u]
  BY <1>1, <1>2, <1>3, <1>4
<1>7. /\ processed' \in Seq(Event) /\ Len(processed') = Len(processed) + 1
      /\ Range(processed') = Range(processed) \cup {e}
      /\ \A i \in 1..Len(processed) : processed'[i] = processed[i]
      /\ processed'[Len(processed) + 1] = e
  <2>1. processed \in Seq(Event) /\ e \in Event
    BY <1>3, <1>4
  <2> QED BY <2>1, <1>2, AppendedEvents
<1>8. Waiting(t) = Waiting(t)' \cup {e} /\ \A u \in Threads \ {t} : Waiting(u)' = Waiting(u)
  BY <1>2, <1>4, <1>6 DEF Waiting
<1>9. Published' = Published
  <2>1. \A x : x \in Published <=> x \in Range(processed) \/ \E u \in Threads : x \in Waiting(u)
    BY DEF Published, Waiting
  <2>2. \A x : x \in Published' <=> x \in Range(processed') \/ \E u \in Threads : x \in Waiting(u)'
    BY DEF Published, Waiting
  <2>3. e \in Waiting(t)
    BY <1>4 DEF Waiting
  <2>4. \A x, u : u \in Threads => (x \in Waiting(u) <=> x \in Waiting(u)' \/ (u = t /\ x = e))
    BY <1>8, <2>3
  <2>5. \A x : x \in Published <=> x \in Published'
    BY <2>1, <2>2, <2>3, <2>4, <1>1, <1>7
  <2> QED BY <2>5
<1>10. \A u \in Range(cache) : buffer[u] # <<>> => e.ts <= Head(buffer[u]).ts
  BY <1>1 DEF e
<1> WITNESS t \in Threads, e \in Event
<1> QED BY <1>1, <1>2, <1>4, <1>5, <1>6, <1>7, <1>8, <1>9, <1>10

\* A cleanup takes the drained contexts of exited threads out.
LEMMA CleanupEffect ==
  ASSUME TypeOK, NEW buf, CleanupContexts(buf)
  PROVE  LET gone == {t \in Range(cache) : InvalidAndEmpty(t, buf)}
         IN  /\ contexts' \in Seq(Threads) /\ cache' \in Seq(Threads)
             /\ Range(contexts') = Range(contexts) \ gone
             /\ Range(cache') = Range(cache) \ gone
<1>1. contexts \in Seq(Threads) /\ cache \in Seq(Threads)
  BY DEF TypeOK
<1> QED BY <1>1, WithoutRight DEF CleanupContexts

\* With something buffered to count, some cached buffer is not empty.
LEMMA SomethingCounted ==
  ASSUME TypeOK, CachedEvents # 0
  PROVE  \E t \in Range(cache) : buffer[t] # <<>>
<1> SUFFICES ASSUME \A t \in Range(cache) : buffer[t] = <<>> PROVE FALSE
  OBVIOUS
<1>1. \A t \in Range(cache) : Len(buffer[t]) = 0
  OBVIOUS
<1>2. {s \in Range(cache) \X (1..HardLimit) : s[2] <= Len(buffer[s[1]])} = {}
  BY <1>1, OptionsTyped
<1> QED BY <1>2, FS_EmptySet DEF CachedEvents

-----------------------------------------------------------------------------
(***************************************************************************)
(* Every step keeps the structure.                                         *)
(***************************************************************************)

\* The variables that are numbers, and the lengths of the sequences.
LEMMA Lengths ==
  ASSUME TypeOK
  PROVE  /\ \A t \in Threads : /\ queue[t] \in Seq(Event) /\ buffer[t] \in Seq(Event) /\ sent[t] \in Nat
                               /\ Len(queue[t]) \in Nat /\ Len(buffer[t]) \in Nat
                               /\ Len(queue[t]) <= QueueCapacity /\ Len(buffer[t]) <= HardLimit
         /\ Len(processed) \in Nat /\ flushed \in Nat /\ flushed <= Len(processed)
         /\ Len(cache) \in Nat /\ pos \in Nat \ {0} /\ pos <= Len(cache) + 1 /\ read \in Nat /\ read <= QueueCapacity
         /\ clock \in Nat /\ clock <= MaxTime /\ tsNow \in Nat /\ tsNow <= MaxTime
<1>1. \A t \in Threads : /\ queue[t] \in Seq(Event) /\ buffer[t] \in Seq(Event) /\ sent[t] \in Nat
                         /\ Len(queue[t]) <= QueueCapacity /\ Len(buffer[t]) <= HardLimit
  BY DEF TypeOK
<1>2. /\ processed \in Seq(Event) /\ flushed \in 0..Len(processed)
      /\ cache \in Seq(Threads) /\ pos \in 1..(Len(cache) + 1) /\ read \in 0..QueueCapacity
      /\ clock \in 0..MaxTime /\ tsNow \in 0..MaxTime
  BY DEF TypeOK
<1>3. Len(processed) \in Nat /\ flushed \in Nat /\ flushed <= Len(processed)
  BY <1>2
<1>4. Len(cache) \in Nat /\ pos \in Nat \ {0} /\ pos <= Len(cache) + 1
  BY <1>2
<1>5. read \in Nat /\ read <= QueueCapacity /\ clock \in Nat /\ clock <= MaxTime /\ tsNow \in Nat /\ tsNow <= MaxTime
  BY <1>2, OptionsTyped
<1> QED BY <1>1, <1>3, <1>4, <1>5

\* The event of a thread that publishes none.
LEMMA NoEventTyped == NoEvent \in Event /\ NoEvent.kind = "none"
<1>1. (CHOOSE t \in Threads : TRUE) \in Threads
  BY ConstantsAssumption
<1> QED BY <1>1 DEF NoEvent, Event

\* The event that a thread is about to publish.
LEMMA StampEffect ==
  ASSUME TypeOK, NEW t \in Threads, NEW kind \in {"log", "flush"}, Stamp(t, kind)
  PROVE  /\ event' \in [Threads -> Event]
         /\ event'[t].kind = kind /\ event'[t].thread = t /\ event'[t].ts = clock
         /\ \A u \in Threads \ {t} : event'[u] = event[u]
<1> DEFINE e == [NoEvent EXCEPT !.kind = kind, !.thread = t, !.ts = clock]
<1>1. clock \in Nat /\ event \in [Threads -> Event]
  BY OptionsTyped DEF TypeOK
<1>2. e \in Event
  <2>1. [NoEvent EXCEPT !.kind = kind] \in Event
    BY NoEventTyped DEF Event
  <2>2. [NoEvent EXCEPT !.kind = kind, !.thread = t] \in Event
    BY <2>1 DEF Event
  <2> QED BY <1>1, <2>2 DEF Event
<1>3. e.kind = kind /\ e.thread = t /\ e.ts = clock
  BY DEF NoEvent
<1>4. event' = [event EXCEPT ![t] = e]
  BY DEF Stamp
<1> HIDE DEF e
<1> QED BY <1>1, <1>2, <1>3, <1>4

\* What a full queue does to the event.
LEMMA QueueFullEffect ==
  ASSUME TypeOK, NEW t \in Threads, QueueFull(t)
  PROVE  /\ event' \in [Threads -> Event]
         /\ \A u \in Threads \ {t} : event'[u] = event[u]
         /\ \/ event' = event /\ tpc'[t] = "blocked"
            \/ /\ event[t].kind = "flush" /\ tpc'[t] = "stamped"
               /\ event'[t].kind = "flush" /\ event'[t].thread = event[t].thread /\ event'[t].ts = clock
            \/ event'[t].kind = "none" /\ tpc'[t] = "idle"
<1>1. /\ clock \in Nat /\ event \in [Threads -> Event] /\ event[t] \in Event /\ tpc[t] = "stamped"
      /\ tpc' = [tpc EXCEPT ![t] = IF ~options.dropping THEN "blocked"
                                   ELSE IF event[t].kind = "flush" THEN "stamped" ELSE "idle"]
      /\ tpc'[t] = IF ~options.dropping THEN "blocked"
                   ELSE IF event[t].kind = "flush" THEN "stamped" ELSE "idle"
  BY OptionsTyped DEF TypeOK, QueueFull
<1>2. CASE ~options.dropping
  <2>1. event' = event
    BY <1>1, <1>2 DEF QueueFull
  <2> QED BY <1>1, <1>2, <2>1
<1>3. CASE options.dropping /\ event[t].kind = "flush"
  <2>1. PICK x \in Event, c \in Nat : x = event[t] /\ c = clock
    BY <1>1
  <2> DEFINE e == [x EXCEPT !.ts = c]
  <2>2. e \in Event
    BY DEF Event
  <2>3. e.kind = x.kind /\ e.thread = x.thread /\ e.ts = c
    BY DEF Event
  <2>4. event' = [event EXCEPT ![t] = e]
    BY <1>3, <2>1 DEF QueueFull
  <2> HIDE DEF e
  <2> QED BY <1>1, <1>3, <2>1, <2>2, <2>3, <2>4
<1>4. CASE options.dropping /\ event[t].kind # "flush"
  <2>1. event' = [event EXCEPT ![t] = NoEvent]
    BY <1>4 DEF QueueFull
  <2> QED BY <1>1, <1>4, <2>1, NoEventTyped
<1> QED BY <1>2, <1>3, <1>4

\* Every step keeps the types.
LEMMA TypeNext == StructureInv /\ [Next]_vars => TypeOK'
<1> SUFFICES ASSUME StructureInv, [Next]_vars PROVE TypeOK'
  OBVIOUS
<1>0. TypeOK /\ ModesRight
  BY DEF StructureInv
<1> USE <1>0
<1>1. ASSUME Tick PROVE TypeOK'
  <2>1. clock' \in 0..MaxTime
    <3>1. clock' = clock + 1 /\ clock < MaxTime
      BY <1>1 DEF Tick
    <3> QED BY <3>1, Lengths, OptionsTyped
  <2> QED BY <1>1, <2>1 DEF Tick, TypeOK, fvars, bvars, svars, Grace, HardLimit, MaxTime
<1>2. ASSUME NEW t \in Threads, NEW kind \in {"log", "flush"}, Stamp(t, kind) PROVE TypeOK'
  <2>1. event' \in [Threads -> Event]
    BY <1>2, StampEffect
  <2>2. mark' \in [Threads -> SUBSET Event]
    BY <1>2, PublishedTyped DEF Stamp, TypeOK
  <2>3. tpc' \in [Threads -> {"idle", "stamped", "blocked", "waiting", "exited"}]
    BY <1>2 DEF Stamp, TypeOK
  <2> QED BY <1>2, <2>1, <2>2, <2>3 DEF Stamp, TypeOK, bvars, svars, Grace, HardLimit, MaxTime
<1>3. ASSUME NEW t \in Threads, Register(t) PROVE TypeOK'
  <2>1. contexts' \in Seq(Threads)
    BY <1>3, AppendedEvents DEF Register, TypeOK
  <2> QED BY <1>3, <2>1 DEF Register, TypeOK, fvars, bvars, svars, Grace, HardLimit, MaxTime
<1>4. ASSUME NEW t \in Threads, Publish(t) PROVE TypeOK'
  <2>1. queue' \in [Threads -> Seq(Event)] /\ \A u \in Threads : Len(queue'[u]) <= QueueCapacity
    <3>1. Len(queue[t]) < QueueCapacity
      <4>1. Len(queue[t]) \in Nat /\ read \in Nat /\ QueueCapacity \in Nat
        BY OptionsTyped, Lengths
      <4>2. Len(queue[t]) + read < QueueCapacity \/ Len(queue[t]) + 0 < QueueCapacity
        BY <1>4 DEF Publish, HasSpace
      <4> QED BY <4>1, <4>2
    <3>2. PICK e \in Event : /\ queue' \in [Threads -> Seq(Event)] /\ Len(queue'[t]) = Len(queue[t]) + 1
                             /\ \A u \in Threads \ {t} : queue'[u] = queue[u]
      BY <1>4, PublishEffect
    <3>3. \A u \in Threads : Len(queue[u]) \in Nat /\ Len(queue[u]) <= QueueCapacity
      BY DEF TypeOK
    <3>4. QueueCapacity \in Nat
      BY OptionsTyped
    <3>5. \A u \in Threads : Len(queue'[u]) <= QueueCapacity
      BY <3>1, <3>2, <3>3, <3>4
    <3> QED BY <3>2, <3>5
  <2>2. sent' \in [Threads -> Nat] /\ event' \in [Threads -> Event]
    BY <1>4, NoEventTyped DEF Publish, TypeOK
  <2>3. tpc' \in [Threads -> {"idle", "stamped", "blocked", "waiting", "exited"}]
    BY <1>4 DEF Publish, TypeOK
  <2> QED BY <1>4, <2>1, <2>2, <2>3 DEF Publish, TypeOK, bvars, svars, Grace, HardLimit, MaxTime
<1>5. ASSUME NEW t \in Threads, QueueFull(t) PROVE TypeOK'
  <2>1. event' \in [Threads -> Event]
    BY <1>5, QueueFullEffect
  <2>2. tpc' \in [Threads -> {"idle", "stamped", "blocked", "waiting", "exited"}]
    BY <1>5 DEF QueueFull, TypeOK
  <2> QED BY <1>5, <2>1, <2>2 DEF QueueFull, TypeOK, bvars, svars, Grace, HardLimit, MaxTime
<1>6. ASSUME NEW t \in Threads, FlushReturns(t) PROVE TypeOK'
  BY <1>6 DEF FlushReturns, TypeOK, fvars, bvars, svars, Grace, HardLimit, MaxTime
<1>7. ASSUME NEW t \in Threads, Exit(t) PROVE TypeOK'
  BY <1>7 DEF Exit, TypeOK, fvars, bvars, svars, Grace, HardLimit, MaxTime
<1>8. ASSUME Poll PROVE TypeOK'
  <2>1. cache' \in Seq(Threads) /\ newFlag' \in BOOLEAN
    BY <1>8 DEF Poll, UpdateCache, TypeOK
  <2>2. pos' \in 1..(Len(cache') + 1)
    BY <1>8, <2>1 DEF Poll, ModesRight
  <2>3. flushed' \in 0..Len(processed') /\ processed' = processed
    BY <1>8, Lengths DEF Poll, SinksFlushed, bvars, svars, fvars
  <2> QED BY <1>8, <2>1, <2>2, <2>3 DEF Poll, TypeOK, fvars, svars, Grace, HardLimit, MaxTime
<1>9. ASSUME Cutoff PROVE TypeOK'
  <2>1. pos' \in 1..(Len(cache') + 1) /\ tsNow' \in 0..options.maxTime /\ read' \in 0..QueueCapacity
    <3>1. tsNow' = IF Grace = 0 THEN MaxTime ELSE IF clock > Grace THEN clock - Grace ELSE 0
      BY <1>9 DEF Cutoff, CutoffTime
    <3>2. tsNow' \in 0..MaxTime
      BY <3>1, OptionsTyped, Lengths
    <3>3. pos' = 1 /\ read' = 0 /\ cache' = cache
      BY <1>9 DEF Cutoff
    <3> QED BY <3>2, <3>3, OptionsTyped, Lengths DEF MaxTime
  <2> QED BY <1>9, <2>1 DEF Cutoff, TypeOK, fvars, svars, Grace, HardLimit, MaxTime
<1>10. ASSUME ReadEvent PROVE TypeOK'
  <2>1. PICK t \in Threads, e \in Event :
          /\ queue' \in [Threads -> Seq(Event)] /\ buffer' \in [Threads -> Seq(Event)]
          /\ Len(queue'[t]) = Len(queue[t]) - 1 /\ Len(buffer'[t]) = Len(buffer[t]) + 1
          /\ Len(buffer[t]) < HardLimit /\ read < QueueCapacity
          /\ \A u \in Threads \ {t} : queue'[u] = queue[u] /\ buffer'[u] = buffer[u]
    BY <1>10, ReadEffect
  <2>2. \A u \in Threads : /\ Len(queue[u]) \in Nat /\ Len(queue[u]) <= QueueCapacity
                           /\ Len(buffer[u]) \in Nat /\ Len(buffer[u]) <= HardLimit
    BY Lengths
  <2>3. QueueCapacity \in Nat /\ HardLimit \in Nat /\ read \in Nat
    BY OptionsTyped, Lengths
  <2>6. Len(queue'[t]) <= QueueCapacity /\ Len(buffer'[t]) <= HardLimit
    BY <2>1, <2>2, <2>3
  <2>4. \A u \in Threads : Len(queue'[u]) <= QueueCapacity /\ Len(buffer'[u]) <= HardLimit
    BY <2>1, <2>2, <2>6
  <2>5. read' \in 0..QueueCapacity
    BY <1>10, <2>1, <2>3 DEF ReadEvent
  <2> QED BY <1>10, <2>1, <2>4, <2>5 DEF ReadEvent, TypeOK, fvars, svars, Grace, HardLimit, MaxTime
<1>11. ASSUME NextQueue PROVE TypeOK'
  <2>1. pos' \in 1..(Len(cache') + 1) /\ read' \in 0..QueueCapacity
    <3>1. pos' = pos + 1 /\ read' = 0 /\ cache' = cache /\ pos <= Len(cache)
      BY <1>11 DEF NextQueue
    <3> QED BY <3>1, Lengths, OptionsTyped
  <2> QED BY <1>11, <2>1 DEF NextQueue, TypeOK, fvars, svars, Grace, HardLimit, MaxTime
<1>12. ASSUME EndPopulate PROVE TypeOK'
  <2>1. pos' \in 1..(Len(cache') + 1) /\ tsNow' \in 0..options.maxTime
    BY <1>12, OptionsTyped DEF EndPopulate, TypeOK, MaxTime
  <2> QED BY <1>12, <2>1 DEF EndPopulate, WhatNext, TypeOK, fvars, svars, Grace, HardLimit, MaxTime
<1>13. ASSUME BatchUpdate PROVE TypeOK'
  <2>1. cache' \in Seq(Threads) /\ newFlag' \in BOOLEAN
    BY <1>13 DEF BatchUpdate, UpdateCache, TypeOK
  <2>2. pos' \in 1..(Len(cache') + 1)
    BY <1>13, <2>1 DEF BatchUpdate, ModesRight
  <2>3. flushed' \in 0..Len(processed') /\ processed' = processed
    BY <1>13, Lengths DEF BatchUpdate, SinksFlushed, bvars, svars, fvars
  <2> QED BY <1>13, <2>1, <2>2, <2>3 DEF BatchUpdate, TypeOK, fvars, svars, Grace, HardLimit, MaxTime
<1>14. ASSUME BatchCheck PROVE TypeOK'
  BY <1>14 DEF BatchCheck, LoopTop, TypeOK, fvars, bvars, svars, Grace, HardLimit, MaxTime
<1>15. ASSUME ProcessLowest PROVE TypeOK'
  <2>1. PICK t \in Threads, e \in Event :
          /\ buffer' \in [Threads -> Seq(Event)] /\ Len(buffer'[t]) = Len(buffer[t]) - 1
          /\ \A u \in Threads \ {t} : buffer'[u] = buffer[u]
          /\ processed' \in Seq(Event) /\ Len(processed') = Len(processed) + 1
          /\ IF e.kind = "flush"
             THEN /\ flushed' = Len(processed) /\ flushFlag' = [flushFlag EXCEPT ![t] = TRUE]
                  /\ CleanupContexts(buffer')
             ELSE UNCHANGED <<flushed, contexts, cache, flushFlag>>
    BY <1>15, ProcessEffect DEF StructureInv
  <2>2. \A u \in Threads : Len(buffer[u]) \in Nat /\ Len(buffer[u]) <= HardLimit
    BY DEF TypeOK
  <2>3. HardLimit \in Nat /\ Len(processed) \in Nat /\ flushed \in 0..Len(processed)
    BY OptionsTyped, Lengths
  <2>4. \A u \in Threads : Len(buffer'[u]) <= HardLimit
    BY <2>1, <2>2, <2>3
  <2>5. flushed' \in 0..Len(processed')
    BY <2>1, <2>3
  <2>6. contexts' \in Seq(Threads) /\ cache' \in Seq(Threads) /\ flushFlag' \in [Threads -> BOOLEAN]
    <3>1. CASE e.kind = "flush"
      <4>1. contexts' \in Seq(Threads) /\ cache' \in Seq(Threads)
        BY <2>1, <3>1, CleanupEffect
      <4> QED BY <2>1, <3>1, <4>1 DEF TypeOK
    <3>2. CASE e.kind # "flush"
      BY <2>1, <3>2 DEF TypeOK
    <3> QED BY <3>1, <3>2
  <2>7. pos' \in 1..(Len(cache') + 1)
    BY <1>15, <2>6 DEF ProcessLowest, ModesRight
  <2> QED BY <1>15, <2>1, <2>4, <2>5, <2>6, <2>7
       DEF ProcessLowest, TypeOK, fvars, svars, Grace, HardLimit, MaxTime
<1>16. ASSUME Idle PROVE TypeOK'
  <2>1. cache' \in Seq(Threads) /\ newFlag' \in BOOLEAN
    BY <1>16 DEF Idle, UpdateCache, TypeOK
  <2>2. pos' \in 1..(Len(cache') + 1)
    BY <1>16, <2>1 DEF Idle, ModesRight
  <2>3. flushed' \in 0..Len(processed') /\ processed' = processed
    BY <1>16, Lengths DEF Idle, SinksFlushed, bvars, svars, fvars
  <2> QED BY <1>16, <2>1, <2>2, <2>3 DEF Idle, TypeOK, fvars, svars, Grace, HardLimit, MaxTime
<1>17. ASSUME IdleCheck PROVE TypeOK'
  BY <1>17 DEF IdleCheck, TypeOK, fvars, bvars, svars, Grace, HardLimit, MaxTime
<1>18. ASSUME Cleanup PROVE TypeOK'
  <2>1. contexts' \in Seq(Threads) /\ cache' \in Seq(Threads)
    BY <1>18, CleanupEffect DEF Cleanup
  <2>2. pos' \in 1..(Len(cache') + 1)
    BY <1>18, <2>1 DEF Cleanup, ModesRight
  <2> QED BY <1>18, <2>1, <2>2 DEF Cleanup, TypeOK, fvars, svars, Grace, HardLimit, MaxTime
<1>19. ASSUME WakeUp PROVE TypeOK'
  BY <1>19 DEF WakeUp, TypeOK, fvars, bvars, svars, Grace, HardLimit, MaxTime
<1>20. ASSUME ExitUpdate PROVE TypeOK'
  <2>1. cache' \in Seq(Threads) /\ newFlag' \in BOOLEAN
    BY <1>20 DEF ExitUpdate, UpdateCache, TypeOK
  <2>2. pos' \in 1..(Len(cache') + 1)
    BY <1>20, <2>1 DEF ExitUpdate, ModesRight
  <2>3. flushed' \in 0..Len(processed') /\ processed' = processed
    BY <1>20, Lengths DEF ExitUpdate, SinksFlushed, bvars, svars, fvars
  <2> QED BY <1>20, <2>1, <2>2, <2>3 DEF ExitUpdate, TypeOK, fvars, svars, Grace, HardLimit, MaxTime
<1>21. ASSUME ExitCheck PROVE TypeOK'
  BY <1>21 DEF ExitCheck, SinksFlushed, TypeOK, fvars, bvars, svars, Grace, HardLimit, MaxTime
<1>22. ASSUME Stop PROVE TypeOK'
  <2>1. stops' \in 0..options.maxStops
    <3>1. stops' = stops + 1 /\ stops < options.maxStops /\ stops \in 0..options.maxStops
      BY <1>22 DEF Stop, TypeOK
    <3>2. options.maxStops \in Nat
      BY OptionsTyped
    <3> QED BY <3>1, <3>2
  <2>2. stopMark' \subseteq Event
    BY <1>22, PublishedTyped DEF Stop
  <2> QED BY <1>22, <2>1, <2>2 DEF Stop, TypeOK, fvars, bvars, Grace, HardLimit, MaxTime
<1>23. ASSUME Notify PROVE TypeOK'
  BY <1>23 DEF Notify, TypeOK, fvars, bvars, svars, Grace, HardLimit, MaxTime
<1>24. ASSUME Join PROVE TypeOK'
  <2>1. cache' \in Seq(Threads)
    BY <1>24 DEF Join
  <2>2. pos' \in 1..(Len(cache') + 1)
    BY <1>24, <2>1 DEF Join, ModesRight
  <2> QED BY <1>24, <2>1, <2>2 DEF Join, TypeOK, fvars, Grace, HardLimit, MaxTime
<1>25. ASSUME Start PROVE TypeOK'
  <2>1. cache' \in Seq(Threads) /\ newFlag' \in BOOLEAN
    BY <1>25 DEF Start, UpdateCache, TypeOK
  <2>2. pos' \in 1..(Len(cache') + 1)
    BY <1>25, <2>1 DEF Start, ModesRight
  <2>3. flushed' \in 0..Len(processed') /\ processed' = processed
    BY <1>25, Lengths DEF Start, SinksFlushed, bvars, svars, fvars
  <2> QED BY <1>25, <2>1, <2>2, <2>3 DEF Start, TypeOK, fvars, svars, Grace, HardLimit, MaxTime
<1>26. ASSUME UNCHANGED vars PROVE TypeOK'
  BY <1>26 DEF vars, TypeOK, fvars, bvars, svars, Grace, HardLimit, MaxTime
<1> QED BY <1>1, <1>2, <1>3, <1>4, <1>5, <1>6, <1>7, <1>8, <1>9, <1>10, <1>11, <1>12, <1>13, <1>14,
     <1>15, <1>16, <1>17, <1>18, <1>19, <1>20, <1>21, <1>22, <1>23, <1>24, <1>25, <1>26
     DEF Next, Backend, Frontend, Notified, SleepTimeout

\* Every step keeps the phases of the backend and of the stopping thread in line.
LEMMA ModesNext == StructureInv /\ [Next]_vars => ModesRight'
<1> SUFFICES ASSUME StructureInv, [Next]_vars PROVE ModesRight'
  OBVIOUS
<1>0. ModesRight /\ TypeOK
  BY DEF StructureInv
<1>a. running \in BOOLEAN /\ exiting \in BOOLEAN
  BY <1>0 DEF TypeOK
<1> USE <1>0, <1>a DEF ModesRight
<1>1. ASSUME Tick PROVE ModesRight'
  BY <1>1 DEF Tick, fvars, bvars, svars
<1>2. ASSUME NEW t \in Threads, NEW kind \in {"log", "flush"}, Stamp(t, kind) PROVE ModesRight'
  BY <1>2 DEF Stamp, fvars, bvars, svars
<1>3. ASSUME NEW t \in Threads, Register(t) PROVE ModesRight'
  BY <1>3 DEF Register, fvars, bvars, svars
<1>4. ASSUME NEW t \in Threads, Publish(t) PROVE ModesRight'
  BY <1>4 DEF Publish, fvars, bvars, svars
<1>5. ASSUME NEW t \in Threads, QueueFull(t) PROVE ModesRight'
  BY <1>5 DEF QueueFull, fvars, bvars, svars
<1>6. ASSUME NEW t \in Threads, FlushReturns(t) PROVE ModesRight'
  BY <1>6 DEF FlushReturns, fvars, bvars, svars
<1>7. ASSUME NEW t \in Threads, Exit(t) PROVE ModesRight'
  BY <1>7 DEF Exit, fvars, bvars, svars
<1>8. ASSUME Poll PROVE ModesRight'
  BY <1>8 DEF Poll, UpdateCache, fvars, bvars, svars
<1>9. ASSUME Cutoff PROVE ModesRight'
  BY <1>9 DEF Cutoff, fvars, bvars, svars
<1>10. ASSUME ReadEvent PROVE ModesRight'
  BY <1>10 DEF ReadEvent, fvars, bvars, svars
<1>11. ASSUME NextQueue PROVE ModesRight'
  BY <1>11 DEF NextQueue, fvars, bvars, svars
<1>12. ASSUME EndPopulate PROVE ModesRight'
  BY <1>12 DEF EndPopulate, WhatNext, fvars, bvars, svars
<1>13. ASSUME BatchUpdate PROVE ModesRight'
  BY <1>13 DEF BatchUpdate, UpdateCache, fvars, bvars, svars
<1>14. ASSUME BatchCheck PROVE ModesRight'
  BY <1>14 DEF BatchCheck, LoopTop, fvars, bvars, svars
<1>15. ASSUME ProcessLowest PROVE ModesRight'
  BY <1>15 DEF ProcessLowest, fvars, bvars, svars
<1>16. ASSUME Idle PROVE ModesRight'
  BY <1>16 DEF Idle, UpdateCache, SinksFlushed, fvars, bvars, svars
<1>17. ASSUME IdleCheck PROVE ModesRight'
  BY <1>17 DEF IdleCheck, fvars, bvars, svars
<1>18. ASSUME Cleanup PROVE ModesRight'
  BY <1>18 DEF Cleanup, fvars, bvars, svars
<1>19. ASSUME WakeUp PROVE ModesRight'
  BY <1>19 DEF WakeUp, fvars, bvars, svars
<1>20. ASSUME ExitUpdate PROVE ModesRight'
  BY <1>20 DEF ExitUpdate, UpdateCache, fvars, bvars, svars
<1>21. ASSUME ExitCheck PROVE ModesRight'
  BY <1>21 DEF ExitCheck, SinksFlushed, fvars, bvars, svars
<1>22. ASSUME Stop PROVE ModesRight'
  BY <1>22 DEF Stop, fvars, bvars, svars
<1>23. ASSUME Notify PROVE ModesRight'
  BY <1>23 DEF Notify, fvars, bvars, svars
<1>24. ASSUME Join PROVE ModesRight'
  BY <1>24 DEF Join, fvars, bvars, svars
<1>25. ASSUME Start PROVE ModesRight'
  BY <1>25 DEF Start, UpdateCache, fvars, bvars, svars
<1>26. ASSUME UNCHANGED vars PROVE ModesRight'
  BY <1>26 DEF vars, fvars, bvars, svars
<1> HIDE DEF ModesRight
<1> QED BY <1>1, <1>2, <1>3, <1>4, <1>5, <1>6, <1>7, <1>8, <1>9, <1>10, <1>11, <1>12, <1>13, <1>14,
     <1>15, <1>16, <1>17, <1>18, <1>19, <1>20, <1>21, <1>22, <1>23, <1>24, <1>25, <1>26
     DEF Next, Backend, Frontend, Notified, SleepTimeout

\* A registered context is in the list.
LEMMA Registered == TypeOK => \A t \in Threads : Contains(contexts, t) <=> t \in Range(contexts)
<1> SUFFICES ASSUME TypeOK PROVE \A t \in Threads : Contains(contexts, t) <=> t \in Range(contexts)
  OBVIOUS
<1>1. contexts \in Seq(Threads)
  BY DEF TypeOK
<1> QED BY <1>1, InRange DEF Contains

\* Every step keeps the contexts of the waiting events known.
LEMMA CachedNext == StructureInv /\ [Next]_vars => ContextsCached'
<1> SUFFICES ASSUME StructureInv, [Next]_vars PROVE ContextsCached'
  OBVIOUS
<1>0. ModesRight /\ TypeOK /\ ContextsCached
  BY DEF StructureInv
<1> USE <1>0 DEF ModesRight, ContextsCached
<1>1. ASSUME Tick PROVE ContextsCached'
  BY <1>1 DEF Tick, fvars, bvars, svars
<1>2. ASSUME NEW t \in Threads, NEW kind \in {"log", "flush"}, Stamp(t, kind) PROVE ContextsCached'
  BY <1>2 DEF Stamp, fvars, bvars, svars
<1>3. ASSUME NEW t \in Threads, Register(t) PROVE ContextsCached'
  <2>1. Range(contexts') = Range(contexts) \cup {t}
    BY <1>3, AppendedEvents DEF Register, TypeOK
  <2> QED BY <1>3, <2>1 DEF Register, fvars, bvars, svars
<1>4. ASSUME NEW t \in Threads, Publish(t) PROVE ContextsCached'
  <2>1. PICK e \in Event : \A u \in Threads \ {t} : queue'[u] = queue[u]
    BY <1>4, PublishEffect
  <2>2. t \in Range(contexts)
    BY <1>4, Registered DEF Publish
  <2> QED BY <1>4, <2>1, <2>2 DEF Publish, bvars, svars
<1>5. ASSUME NEW t \in Threads, QueueFull(t) PROVE ContextsCached'
  BY <1>5 DEF QueueFull, fvars, bvars, svars
<1>6. ASSUME NEW t \in Threads, FlushReturns(t) PROVE ContextsCached'
  BY <1>6 DEF FlushReturns, fvars, bvars, svars
<1>7. ASSUME NEW t \in Threads, Exit(t) PROVE ContextsCached'
  BY <1>7 DEF Exit, fvars, bvars, svars
<1>8. ASSUME Poll PROVE ContextsCached'
  BY <1>8 DEF Poll, UpdateCache, fvars, bvars, svars
<1>9. ASSUME Cutoff PROVE ContextsCached'
  BY <1>9 DEF Cutoff, fvars, bvars, svars
<1>10. ASSUME ReadEvent PROVE ContextsCached'
  <2>1. PICK t \in Threads, e \in Event :
          /\ t \in Range(cache) /\ queue[t] # <<>>
          /\ \A u \in Threads \ {t} : queue'[u] = queue[u] /\ buffer'[u] = buffer[u]
    BY <1>10, ReadEffect
  <2> QED BY <1>10, <2>1 DEF ReadEvent, fvars, svars
<1>11. ASSUME NextQueue PROVE ContextsCached'
  BY <1>11 DEF NextQueue, fvars, bvars, svars
<1>12. ASSUME EndPopulate PROVE ContextsCached'
  <2>1. bpc' \in {"one", "process"} => \E t \in Range(cache) : buffer[t] # <<>>
    BY <1>12, SomethingCounted DEF EndPopulate, WhatNext
  <2> QED BY <1>12, <2>1 DEF EndPopulate, fvars, svars
<1>13. ASSUME BatchUpdate PROVE ContextsCached'
  BY <1>13 DEF BatchUpdate, UpdateCache, fvars, bvars, svars
<1>14. ASSUME BatchCheck PROVE ContextsCached'
  BY <1>14 DEF BatchCheck, LoopTop, fvars, bvars, svars
<1>15. ASSUME ProcessLowest PROVE ContextsCached'
  <2>1. PICK t \in Threads, e \in Event :
          /\ t \in Range(cache) /\ buffer[t] # <<>>
          /\ \A u \in Threads \ {t} : buffer'[u] = buffer[u]
          /\ IF e.kind = "flush" THEN CleanupContexts(buffer') ELSE UNCHANGED <<contexts, cache>>
    BY <1>15, ProcessEffect
  <2>2. CASE e.kind = "flush"
    <3>1. /\ Range(contexts') = Range(contexts) \ {v \in Range(cache) : InvalidAndEmpty(v, buffer')}
          /\ Range(cache') = Range(cache) \ {v \in Range(cache) : InvalidAndEmpty(v, buffer')}
      <4> DEFINE b == buffer'
      <4>1. CleanupContexts(b)
        BY <2>1, <2>2
      <4> HIDE DEF b
      <4>2. /\ Range(contexts') = Range(contexts) \ {v \in Range(cache) : InvalidAndEmpty(v, b)}
            /\ Range(cache') = Range(cache) \ {v \in Range(cache) : InvalidAndEmpty(v, b)}
        BY <4>1, CleanupEffect
      <4> QED BY <4>2 DEF b
    <3> QED BY <1>15, <2>1, <3>1 DEF ProcessLowest, InvalidAndEmpty, fvars, svars
  <2>3. CASE e.kind # "flush"
    BY <1>15, <2>1, <2>3 DEF ProcessLowest, fvars, svars
  <2> QED BY <2>2, <2>3
<1>16. ASSUME Idle PROVE ContextsCached'
  BY <1>16 DEF Idle, UpdateCache, SinksFlushed, fvars, bvars, svars
<1>17. ASSUME IdleCheck PROVE ContextsCached'
  BY <1>17 DEF IdleCheck, fvars, bvars, svars
<1>18. ASSUME Cleanup PROVE ContextsCached'
  <2>1. /\ Range(contexts') = Range(contexts) \ {t \in Range(cache) : InvalidAndEmpty(t, buffer)}
        /\ Range(cache') = Range(cache) \ {t \in Range(cache) : InvalidAndEmpty(t, buffer)}
    BY <1>18, CleanupEffect DEF Cleanup
  <2> QED BY <1>18, <2>1 DEF Cleanup, InvalidAndEmpty, fvars, svars
<1>19. ASSUME WakeUp PROVE ContextsCached'
  BY <1>19 DEF WakeUp, fvars, bvars, svars
<1>20. ASSUME ExitUpdate PROVE ContextsCached'
  BY <1>20 DEF ExitUpdate, UpdateCache, fvars, bvars, svars
<1>21. ASSUME ExitCheck PROVE ContextsCached'
  BY <1>21 DEF ExitCheck, SinksFlushed, fvars, bvars, svars
<1>22. ASSUME Stop PROVE ContextsCached'
  BY <1>22 DEF Stop, fvars, bvars, svars
<1>23. ASSUME Notify PROVE ContextsCached'
  BY <1>23 DEF Notify, fvars, bvars, svars
<1>24. ASSUME Join PROVE ContextsCached'
  BY <1>24 DEF Join, fvars, bvars, svars
<1>25. ASSUME Start PROVE ContextsCached'
  BY <1>25 DEF Start, UpdateCache, fvars, bvars, svars
<1>26. ASSUME UNCHANGED vars PROVE ContextsCached'
  BY <1>26 DEF vars, fvars, bvars, svars
<1> HIDE DEF ModesRight, ContextsCached
<1> QED BY <1>1, <1>2, <1>3, <1>4, <1>5, <1>6, <1>7, <1>8, <1>9, <1>10, <1>11, <1>12, <1>13, <1>14,
     <1>15, <1>16, <1>17, <1>18, <1>19, <1>20, <1>21, <1>22, <1>23, <1>24, <1>25, <1>26
     DEF Next, Backend, Frontend, Notified, SleepTimeout

-----------------------------------------------------------------------------
(***************************************************************************)
(* The events keep their numbers, their order and their timestamps.        *)
(***************************************************************************)

\* Few steps move events.
LEMMA DataSteps ==
  ASSUME StructureInv, [Next]_vars
  PROVE  \/ \E t \in Threads : Publish(t)
         \/ ReadEvent
         \/ ProcessLowest
         \/ UNCHANGED <<queue, buffer, processed, sent>>
<1>1. ASSUME NEW t \in Threads, NEW kind \in {"log", "flush"}, Stamp(t, kind)
      PROVE  UNCHANGED <<queue, buffer, processed, sent>>
  BY <1>1 DEF Stamp, bvars
<1>2. ASSUME NEW t \in Threads, Register(t) \/ QueueFull(t) \/ FlushReturns(t) \/ Exit(t)
      PROVE  UNCHANGED <<queue, buffer, processed, sent>>
  BY <1>2 DEF Register, QueueFull, FlushReturns, Exit, fvars, bvars
<1>3. ASSUME Poll \/ Cutoff \/ NextQueue \/ EndPopulate \/ BatchUpdate \/ BatchCheck
      PROVE  UNCHANGED <<queue, buffer, processed, sent>>
  BY <1>3 DEF Poll, Cutoff, NextQueue, EndPopulate, BatchUpdate, BatchCheck, fvars
<1>4. ASSUME Idle \/ IdleCheck \/ Cleanup \/ Notified \/ SleepTimeout \/ ExitUpdate \/ ExitCheck
      PROVE  UNCHANGED <<queue, buffer, processed, sent>>
  BY <1>4 DEF Idle, IdleCheck, Cleanup, Notified, SleepTimeout, WakeUp, ExitUpdate, ExitCheck, fvars
<1>5. ASSUME Tick \/ Stop \/ Notify \/ Join \/ Start
      PROVE  UNCHANGED <<queue, buffer, processed, sent>>
  BY <1>5 DEF Tick, Stop, Notify, Join, Start, fvars, bvars
<1>6. ASSUME UNCHANGED vars PROVE UNCHANGED <<queue, buffer, processed, sent>>
  BY <1>6 DEF vars, fvars, bvars
<1> QED BY <1>1, <1>2, <1>3, <1>4, <1>5, <1>6 DEF Next, Backend, Frontend

\* Time does not go back.
LEMMA TimePasses ==
  ASSUME StructureInv, [Next]_vars
  PROVE  clock' \in Nat /\ clock' >= clock /\ options' = options
<1>0. clock \in Nat
  BY Lengths DEF StructureInv
<1>1. ASSUME NEW t \in Threads, Frontend(t) PROVE clock' = clock /\ options' = options
  BY <1>1 DEF Frontend, Stamp, Register, Publish, QueueFull, FlushReturns, Exit, svars
<1>2. ASSUME Backend \/ SleepTimeout PROVE clock' = clock /\ options' = options
  BY <1>2 DEF Backend, Poll, Cutoff, ReadEvent, NextQueue, EndPopulate, BatchUpdate, BatchCheck,
       ProcessLowest,
       Idle, IdleCheck, Cleanup, Notified, SleepTimeout, WakeUp, ExitUpdate, ExitCheck, svars
<1>3. ASSUME Stop \/ Notify \/ Join \/ Start PROVE clock' = clock /\ options' = options
  BY <1>3 DEF Stop, Notify, Join, Start
<1>4. ASSUME Tick PROVE clock' = clock + 1 /\ options' = options
  BY <1>4 DEF Tick, svars
<1>5. ASSUME UNCHANGED vars PROVE clock' = clock /\ options' = options
  BY <1>5 DEF vars, svars
<1>6. clock' = clock \/ clock' = clock + 1
  BY <1>1, <1>2, <1>3, <1>4, <1>5 DEF Next
<1>7. options' = options
  BY <1>1, <1>2, <1>3, <1>4, <1>5 DEF Next
<1> QED BY <1>0, <1>6, <1>7

\* The numbers of the events that wait.
LEMMA WaitingNumbers ==
  ASSUME TypeOK, Numbered, NEW t \in Threads
  PROVE  /\ \A d \in Waiting(t) : d \in Event /\ d.thread = t /\ Out(t) < d.seq /\ d.seq <= sent[t]
         /\ \A d, e \in Waiting(t) : d.seq = e.seq => d = e
         /\ buffer[t] # <<>> => \A d \in Waiting(t) : d = Head(buffer[t]) \/ Head(buffer[t]).seq < d.seq
         /\ queue[t] # <<>> => \A d \in Range(queue[t]) : d = Head(queue[t]) \/ Head(queue[t]).seq < d.seq
         /\ \A d \in Range(buffer[t]), e \in Range(queue[t]) : d.seq < e.seq
<1>1. /\ queue[t] \in Seq(Event) /\ buffer[t] \in Seq(Event) /\ sent[t] \in Nat /\ Out(t) \in Nat
      /\ Len(queue[t]) \in Nat /\ Len(buffer[t]) \in Nat /\ Out(t) = sent[t] - Len(buffer[t]) - Len(queue[t])
      /\ \A i \in 1..Len(buffer[t]) : buffer[t][i].thread = t /\ buffer[t][i].seq = Out(t) + i
      /\ \A i \in 1..Len(queue[t]) : queue[t][i].thread = t /\ queue[t][i].seq = Out(t) + Len(buffer[t]) + i
  BY Lengths DEF Numbered, Out
<1>2. /\ \A d : d \in Range(queue[t]) <=> \E i \in 1..Len(queue[t]) : queue[t][i] = d
      /\ \A d : d \in Range(buffer[t]) <=> \E i \in 1..Len(buffer[t]) : buffer[t][i] = d
      /\ Range(queue[t]) \subseteq Event /\ Range(buffer[t]) \subseteq Event
  BY <1>1, InRange
<1>3. ASSUME NEW d \in Range(buffer[t])
      PROVE  d \in Event /\ d.thread = t /\ Out(t) < d.seq /\ d.seq <= sent[t] /\ d.seq <= Out(t) + Len(buffer[t])
  <2>1. PICK i \in 1..Len(buffer[t]) : buffer[t][i] = d
    BY <1>2
  <2>2. d.seq = Out(t) + i /\ d.thread = t /\ d \in Event
    BY <1>1, <1>2, <2>1
  <2> QED BY <1>1, <2>2
<1>4. ASSUME NEW d \in Range(queue[t])
      PROVE  d \in Event /\ d.thread = t /\ Out(t) + Len(buffer[t]) < d.seq /\ d.seq <= sent[t] /\ Out(t) < d.seq
  <2>1. PICK i \in 1..Len(queue[t]) : queue[t][i] = d
    BY <1>2
  <2>2. d.seq = Out(t) + Len(buffer[t]) + i /\ d.thread = t /\ d \in Event
    BY <1>1, <1>2, <2>1
  <2> QED BY <1>1, <2>2
<1>5. \A d \in Range(buffer[t]), e \in Range(queue[t]) : d.seq < e.seq
  <2> TAKE d \in Range(buffer[t]), e \in Range(queue[t])
  <2>1. d.seq <= Out(t) + Len(buffer[t]) /\ Out(t) + Len(buffer[t]) < e.seq /\ d.seq \in Nat /\ e.seq \in Nat
    BY <1>3, <1>4, EventTyped
  <2> QED BY <1>1, <2>1
<1>6. \A d, e \in Range(buffer[t]) : d.seq = e.seq => d = e
  <2> TAKE d, e \in Range(buffer[t])
  <2>1. PICK i \in 1..Len(buffer[t]) : buffer[t][i] = d
    BY <1>2
  <2>2. PICK j \in 1..Len(buffer[t]) : buffer[t][j] = e
    BY <1>2
  <2>3. d.seq = Out(t) + i /\ e.seq = Out(t) + j
    BY <1>1, <2>1, <2>2
  <2> QED BY <1>1, <2>1, <2>2, <2>3
<1>7. \A d, e \in Range(queue[t]) : d.seq = e.seq => d = e
  <2> TAKE d, e \in Range(queue[t])
  <2>1. PICK i \in 1..Len(queue[t]) : queue[t][i] = d
    BY <1>2
  <2>2. PICK j \in 1..Len(queue[t]) : queue[t][j] = e
    BY <1>2
  <2>3. d.seq = Out(t) + Len(buffer[t]) + i /\ e.seq = Out(t) + Len(buffer[t]) + j
    BY <1>1, <2>1, <2>2
  <2> QED BY <1>1, <2>1, <2>2, <2>3
<1>8. \A d, e \in Waiting(t) : d.seq = e.seq => d = e
  <2> TAKE d, e \in Waiting(t)
  <2> HAVE d.seq = e.seq
  <2>1. d.seq \in Nat /\ e.seq \in Nat
    BY <1>2, EventTyped DEF Waiting
  <2> QED BY <1>5, <1>6, <1>7, <2>1 DEF Waiting
<1>9. ASSUME buffer[t] # <<>> PROVE \A d \in Waiting(t) : d = Head(buffer[t]) \/ Head(buffer[t]).seq < d.seq
  <2>1. Head(buffer[t]) = buffer[t][1] /\ 1 \in 1..Len(buffer[t])
    BY <1>1, <1>9, RemainingEvents
  <2>2. Head(buffer[t]).seq = Out(t) + 1 /\ Head(buffer[t]) \in Range(buffer[t])
    BY <1>1, <1>2, <2>1
  <2>3. ASSUME NEW d \in Waiting(t) PROVE d = Head(buffer[t]) \/ Head(buffer[t]).seq < d.seq
    <3>1. d.seq \in Nat /\ Out(t) < d.seq
      BY <1>3, <1>4, EventTyped DEF Waiting
    <3>2. d.seq = Out(t) + 1 \/ d.seq > Out(t) + 1
      BY <1>1, <3>1
    <3>3. Head(buffer[t]) \in Waiting(t)
      BY <2>2 DEF Waiting
    <3> QED BY <1>8, <2>2, <3>2, <3>3
  <2> QED BY <2>3
<1>10. ASSUME queue[t] # <<>> PROVE \A d \in Range(queue[t]) : d = Head(queue[t]) \/ Head(queue[t]).seq < d.seq
  <2>1. Head(queue[t]) = queue[t][1] /\ 1 \in 1..Len(queue[t])
    BY <1>1, <1>10, RemainingEvents
  <2>2. Head(queue[t]).seq = Out(t) + Len(buffer[t]) + 1 /\ Head(queue[t]) \in Range(queue[t])
    BY <1>1, <1>2, <2>1
  <2>3. ASSUME NEW d \in Range(queue[t]) PROVE d = Head(queue[t]) \/ Head(queue[t]).seq < d.seq
    <3>1. d.seq \in Nat /\ Out(t) + Len(buffer[t]) < d.seq
      BY <1>4, EventTyped
    <3>2. d.seq = Out(t) + Len(buffer[t]) + 1 \/ d.seq > Out(t) + Len(buffer[t]) + 1
      <4>1. Out(t) + Len(buffer[t]) \in Nat
        BY <1>1
      <4> QED BY <3>1, <4>1
    <3> QED BY <1>7, <2>2, <3>2
  <2> QED BY <2>3
<1>11. \A d \in Waiting(t) : d \in Event /\ d.thread = t /\ Out(t) < d.seq /\ d.seq <= sent[t]
  BY <1>3, <1>4 DEF Waiting
<1> QED BY <1>5, <1>8, <1>9, <1>10, <1>11

\* Every step keeps the numbers.
LEMMA NumberedNext == StructureInv /\ [Next]_vars => Numbered'
<1> SUFFICES ASSUME StructureInv, [Next]_vars, NEW u \in Threads
             PROVE  /\ Out(u)' \in Nat
                    /\ \A i \in 1..Len(buffer'[u]) :
                         buffer'[u][i].thread = u /\ buffer'[u][i].seq = Out(u)' + i
                    /\ \A i \in 1..Len(queue'[u]) :
                         queue'[u][i].thread = u /\ queue'[u][i].seq = Out(u)' + Len(buffer'[u]) + i
  BY DEF Numbered
<1>1. TypeOK /\ ContextsCached /\ Numbered /\ EventsStamped
  BY DEF StructureInv
<1>2. /\ Out(u) \in Nat /\ Len(buffer[u]) \in Nat /\ Len(queue[u]) \in Nat /\ sent[u] \in Nat
      /\ Out(u) = sent[u] - Len(buffer[u]) - Len(queue[u])
  BY <1>1, Lengths DEF Numbered, Out
<1>n. PICK o \in Nat, b \in Nat, q \in Nat, s \in Nat :
        o = Out(u) /\ b = Len(buffer[u]) /\ q = Len(queue[u]) /\ s = sent[u] /\ o = s - b - q
  BY <1>2
<1>k. o = s - b - q
  BY <1>n
<1>m. o = s - b - q /\ s = o + b + q
  BY <1>k
<1>0. /\ \A i \in 1..Len(buffer[u]) : buffer[u][i].thread = u /\ buffer[u][i].seq = Out(u) + i
      /\ \A i \in 1..Len(queue[u]) : queue[u][i].thread = u /\ queue[u][i].seq = Out(u) + Len(buffer[u]) + i
  BY <1>1 DEF Numbered
<1>3. ASSUME NEW t \in Threads, Publish(t), t = u
      PROVE  /\ Out(u)' = Out(u) /\ buffer'[u] = buffer[u]
             /\ \A i \in 1..Len(queue'[u]) :
                  queue'[u][i].thread = u /\ queue'[u][i].seq = Out(u)' + Len(buffer'[u]) + i
  <2>1. PICK e \in Event :
          /\ e.thread = event[u].thread /\ e.seq = sent[u] + 1
          /\ Len(queue'[u]) = Len(queue[u]) + 1 /\ queue'[u][Len(queue[u]) + 1] = e
          /\ \A i \in 1..Len(queue[u]) : queue'[u][i] = queue[u][i]
    BY <1>1, <1>3, PublishEffect
  <2>2. buffer' = buffer /\ sent'[u] = sent[u] + 1
    BY <1>1, <1>3 DEF Publish, bvars, TypeOK
  <2>3. Out(u)' = Out(u)
    <3>1. Len(queue'[u]) = Len(queue[u]) + 1 /\ buffer'[u] = buffer[u] /\ sent'[u] = sent[u] + 1
      BY <2>1, <2>2
    <3>2. Out(u)' = sent'[u] - Len(buffer'[u]) - Len(queue'[u])
      BY DEF Out
    <3>3. Out(u)' = (s + 1) - b - (q + 1)
      BY <1>n, <3>1, <3>2
    <3>4. (s + 1) - b - (q + 1) = o
      BY <1>m
    <3> QED BY <1>n, <3>3, <3>4
  <2>4. event[u].thread = u
    BY <1>1, <1>3 DEF Publish, EventsStamped
  <2>5. e.seq = Out(u) + Len(buffer[u]) + (Len(queue[u]) + 1) /\ e.thread = u
    <3>1. e.seq = sent[u] + 1 /\ e.thread = u
      BY <2>1, <2>4
    <3>2. s + 1 = o + b + (q + 1)
      BY <1>m
    <3> QED BY <1>n, <3>1, <3>2
  <2>6. ASSUME NEW i \in 1..Len(queue'[u]), i # Len(queue[u]) + 1
        PROVE  i \in 1..Len(queue[u]) /\ queue'[u][i] = queue[u][i]
    BY <1>2, <1>0, <2>1, <2>6
  <2> QED BY <1>2, <1>0, <2>1, <2>2, <2>3, <2>5, <2>6
<1>4. ASSUME NEW t \in Threads, Publish(t), t # u
      PROVE  UNCHANGED <<queue[u], buffer[u], sent[u]>>
  <2>1. queue'[u] = queue[u]
    BY <1>1, <1>4, PublishEffect
  <2> QED BY <1>1, <1>4, <2>1 DEF Publish, bvars, TypeOK
<1>5. ASSUME ReadEvent, NEW t \in Threads, NEW e \in Event, t = u,
             queue[t] # <<>>, e = queue[t][1],
             Len(queue'[t]) = Len(queue[t]) - 1, Len(queue[t]) > 0,
             \A i \in 1..Len(queue'[t]) : queue'[t][i] = queue[t][i + 1],
             Len(buffer'[t]) = Len(buffer[t]) + 1, buffer'[t][Len(buffer[t]) + 1] = e,
             \A i \in 1..Len(buffer[t]) : buffer'[t][i] = buffer[t][i]
      PROVE  /\ Out(u)' = Out(u)
             /\ \A i \in 1..Len(buffer'[u]) :
                  buffer'[u][i].thread = u /\ buffer'[u][i].seq = Out(u)' + i
             /\ \A i \in 1..Len(queue'[u]) :
                  queue'[u][i].thread = u /\ queue'[u][i].seq = Out(u)' + Len(buffer'[u]) + i
  <2>1. sent' = sent
    BY <1>5 DEF ReadEvent, fvars
  <2>2. Out(u)' = Out(u)
    <3>1. Len(queue'[u]) = Len(queue[u]) - 1 /\ Len(buffer'[u]) = Len(buffer[u]) + 1 /\ sent'[u] = sent[u]
      BY <1>5, <2>1
    <3>2. Out(u)' = sent'[u] - Len(buffer'[u]) - Len(queue'[u])
      BY DEF Out
    <3>3. Out(u)' = s - (b + 1) - (q - 1)
      BY <1>n, <3>1, <3>2
    <3>4. s - (b + 1) - (q - 1) = o
      BY <1>m
    <3> QED BY <1>n, <3>3, <3>4
  <2>3. e.thread = u /\ e.seq = Out(u) + (Len(buffer[u]) + 1)
    <3>1. 1 \in 1..Len(queue[u])
      BY <1>2, <1>5
    <3>2. queue[u][1].thread = u /\ queue[u][1].seq = Out(u) + Len(buffer[u]) + 1
      BY <1>0, <3>1
    <3>3. e.thread = u /\ e.seq = o + b + 1
      BY <1>5, <1>n, <3>2
    <3> QED BY <1>n, <3>3
  <2>4. ASSUME NEW i \in 1..Len(buffer'[u])
        PROVE  buffer'[u][i].thread = u /\ buffer'[u][i].seq = Out(u)' + i
    <3>1. CASE i = Len(buffer[u]) + 1
      BY <1>5, <2>2, <2>3, <3>1
    <3>2. CASE i # Len(buffer[u]) + 1
      <4>1. i \in 1..Len(buffer[u])
        BY <1>2, <1>5, <3>2
      <4> QED BY <1>2, <1>0, <1>5, <2>2, <4>1
    <3> QED BY <3>1, <3>2
  <2>5. ASSUME NEW i \in 1..Len(queue'[u])
        PROVE  queue'[u][i].thread = u /\ queue'[u][i].seq = Out(u)' + Len(buffer'[u]) + i
    <3>1. i + 1 \in 1..Len(queue[u]) /\ i \in Nat
      BY <1>2, <1>5
    <3>2. queue'[u][i].thread = u /\ queue'[u][i].seq = Out(u) + Len(buffer[u]) + (i + 1)
      BY <1>2, <1>0, <1>5, <3>1
    <3>3. Out(u) + Len(buffer[u]) + (i + 1) = Out(u)' + Len(buffer'[u]) + i
      <4>1. Len(buffer'[u]) = b + 1 /\ Out(u)' = o
        BY <1>5, <1>n, <2>2
      <4>2. \A k \in Nat : o + b + (k + 1) = o + (b + 1) + k
        OBVIOUS
      <4> QED BY <1>n, <3>1, <4>1, <4>2
    <3> QED BY <3>2, <3>3
  <2> QED BY <2>2, <2>4, <2>5
<1>6. ASSUME ProcessLowest, NEW t \in Threads, t = u,
             Len(buffer'[t]) = Len(buffer[t]) - 1, Len(buffer[t]) > 0,
             \A i \in 1..Len(buffer'[t]) : buffer'[t][i] = buffer[t][i + 1]
      PROVE  /\ Out(u)' = Out(u) + 1
             /\ \A i \in 1..Len(buffer'[u]) :
                  buffer'[u][i].thread = u /\ buffer'[u][i].seq = Out(u)' + i
             /\ \A i \in 1..Len(queue'[u]) :
                  queue'[u][i].thread = u /\ queue'[u][i].seq = Out(u)' + Len(buffer'[u]) + i
  <2>1. sent' = sent /\ queue' = queue
    BY <1>6 DEF ProcessLowest, fvars
  <2>2. Out(u)' = Out(u) + 1
    <3>1. Len(queue'[u]) = q /\ Len(buffer'[u]) = b - 1 /\ sent'[u] = s
      BY <1>n, <1>6, <2>1
    <3>2. Out(u)' = sent'[u] - Len(buffer'[u]) - Len(queue'[u])
      BY DEF Out
    <3>3. Out(u)' = s - (b - 1) - q
      BY <1>n, <3>1, <3>2
    <3>4. s - (b - 1) - q = o + 1
      BY <1>m
    <3> QED BY <1>n, <3>3, <3>4
  <2>3. ASSUME NEW i \in 1..Len(buffer'[u])
        PROVE  buffer'[u][i].thread = u /\ buffer'[u][i].seq = Out(u)' + i
    <3>1. i + 1 \in 1..Len(buffer[u]) /\ i \in Nat
      BY <1>2, <1>6
    <3>2. buffer'[u][i].thread = u /\ buffer'[u][i].seq = Out(u) + (i + 1)
      BY <1>2, <1>0, <1>6, <3>1
    <3> QED BY <1>2, <1>0, <2>2, <3>1, <3>2
  <2>4. Out(u)' + Len(buffer'[u]) = Out(u) + Len(buffer[u])
    BY <1>2, <1>6, <2>2
  <2> QED BY <1>2, <1>0, <2>1, <2>2, <2>3, <2>4
<1>7. ASSUME UNCHANGED <<queue[u], buffer[u], sent[u]>>
      PROVE  Out(u)' = Out(u) /\ buffer'[u] = buffer[u] /\ queue'[u] = queue[u]
  BY <1>7 DEF Out
<1>8. CASE \E t \in Threads : Publish(t)
  BY <1>2, <1>0, <1>3, <1>4, <1>7, <1>8
<1>9. CASE ReadEvent
  <2>1. PICK t \in Threads, e \in Event :
          /\ queue[t] # <<>> /\ e = queue[t][1]
          /\ Len(queue'[t]) = Len(queue[t]) - 1 /\ Len(queue[t]) > 0
          /\ \A i \in 1..Len(queue'[t]) : queue'[t][i] = queue[t][i + 1]
          /\ Len(buffer'[t]) = Len(buffer[t]) + 1 /\ buffer'[t][Len(buffer[t]) + 1] = e
          /\ \A i \in 1..Len(buffer[t]) : buffer'[t][i] = buffer[t][i]
          /\ \A v \in Threads \ {t} : queue'[v] = queue[v] /\ buffer'[v] = buffer[v]
    BY <1>1, <1>9, ReadEffect
  <2>2. CASE t = u
    BY <1>2, <1>5, <1>9, <2>1, <2>2
  <2>3. CASE t # u
    <3>1. sent' = sent
      BY <1>9 DEF ReadEvent, fvars
    <3> QED BY <1>2, <1>0, <1>7, <2>1, <2>3, <3>1
  <2> QED BY <2>2, <2>3
<1>10. CASE ProcessLowest
  <2>1. PICK t \in Threads, e \in Event :
          /\ Len(buffer'[t]) = Len(buffer[t]) - 1 /\ Len(buffer[t]) > 0
          /\ \A i \in 1..Len(buffer'[t]) : buffer'[t][i] = buffer[t][i + 1]
          /\ \A v \in Threads \ {t} : buffer'[v] = buffer[v]
    BY <1>1, <1>10, ProcessEffect
  <2>2. CASE t = u
    <3>1. Out(u)' = Out(u) + 1 /\ Out(u)' \in Nat
      BY <1>2, <1>6, <1>10, <2>1, <2>2
    <3> QED BY <1>6, <1>10, <2>1, <2>2, <3>1
  <2>3. CASE t # u
    <3>1. sent' = sent /\ queue' = queue
      BY <1>10 DEF ProcessLowest, fvars
    <3> QED BY <1>2, <1>0, <1>7, <2>1, <2>3, <3>1
  <2> QED BY <2>2, <2>3
<1>11. CASE UNCHANGED <<queue, buffer, processed, sent>>
  BY <1>2, <1>0, <1>7, <1>11
<1> QED BY <1>8, <1>9, <1>10, <1>11, DataSteps

\* Every step keeps the order in which the others were processed.
LEMMA ProcessedNext == StructureInv /\ [Next]_vars => ProcessedInOrder'
<1> DEFINE P(s, L, t, o) ==
      /\ \A i \in 1..L : s[i].thread = t => s[i].seq \in 1..o
      /\ \A n \in 1..o : \E i \in 1..L : s[i].thread = t /\ s[i].seq = n
      /\ \A i, j \in 1..L : s[i].thread = t /\ s[j].thread = t /\ i < j => s[i].seq < s[j].seq
<1> SUFFICES ASSUME StructureInv, [Next]_vars, NEW u \in Threads
             PROVE  P(processed', Len(processed'), u, Out(u)')
  BY DEF ProcessedInOrder
<1>1. TypeOK /\ ContextsCached /\ Numbered /\ EventsStamped
  BY DEF StructureInv
<1>2. P(processed, Len(processed), u, Out(u))
  BY DEF StructureInv, ProcessedInOrder
<1>3. Len(processed) \in Nat /\ Out(u) \in Nat
  BY <1>1, Lengths DEF Numbered
<1> HIDE DEF P
<1>4. CASE processed' = processed /\ Out(u)' = Out(u)
  BY <1>2, <1>4
<1>5. CASE ProcessLowest
  <2>1. PICK t \in Threads, e \in Event :
          /\ buffer[t] # <<>> /\ e = buffer[t][1]
          /\ Len(buffer'[t]) = Len(buffer[t]) - 1 /\ Len(buffer[t]) > 0
          /\ \A v \in Threads \ {t} : buffer'[v] = buffer[v]
          /\ Len(processed') = Len(processed) + 1
          /\ \A i \in 1..Len(processed) : processed'[i] = processed[i]
          /\ processed'[Len(processed) + 1] = e
    BY <1>1, <1>5, ProcessEffect
  <2>2. sent' = sent /\ queue' = queue
    BY <1>5 DEF ProcessLowest, fvars
  <2>3. Len(buffer[t]) \in Nat /\ 1 \in 1..Len(buffer[t]) /\ e.thread = t /\ e.seq = Out(t) + 1
    <3>1. Len(buffer[t]) \in Nat /\ 1 \in 1..Len(buffer[t])
      BY <1>1, <2>1, Lengths
    <3> QED BY <1>1, <2>1, <3>1 DEF Numbered
  <2>4. PICK L \in Nat, o \in Nat : L = Len(processed) /\ o = Out(u)
    BY <1>3
  <2>5. CASE t = u
    <3>1. Out(u)' = Out(u) + 1
      <4>1. PICK b \in Nat, q \in Nat, s \in Nat :
              b = Len(buffer[u]) /\ q = Len(queue[u]) /\ s = sent[u]
        BY <1>1, Lengths
      <4>2. Out(u) = s - b - q /\ Out(u)' = s - (b - 1) - q
        BY <2>1, <2>2, <2>5, <4>1 DEF Out
      <4>3. s - (b - 1) - q = (s - b - q) + 1
        OBVIOUS
      <4> QED BY <4>2, <4>3
    <3>2. Out(u)' = o + 1 /\ Len(processed') = L + 1 /\ processed'[L + 1] = e /\ e.seq = o + 1 /\ e.thread = u
      BY <2>1, <2>3, <2>4, <2>5, <3>1
    <3>3. /\ \A i \in 1..L : processed'[i] = processed[i]
          /\ \A i \in 1..L + 1 : i \in 1..L \/ i = L + 1
          /\ 1..L \subseteq 1..(L + 1) /\ L + 1 \in 1..(L + 1)
      BY <2>1, <2>4
    <3>4. P(processed, L, u, o)
      BY <1>2, <2>4
    <3>5. \A i \in 1..(L + 1) : processed'[i].thread = u => processed'[i].seq \in 1..(o + 1)
      BY <3>2, <3>3, <3>4 DEF P
    <3>6. \A n \in 1..(o + 1) : \E i \in 1..(L + 1) : processed'[i].thread = u /\ processed'[i].seq = n
      <4> TAKE n \in 1..(o + 1)
      <4>1. CASE n = o + 1
        BY <3>2, <3>3, <4>1
      <4>2. CASE n \in 1..o
        <5>1. PICK i \in 1..L : processed[i].thread = u /\ processed[i].seq = n
          BY <3>4, <4>2 DEF P
        <5> QED BY <3>3, <5>1
      <4> QED BY <4>1, <4>2
    <3>7. \A i, j \in 1..(L + 1) : processed'[i].thread = u /\ processed'[j].thread = u /\ i < j =>
             processed'[i].seq < processed'[j].seq
      <4> TAKE i, j \in 1..(L + 1)
      <4> HAVE processed'[i].thread = u /\ processed'[j].thread = u /\ i < j
      <4>1. i \in 1..L
        OBVIOUS
      <4>2. CASE j \in 1..L
        BY <3>3, <3>4, <4>1, <4>2 DEF P
      <4>3. CASE j = L + 1
        <5>1. processed'[i].seq \in 1..o
          BY <3>3, <3>4, <4>1 DEF P
        <5> QED BY <3>2, <4>3, <5>1
      <4> QED BY <3>3, <4>2, <4>3
    <3> QED BY <3>2, <3>5, <3>6, <3>7 DEF P
  <2>6. CASE t # u
    <3>1. Out(u)' = Out(u)
      BY <2>1, <2>2, <2>6 DEF Out
    <3>2. Out(u)' = o /\ Len(processed') = L + 1 /\ processed'[L + 1].thread # u
      BY <2>1, <2>3, <2>4, <2>6, <3>1
    <3>3. /\ \A i \in 1..L : processed'[i] = processed[i]
          /\ \A i \in 1..(L + 1) : i \in 1..L \/ i = L + 1
          /\ 1..L \subseteq 1..(L + 1)
      BY <2>1, <2>4
    <3>4. P(processed, L, u, o)
      BY <1>2, <2>4
    <3> QED BY <3>2, <3>3, <3>4 DEF P
  <2> QED BY <2>5, <2>6
<1>6. CASE \E t \in Threads : Publish(t)
  <2>1. PICK t \in Threads : Publish(t)
    BY <1>6
  <2>2. /\ buffer' = buffer /\ processed' = processed
        /\ sent'[u] = IF t = u THEN sent[u] + 1 ELSE sent[u]
    BY <1>1, <2>1 DEF Publish, bvars, TypeOK
  <2>3. PICK e \in Event : /\ Len(queue'[t]) = Len(queue[t]) + 1
                           /\ \A v \in Threads \ {t} : queue'[v] = queue[v]
    BY <1>1, <2>1, PublishEffect
  <2>4. PICK b \in Nat, q \in Nat, s \in Nat :
          b = Len(buffer[u]) /\ q = Len(queue[u]) /\ s = sent[u]
    BY <1>1, Lengths
  <2>5. CASE t = u
    <3>1. Out(u) = s - b - q /\ Out(u)' = (s + 1) - b - (q + 1)
      BY <2>2, <2>3, <2>4, <2>5 DEF Out
    <3>2. s - b - q = (s + 1) - b - (q + 1)
      OBVIOUS
    <3> QED BY <1>4, <2>2, <3>1, <3>2
  <2>6. CASE t # u
    BY <1>4, <2>2, <2>3, <2>6 DEF Out
  <2> QED BY <2>5, <2>6
<1>7. CASE ReadEvent
  <2>1. PICK t \in Threads, e \in Event :
          /\ Len(queue'[t]) = Len(queue[t]) - 1 /\ Len(buffer'[t]) = Len(buffer[t]) + 1
          /\ \A v \in Threads \ {t} : queue'[v] = queue[v] /\ buffer'[v] = buffer[v]
    BY <1>1, <1>7, ReadEffect
  <2>2. sent' = sent /\ processed' = processed
    BY <1>7 DEF ReadEvent, fvars
  <2>4. PICK b \in Nat, q \in Nat, s \in Nat :
          b = Len(buffer[u]) /\ q = Len(queue[u]) /\ s = sent[u]
    BY <1>1, Lengths
  <2>5. CASE t = u
    <3>1. Out(u) = s - b - q /\ Out(u)' = s - (b + 1) - (q - 1)
      BY <2>1, <2>2, <2>4, <2>5 DEF Out
    <3>2. s - b - q = s - (b + 1) - (q - 1)
      OBVIOUS
    <3> QED BY <1>4, <2>2, <3>1, <3>2
  <2>6. CASE t # u
    BY <1>4, <2>1, <2>2, <2>6 DEF Out
  <2> QED BY <2>5, <2>6
<1>8. CASE UNCHANGED <<queue, buffer, processed, sent>>
  BY <1>4, <1>8 DEF Out
<1> QED BY <1>5, <1>6, <1>7, <1>8, DataSteps

\* Few steps flush.
LEMMA FlushSteps ==
  ASSUME StructureInv, [Next]_vars
  PROVE  \/ ProcessLowest
         \/ processed' = processed /\ flushed' \in {flushed, Len(processed)}
<1>1. ASSUME NEW t \in Threads, Frontend(t) PROVE processed' = processed /\ flushed' = flushed
  BY <1>1 DEF Frontend, Stamp, Register, Publish, QueueFull, FlushReturns, Exit, bvars
<1>2. ASSUME Poll \/ Cutoff \/ ReadEvent \/ NextQueue \/ EndPopulate \/ BatchUpdate \/ BatchCheck
      PROVE  processed' = processed /\ flushed' = flushed
  BY <1>2 DEF Poll, Cutoff, ReadEvent, NextQueue, EndPopulate, BatchUpdate, BatchCheck
<1>3. ASSUME Idle \/ IdleCheck \/ Cleanup \/ Notified \/ SleepTimeout \/ ExitUpdate \/ ExitCheck
      PROVE  processed' = processed /\ flushed' \in {flushed, Len(processed)}
  BY <1>3 DEF Idle, IdleCheck, Cleanup, Notified, SleepTimeout, WakeUp, ExitUpdate, ExitCheck,
       SinksFlushed
<1>4. ASSUME Tick \/ Stop \/ Notify \/ Join \/ Start PROVE processed' = processed /\ flushed' = flushed
  BY <1>4 DEF Tick, Stop, Notify, Join, Start, bvars
<1>5. ASSUME UNCHANGED vars PROVE processed' = processed /\ flushed' = flushed
  BY <1>5 DEF vars, bvars
<1> QED BY <1>1, <1>2, <1>3, <1>4, <1>5 DEF Next, Backend

\* Few steps change what a thread is about to publish.
LEMMA StampSteps ==
  ASSUME StructureInv, [Next]_vars, NEW u \in Threads
  PROVE  \/ \E kind \in {"log", "flush"} : Stamp(u, kind)
         \/ Publish(u)
         \/ QueueFull(u)
         \/ event'[u] = event[u] /\ mark'[u] = mark[u] /\ (tpc'[u] = tpc[u] \/ tpc'[u] \in {"idle", "exited"})
<1>0. TypeOK
  BY DEF StructureInv
<1> DEFINE Same == event'[u] = event[u] /\ mark'[u] = mark[u] /\ (tpc'[u] = tpc[u] \/ tpc'[u] \in {"idle", "exited"})
<1>1. ASSUME NEW t \in Threads, t # u,
             (\E kind \in {"log", "flush"} : Stamp(t, kind)) \/ Publish(t) \/ QueueFull(t)
      PROVE  Same
  BY <1>0, <1>1 DEF Stamp, Publish, QueueFull, TypeOK
<1>2. ASSUME NEW t \in Threads, Register(t) \/ FlushReturns(t) \/ Exit(t) PROVE Same
  BY <1>0, <1>2 DEF Register, FlushReturns, Exit, TypeOK, fvars
<1>3. ASSUME Backend \/ SleepTimeout PROVE Same
  BY <1>3 DEF Backend, Poll, Cutoff, ReadEvent, NextQueue, EndPopulate, BatchUpdate, BatchCheck,
       ProcessLowest,
       Idle, IdleCheck, Cleanup, Notified, SleepTimeout, WakeUp, ExitUpdate, ExitCheck, fvars
<1>4. ASSUME Tick \/ Stop \/ Notify \/ Join \/ Start PROVE Same
  BY <1>4 DEF Tick, Stop, Notify, Join, Start, fvars
<1>5. ASSUME UNCHANGED vars PROVE Same
  BY <1>5 DEF vars, fvars
<1>6. ASSUME NEW t \in Threads, Frontend(t)
      PROVE  \/ \E kind \in {"log", "flush"} : Stamp(u, kind)
             \/ Publish(u) \/ QueueFull(u) \/ Same
  <2> HIDE DEF Same
  <2>1. \/ \E kind \in {"log", "flush"} : Stamp(t, kind)
        \/ Publish(t) \/ QueueFull(t)
        \/ Register(t) \/ FlushReturns(t) \/ Exit(t)
    BY <1>6 DEF Frontend
  <2> QED BY <1>1, <1>2, <2>1
<1> HIDE DEF Same
<1>7. \/ \E kind \in {"log", "flush"} : Stamp(u, kind)
      \/ Publish(u) \/ QueueFull(u) \/ Same
  BY <1>3, <1>4, <1>5, <1>6 DEF Next
<1> QED BY <1>7 DEF Same

\* Only Publish adds to what waits in a thread's context.
LEMMA WaitingShrinks ==
  ASSUME StructureInv, [Next]_vars, NEW u \in Threads
  PROVE  \/ Publish(u)
         \/ Waiting(u)' \subseteq Waiting(u)
<1>0. TypeOK /\ ContextsCached
  BY DEF StructureInv
<1>1. ASSUME NEW t \in Threads, Publish(t), t # u PROVE Waiting(u)' \subseteq Waiting(u)
  BY <1>0, <1>1, PublishEffect
<1>2. ASSUME ReadEvent PROVE Waiting(u)' \subseteq Waiting(u)
  BY <1>0, <1>2, ReadEffect
<1>3. ASSUME ProcessLowest PROVE Waiting(u)' \subseteq Waiting(u)
  <2>1. PICK t \in Threads, e \in Event :
          /\ \A v \in Threads \ {t} : Waiting(v)' = Waiting(v)
          /\ Waiting(t) = Waiting(t)' \cup {e}
    BY <1>0, <1>3, ProcessEffect
  <2>2. CASE t = u
    <3>1. Waiting(t)' \subseteq Waiting(t)
      BY <2>1
    <3> QED BY <2>2, <3>1
  <2>3. CASE t # u
    BY <2>1, <2>3
  <2> QED BY <2>2, <2>3
<1>4. ASSUME UNCHANGED <<queue, buffer, processed, sent>> PROVE Waiting(u)' \subseteq Waiting(u)
  BY <1>4 DEF Waiting
<1> QED BY <1>1, <1>2, <1>3, <1>4, DataSteps

\* Every step keeps the timestamps.
LEMMA TimestampsNext == StructureInv /\ [Next]_vars => Timestamps'
<1>a. ASSUME StructureInv, [Next]_vars PROVE \A e \in Range(processed') : e.at <= clock'
  <2>1. TypeOK /\ ContextsCached /\ Timestamps /\ Numbered
    BY <1>a DEF StructureInv
  <2>2. clock' \in Nat /\ clock' >= clock /\ clock \in Nat
    BY <1>a, <2>1, TimePasses, Lengths
  <2>3. \A e \in Range(processed) : e.at \in Nat /\ e.at <= clock
    <3>1. Range(processed) \subseteq Event
      BY <2>1, InRange DEF TypeOK
    <3> QED BY <2>1, <3>1, EventTyped DEF Timestamps
  <2>4. CASE ProcessLowest
    <3>1. PICK t \in Threads, e \in Event :
            e \in Range(buffer[t]) /\ Range(processed') = Range(processed) \cup {e}
      BY <2>1, <2>4, ProcessEffect
    <3>2. e.at <= clock /\ e.at \in Nat
      BY <2>1, <3>1, EventTyped DEF Timestamps, Waiting
    <3> QED BY <2>2, <2>3, <3>1, <3>2
  <2>5. CASE processed' = processed
    BY <2>2, <2>3, <2>5
  <2> QED BY <1>a, <2>4, <2>5, FlushSteps
<1> SUFFICES ASSUME StructureInv, [Next]_vars, NEW u \in Threads
             PROVE  \A e \in Waiting(u)' :
                      /\ e.ts <= e.at /\ e.at <= clock'
                      /\ \A d \in Waiting(u)' : d.seq < e.seq => d.ts <= e.ts
  BY <1>a DEF Timestamps
<1>1. TypeOK /\ Numbered /\ EventsStamped /\ Timestamps
  BY DEF StructureInv
<1>2. clock' \in Nat /\ clock' >= clock /\ clock \in Nat
  BY <1>1, TimePasses, Lengths
<1>3. \A d \in Waiting(u) : /\ d \in Event /\ d.seq <= sent[u] /\ d.seq \in Nat /\ d.ts \in Nat /\ d.at \in Nat
                            /\ d.ts <= d.at /\ d.at <= clock /\ d.at <= clock'
  <2>1. \A d \in Waiting(u) : d \in Event /\ d.seq <= sent[u] /\ d.ts <= d.at /\ d.at <= clock
    BY <1>1, WaitingNumbers DEF Timestamps
  <2> QED BY <1>2, <2>1, EventTyped
<1>4. \A d, e \in Waiting(u) : d.seq < e.seq => d.ts <= e.ts
  BY <1>1 DEF Timestamps
<1>5. CASE Publish(u)
  <2>1. PICK x \in Event :
          /\ x.ts = event[u].ts /\ x.seq = sent[u] + 1 /\ x.at = clock
          /\ Waiting(u)' = Waiting(u) \cup {x}
    BY <1>1, <1>5, PublishEffect
  <2>2. event[u].ts <= clock /\ \A d \in Waiting(u) : d.ts <= event[u].ts
    BY <1>1, <1>5 DEF Publish, EventsStamped
  <2>3. clock' = clock /\ sent[u] \in Nat
    BY <1>1, <1>5, Lengths DEF Publish
  <2>4. x.ts <= x.at /\ x.at <= clock' /\ \A d \in Waiting(u) : d.ts <= x.ts
    BY <1>2, <2>1, <2>2, <2>3
  <2>5. \A d \in Waiting(u) : ~(x.seq < d.seq)
    BY <1>3, <2>1, <2>3
  <2>6. x.seq \in Nat
    BY EventTyped
  <2>7. ~(x.seq < x.seq)
    BY <2>6
  <2> QED BY <1>3, <1>4, <2>1, <2>4, <2>5, <2>7
<1>6. CASE Waiting(u)' \subseteq Waiting(u)
  BY <1>3, <1>4, <1>6
<1> QED BY <1>5, <1>6, WaitingShrinks

\* Every step keeps the events that are about to be published in front of time.
LEMMA StampedNext == StructureInv /\ [Next]_vars => EventsStamped'
<1> SUFFICES ASSUME StructureInv, [Next]_vars, NEW u \in Threads, tpc'[u] \in {"stamped", "blocked"}
             PROVE  /\ event'[u].thread = u /\ event'[u].kind # "none" /\ event'[u].ts <= clock'
                    /\ \A e \in Waiting(u)' : e.ts <= event'[u].ts
  BY DEF EventsStamped
<1>1. TypeOK /\ Numbered /\ EventsStamped /\ Timestamps
  BY DEF StructureInv
<1>2. clock' \in Nat /\ clock' >= clock /\ clock \in Nat
  BY <1>1, TimePasses, Lengths
<1>3. \A d \in Waiting(u) : d.ts \in Nat /\ d.ts <= clock
  <2>1. \A d \in Waiting(u) : d \in Event /\ d.ts <= d.at /\ d.at <= clock
    BY <1>1, WaitingNumbers DEF Timestamps
  <2> QED BY <1>2, <2>1, EventTyped
<1>4. ~Publish(u)
  <2> SUFFICES ASSUME Publish(u) PROVE FALSE
    OBVIOUS
  <2>1. tpc'[u] \in {"waiting", "idle"}
    BY <1>1 DEF Publish, TypeOK
  <2> QED BY <2>1
<1>5. Waiting(u)' \subseteq Waiting(u)
  BY <1>4, WaitingShrinks
<1>6. CASE \E kind \in {"log", "flush"} : Stamp(u, kind)
  <2>1. PICK kind \in {"log", "flush"} : Stamp(u, kind)
    BY <1>6
  <2>2. event'[u].kind = kind /\ event'[u].thread = u /\ event'[u].ts = clock
    BY <1>1, <2>1, StampEffect
  <2> QED BY <1>2, <1>3, <1>5, <2>2
<1>7. CASE QueueFull(u)
  <2>1. \/ event' = event
        \/ event[u].kind = "flush" /\ event'[u].kind = "flush" /\ event'[u].thread = event[u].thread /\ event'[u].ts = clock
    BY <1>1, <1>7, QueueFullEffect
  <2>2. /\ event[u].thread = u /\ event[u].kind # "none" /\ event[u].ts <= clock
        /\ \A e \in Waiting(u) : e.ts <= event[u].ts
    BY <1>1, <1>7 DEF QueueFull, EventsStamped
  <2>3. event[u].ts \in Nat
    BY <1>1, EventTyped DEF TypeOK
  <2> QED BY <1>2, <1>3, <1>5, <2>1, <2>2, <2>3
<1>8. CASE event'[u] = event[u] /\ (tpc'[u] = tpc[u] \/ tpc'[u] \in {"idle", "exited"})
  <2>1. tpc[u] \in {"stamped", "blocked"}
    BY <1>8
  <2>2. /\ event[u].thread = u /\ event[u].kind # "none" /\ event[u].ts <= clock
        /\ \A e \in Waiting(u) : e.ts <= event[u].ts
    BY <1>1, <2>1 DEF EventsStamped
  <2>3. event[u].ts \in Nat
    BY <1>1, EventTyped DEF TypeOK
  <2> QED BY <1>2, <1>5, <1>8, <2>2, <2>3
<1> QED BY <1>4, <1>6, <1>7, <1>8, StampSteps

-----------------------------------------------------------------------------
(***************************************************************************)
(* Nothing is lost.                                                        *)
(***************************************************************************)

\* What holds at the start.
LEMMA InitFacts ==
  ASSUME Init
  PROVE  /\ options \in Config /\ options.preallocated \subseteq Threads /\ IsFiniteSet(options.preallocated)
         /\ contexts \in Seq(Threads) /\ Range(contexts) = options.preallocated
         /\ Range(cache) = {} /\ Len(cache) = 0 /\ Len(processed) = 0 /\ Range(processed) = {}
         /\ \A t \in Threads : /\ Len(queue[t]) = 0 /\ Len(buffer[t]) = 0
                               /\ Range(queue[t]) = {} /\ Range(buffer[t]) = {} /\ Waiting(t) = {}
<1>1. options \in Config
  BY ConstantsAssumption DEF Init
<1>2. options.preallocated \in SUBSET Threads
  BY <1>1 DEF Config
<1>3. IsFiniteSet(options.preallocated)
  BY <1>2, ConstantsAssumption, FS_Subset
<1>4. contexts \in Seq(options.preallocated) /\ Range(contexts) = options.preallocated
  BY <1>3, SetToSeqRight DEF Init
<1>5. contexts \in Seq(Threads)
  BY <1>2, <1>4
<1>6. Len(<<>>) = 0 /\ Range(<<>>) = {}
  BY DEF Range
<1>7. cache = <<>> /\ processed = <<>> /\ \A t \in Threads : queue[t] = <<>> /\ buffer[t] = <<>>
  BY DEF Init
<1> QED BY <1>1, <1>2, <1>3, <1>4, <1>5, <1>6, <1>7 DEF Waiting

\* The structure holds at the start ...
LEMMA StructureInit == Init => StructureInv
<1> SUFFICES ASSUME Init PROVE StructureInv
  OBVIOUS
<1>1. /\ Grace \in Nat /\ MaxTime \in Nat /\ HardLimit \in Nat \ {0} /\ QueueCapacity \in Nat \ {0}
      /\ options.maxStops \in Nat
  BY InitFacts, ConstantsAssumption DEF Config, Grace, MaxTime, HardLimit
<1>2. TypeOK
  <2>1. /\ options \in Configs /\ clock \in 0..MaxTime /\ tsNow \in 0..MaxTime
        /\ tpc \in [Threads -> {"idle", "stamped", "blocked", "waiting", "exited"}]
        /\ sent \in [Threads -> Nat]
    BY <1>1 DEF Init
  <2>2. event \in [Threads -> Event]
    BY NoEventTyped DEF Init
  <2>3. queue \in [Threads -> Seq(Event)] /\ buffer \in [Threads -> Seq(Event)]
    BY DEF Init
  <2>4. \A t \in Threads : Len(queue[t]) <= QueueCapacity /\ Len(buffer[t]) <= HardLimit
    BY <1>1, InitFacts
  <2>5. processed \in Seq(Event) /\ flushed \in 0..Len(processed) /\ cache \in Seq(Threads)
    BY InitFacts DEF Init
  <2>6. pos \in 1..(Len(cache) + 1) /\ read \in 0..QueueCapacity /\ stops \in 0..options.maxStops
    BY <1>1, InitFacts DEF Init
  <2>7. contexts \in Seq(Threads) /\ {newFlag, exiting, running, wakeFlag} \subseteq BOOLEAN
    BY InitFacts DEF Init
  <2>8. /\ bpc = "poll" /\ spc = "idle" /\ flushFlag \in [Threads -> BOOLEAN]
        /\ mark \in [Threads -> SUBSET Event] /\ stopMark \subseteq Event
    BY DEF Init
  <2> QED BY <2>1, <2>2, <2>3, <2>4, <2>5, <2>6, <2>7, <2>8 DEF TypeOK
<1>3. ModesRight
  BY DEF Init, ModesRight
<1>4. ContextsCached
  <2>1. newFlag \/ Range(contexts) = {}
    BY InitFacts DEF Init
  <2> QED BY <2>1 DEF Init, ContextsCached
<1>5. \A t \in Threads : sent[t] = 0 /\ Out(t) = 0
  BY InitFacts DEF Init, Out
<1>6. Numbered
  BY <1>5, InitFacts DEF Numbered
<1>7. ProcessedInOrder
  BY <1>5, InitFacts DEF ProcessedInOrder
<1>8. EventsStamped
  BY DEF Init, EventsStamped
<1>9. Timestamps
  BY InitFacts DEF Timestamps
<1> QED BY <1>2, <1>3, <1>4, <1>6, <1>7, <1>8, <1>9 DEF StructureInv

\* ... and every step keeps it.
LEMMA StructureNext == StructureInv /\ [Next]_vars => StructureInv'
BY TypeNext, ModesNext, CachedNext, NumberedNext, ProcessedNext, TimestampsNext, StampedNext
     DEF StructureInv

\* The structure holds in every run.
THEOREM StructureInvariance == Spec => []StructureInv
<1>1. Init => StructureInv
  BY StructureInit
<1>2. StructureInv /\ [Next]_vars => StructureInv'
  BY StructureNext
<1> QED BY <1>1, <1>2, PTL DEF Spec

\* With the structure nothing is lost and no two events of a thread change places.
LEMMA StructureMeans == StructureInv => NothingLostOrReordered
<1> SUFFICES ASSUME StructureInv PROVE NothingLostOrReordered
  OBVIOUS
<1>1. TypeOK /\ Numbered /\ ProcessedInOrder
  BY DEF StructureInv
<1> DEFINE done(t) == sent[t] - Len(Pending(t))
           OfThread(t) == {i \in 1..Len(processed) : processed[i].thread = t}
<1>2. ASSUME NEW t \in Threads
      PROVE  /\ \A i \in 1..Len(Pending(t)) : Pending(t)[i].thread = t /\ Pending(t)[i].seq = done(t) + i
             /\ {processed[i].seq : i \in OfThread(t)} = 1..done(t)
             /\ \A i, j \in OfThread(t) : i < j => processed[i].seq < processed[j].seq
  <2>1. /\ queue[t] \in Seq(Event) /\ buffer[t] \in Seq(Event) /\ Out(t) \in Nat
        /\ \A i \in 1..Len(buffer[t]) : buffer[t][i].thread = t /\ buffer[t][i].seq = Out(t) + i
        /\ \A i \in 1..Len(queue[t]) : queue[t][i].thread = t /\ queue[t][i].seq = Out(t) + Len(buffer[t]) + i
    BY <1>1, Lengths DEF Numbered
  <2>2. PICK b \in Nat, q \in Nat, s \in Nat, o \in Nat :
          b = Len(buffer[t]) /\ q = Len(queue[t]) /\ s = sent[t] /\ o = Out(t)
    BY <1>1, <2>1, Lengths
  <2>3. Len(Pending(t)) = b + q
    BY <2>1, <2>2 DEF Pending
  <2>4. o = s - b - q
    BY <2>2 DEF Out
  <2>5. s - (b + q) = o
    BY <2>4
  <2>6. done(t) = o
    BY <2>2, <2>3, <2>5
  <2>7. ASSUME NEW i \in 1..(b + q)
        PROVE  Pending(t)[i] = IF i <= b THEN buffer[t][i] ELSE queue[t][i - b]
    BY <2>1, <2>2 DEF Pending
  <2>8. ASSUME NEW i \in 1..(b + q) PROVE Pending(t)[i].thread = t /\ Pending(t)[i].seq = o + i
    <3>1. CASE i <= b
      <4>1. i \in 1..b /\ Pending(t)[i] = buffer[t][i]
        BY <2>7, <3>1
      <4> QED BY <2>1, <2>2, <4>1
    <3>2. CASE ~(i <= b)
      <4>1. i - b \in 1..q /\ Pending(t)[i] = queue[t][i - b]
        BY <2>7, <3>2
      <4>2. Pending(t)[i].thread = t /\ Pending(t)[i].seq = o + b + (i - b)
        BY <2>1, <2>2, <4>1
      <4>3. o + b + (i - b) = o + i
        OBVIOUS
      <4> QED BY <4>2, <4>3
    <3> QED BY <3>1, <3>2
  <2>9. /\ \A i \in 1..Len(processed) : processed[i].thread = t => processed[i].seq \in 1..o
        /\ \A n \in 1..o : \E i \in 1..Len(processed) : processed[i].thread = t /\ processed[i].seq = n
        /\ \A i, j \in 1..Len(processed) :
             processed[i].thread = t /\ processed[j].thread = t /\ i < j => processed[i].seq < processed[j].seq
    BY <1>1, <2>2 DEF ProcessedInOrder
  <2>10. {processed[i].seq : i \in OfThread(t)} = 1..o
    BY <2>9
  <2>11. \A i, j \in OfThread(t) : i < j => processed[i].seq < processed[j].seq
    BY <2>9
  <2> HIDE DEF done, OfThread
  <2> QED BY <2>3, <2>6, <2>8, <2>10, <2>11
<1> QED BY <1>1, <1>2 DEF NothingLostOrReordered

\* No event is lost, processed twice or overtaken by a later one of its thread,
\* and the queues and buffers stay within their capacities: from Publish
\* through ReadEvent to ProcessLowest, whatever the other threads do meanwhile.
THEOREM NothingIsLost == Spec => []NothingLostOrReordered
BY StructureInvariance, StructureMeans, PTL

-----------------------------------------------------------------------------
(***************************************************************************)
(* A stop drains.                                                          *)
(***************************************************************************)

\* The published events have the numbers of what their threads sent.
LEMMA PublishedNumbers ==
  ASSUME StructureInv, NEW e \in Published
  PROVE  e \in Event /\ e.seq <= sent[e.thread]
<1>1. TypeOK /\ Numbered /\ ProcessedInOrder
  BY DEF StructureInv
<1>2. e \in Event /\ e.thread \in Threads
  BY <1>1, PublishedTyped, EventTyped
<1>3. CASE e \in Range(processed)
  <2>1. PICK i \in 1..Len(processed) : processed[i] = e
    BY <1>1, <1>3, InRange DEF TypeOK
  <2>2. e.seq \in 1..Out(e.thread)
    BY <1>1, <1>2, <2>1 DEF ProcessedInOrder
  <2>3. PICK b \in Nat, q \in Nat, s \in Nat :
          b = Len(buffer[e.thread]) /\ q = Len(queue[e.thread]) /\ s = sent[e.thread]
    BY <1>1, <1>2, Lengths
  <2>4. Out(e.thread) = s - b - q
    BY <2>3 DEF Out
  <2>5. s - b - q <= s
    OBVIOUS
  <2>6. e.seq \in 1..(s - b - q) /\ s - b - q \in Int
    BY <2>2, <2>4
  <2>7. e.seq <= s
    BY <2>5, <2>6
  <2> QED BY <1>2, <2>3, <2>7
<1>4. CASE e \notin Range(processed)
  <2>1. PICK t \in Threads : e \in Waiting(t)
    BY <1>4 DEF Published, Waiting
  <2> QED BY <1>1, <1>2, <2>1, WaitingNumbers
<1> QED BY <1>3, <1>4

\* An event that is published is a new one.
LEMMA NewEvent ==
  ASSUME StructureInv, NEW t \in Threads, NEW e, e.thread = t, e.seq = sent[t] + 1
  PROVE  e \notin Published
<1> SUFFICES ASSUME e \in Published PROVE FALSE
  OBVIOUS
<1>1. e.seq <= sent[t]
  BY PublishedNumbers
<1>2. sent[t] \in Nat
  BY Lengths DEF StructureInv
<1> QED BY <1>1, <1>2

\* Published events stay published.
LEMMA PublishedGrows == StructureInv /\ [Next]_vars => Published \subseteq Published'
<1> SUFFICES ASSUME StructureInv, [Next]_vars PROVE Published \subseteq Published'
  OBVIOUS
<1>0. TypeOK /\ ContextsCached
  BY DEF StructureInv
<1>1. ASSUME NEW t \in Threads, Publish(t) PROVE Published \subseteq Published'
  BY <1>0, <1>1, PublishEffect
<1>2. CASE ReadEvent
  BY <1>0, <1>2, ReadEffect
<1>3. CASE ProcessLowest
  BY <1>0, <1>3, ProcessEffect
<1>4. CASE UNCHANGED <<queue, buffer, processed, sent>>
  BY <1>4 DEF Published
<1> QED BY <1>1, <1>2, <1>3, <1>4, DataSteps

\* Flushed events stay flushed.
LEMMA FlushedGrows == StructureInv /\ [Next]_vars => Flushed \subseteq Flushed'
<1> SUFFICES ASSUME StructureInv, [Next]_vars PROVE Flushed \subseteq Flushed'
  OBVIOUS
<1>0. TypeOK /\ ContextsCached
  BY DEF StructureInv
<1>1. PICK n \in Nat, m \in Nat : n = Len(processed) /\ m = flushed /\ m <= n
  BY <1>0, Lengths
<1>2. CASE processed' = processed /\ flushed' \in {flushed, Len(processed)}
  <2>1. flushed' \in Nat /\ m <= flushed'
    BY <1>1, <1>2
  <2>2. 1..m \subseteq 1..flushed'
    BY <2>1
  <2> QED BY <1>1, <1>2, <2>2 DEF Flushed
<1>3. CASE ProcessLowest
  <2>1. PICK t \in Threads, e \in Event :
          /\ \A i \in 1..Len(processed) : processed'[i] = processed[i]
          /\ IF e.kind = "flush" THEN flushed' = Len(processed) ELSE UNCHANGED flushed
    BY <1>0, <1>3, ProcessEffect
  <2>2. flushed' \in Nat /\ m <= flushed'
    BY <1>1, <2>1
  <2>3. 1..m \subseteq 1..flushed' /\ 1..m \subseteq 1..n
    BY <1>1, <2>2
  <2> QED BY <1>1, <2>1, <2>3 DEF Flushed
<1> QED BY <1>2, <1>3, FlushSteps

\* The contexts that _exit does not look at have nothing that was published before stop.
Undrained == \A t \in Threads \ Range(cache) : Waiting(t) \cap stopMark = {}

\* In front of the last look every context that has an event is in the cache.
LEMMA UndrainedNext ==
  ASSUME StructureInv, Drains, options.waitForEmpty, [Next]_vars, bpc' = "exitcheck"
  PROVE  Undrained'
<1>1. TypeOK /\ ModesRight /\ ContextsCached
  BY DEF StructureInv
<1>2. CASE ExitUpdate
  <2>1. spc # "stopped"
    BY <1>1, <1>2 DEF ExitUpdate, ModesRight
  <2>2. /\ queue' = queue /\ buffer' = buffer /\ stopMark' = stopMark
        /\ (cache' = contexts \/ (cache' = cache /\ ~newFlag))
    BY <1>2 DEF ExitUpdate, UpdateCache, svars
  <2>3. Range(contexts) \subseteq Range(cache')
    BY <1>1, <2>1, <2>2 DEF ContextsCached
  <2>4. ASSUME NEW t \in Threads \ Range(cache') PROVE Waiting(t)' = {}
    <3>1. queue[t] = <<>> /\ buffer[t] = <<>>
      BY <1>1, <2>3, <2>4 DEF ContextsCached
    <3>2. Range(<<>>) = {}
      BY DEF Range
    <3> QED BY <2>2, <3>1, <3>2 DEF Waiting
  <2> QED BY <2>4 DEF Undrained
<1>3. CASE bpc = "exitcheck"
  <2>1. /\ Undrained /\ stopMark \subseteq Published /\ ~running /\ spc # "idle"
    BY <1>1, <1>3 DEF Drains, ModesRight, Undrained
  <2>2. cache' = cache /\ stopMark' = stopMark
    BY <1>3, <2>1 DEF Next, Tick, Frontend, Stamp, Register, Publish, QueueFull, FlushReturns, Exit,
       Backend, Poll, Cutoff, ReadEvent, NextQueue, EndPopulate, BatchUpdate, BatchCheck, ProcessLowest,
       Idle, IdleCheck, Cleanup, Notified, SleepTimeout, WakeUp, ExitUpdate, ExitCheck, Stop, Notify, Join,
       Start, vars, bvars, svars
  <2>3. ASSUME NEW u \in Threads \ Range(cache) PROVE Waiting(u)' \cap stopMark = {}
    <3>1. Waiting(u) \cap stopMark = {}
      BY <2>1 DEF Undrained
    <3>2. CASE Publish(u)
      <4>1. PICK e \in Event : /\ e.thread = event[u].thread /\ e.seq = sent[u] + 1
                               /\ Waiting(u)' = Waiting(u) \cup {e}
        BY <1>1, <3>2, PublishEffect
      <4>2. event[u].thread = u
        BY <3>2 DEF Publish, StructureInv, EventsStamped
      <4>3. e \notin stopMark
        BY <2>1, <4>1, <4>2, NewEvent
      <4> QED BY <3>1, <4>1, <4>3
    <3>3. CASE Waiting(u)' \subseteq Waiting(u)
      BY <3>1, <3>3
    <3> QED BY <3>2, <3>3, WaitingShrinks
  <2> QED BY <2>2, <2>3 DEF Undrained
<1>4. bpc = "exitcheck" \/ ExitUpdate
  BY DEF Next, Tick, Frontend, Stamp, Register, Publish, QueueFull, FlushReturns, Exit,
     Backend, Poll, Cutoff, ReadEvent, NextQueue, EndPopulate, WhatNext, BatchUpdate, BatchCheck, LoopTop,
     ProcessLowest, Idle, IdleCheck, Cleanup, Notified, SleepTimeout, WakeUp, ExitUpdate, ExitCheck, Stop,
     Notify, Join, Start, vars, bvars, svars
<1> QED BY <1>2, <1>3, <1>4

\* Every step keeps what a stop has to drain.
LEMMA DrainsNext == StructureInv /\ Drains /\ [Next]_vars => Drains'
<1> SUFFICES ASSUME StructureInv, Drains, [Next]_vars PROVE Drains'
  OBVIOUS
<1>1. TypeOK /\ ModesRight /\ ContextsCached
  BY DEF StructureInv
<1>2. options' = options
  BY TimePasses
<1>3. stopMark' \in {stopMark, Published} /\ (stopMark' # stopMark => Stop)
  BY DEF Next, Tick, Frontend, Stamp, Register, Publish, QueueFull, FlushReturns, Exit,
     Backend, Poll, Cutoff, ReadEvent, NextQueue, EndPopulate, BatchUpdate, BatchCheck,
     ProcessLowest, Idle, IdleCheck, Cleanup, Notified, SleepTimeout, WakeUp, ExitUpdate, ExitCheck, Stop,
     Notify, Join, Start, vars, svars
<1>4. stopMark' \subseteq Published'
  BY <1>3, PublishedGrows DEF Drains
<1>5. ASSUME options.waitForEmpty, bpc' = "exitcheck" PROVE \A t \in Threads \ Range(cache)' : Waiting(t)' \cap stopMark' = {}
  BY <1>5, UndrainedNext DEF Undrained
<1>6. ASSUME options.waitForEmpty, exiting', bpc' \in {"cleanup", "done"} PROVE stopMark' \subseteq Flushed'
  <2>1. \/ ExitCheck
        \/ exiting /\ bpc \in {"cleanup", "done"}
    BY <1>1, <1>6 DEF ModesRight, Next, Tick, Frontend, Stamp, Register, Publish, QueueFull,
         FlushReturns, Exit,
       Backend, Poll, Cutoff, ReadEvent, NextQueue, EndPopulate, WhatNext, BatchUpdate, BatchCheck, LoopTop,
       ProcessLowest, Idle, IdleCheck, Cleanup, Notified, SleepTimeout, WakeUp, ExitUpdate, ExitCheck, Stop,
       Notify, Join, Start, vars, bvars, svars
  <2>2. CASE ExitCheck
    <3>1. /\ bpc = "exitcheck" /\ AllEmpty /\ flushed' = Len(processed) /\ processed' = processed
          /\ stopMark' = stopMark
      BY <1>6, <2>2 DEF ExitCheck, SinksFlushed, svars
    <3>2. ASSUME NEW t \in Threads PROVE Waiting(t) \cap stopMark = {}
      <4>1. CASE t \in Range(cache)
        <5>1. Range(<<>>) = {}
          BY DEF Range
        <5> QED BY <3>1, <4>1, <5>1 DEF AllEmpty, Waiting
      <4>2. CASE t \notin Range(cache)
        BY <1>6, <3>1, <4>2 DEF Drains
      <4> QED BY <4>1, <4>2
    <3>3. stopMark \subseteq Range(processed)
      BY <3>2 DEF Drains, Published, Waiting
    <3>4. Range(processed) = {processed[i] : i \in 1..Len(processed)}
      BY <1>1, InRange DEF TypeOK
    <3>5. Flushed' = Range(processed)
      BY <3>1, <3>4 DEF Flushed
    <3> QED BY <3>1, <3>3, <3>5
  <2>3. CASE exiting /\ bpc \in {"cleanup", "done"}
    <3>1. stopMark' = stopMark
      BY <1>1, <1>3, <2>3 DEF Stop, ModesRight
    <3>2. stopMark \subseteq Flushed
      BY <1>6, <2>3 DEF Drains
    <3> QED BY <3>1, <3>2, FlushedGrows
  <2> QED BY <2>1, <2>2, <2>3
<1> QED BY <1>2, <1>4, <1>5, <1>6 DEF Drains

\* At the start nothing has to be drained.
LEMMA DrainsInit == Init => Drains
<1> SUFFICES ASSUME Init PROVE Drains
  OBVIOUS
<1> QED BY DEF Init, Drains

\* When Backend::stop has joined the backend, everything that was published
\* before the call is with the sinks and flushed, whoever logs meanwhile and
\* whenever its context came to the backend's notice.
THEOREM StopHasDrained == Spec => []StopDrains
<1>1. Init => StructureInv /\ Drains
  BY StructureInit, DrainsInit
<1>2. StructureInv /\ Drains /\ [Next]_vars => (StructureInv /\ Drains)'
  BY StructureNext, DrainsNext
<1>3. StructureInv /\ Drains => StopDrains
  <2>1. ASSUME ModesRight, spc = "stopped" PROVE exiting /\ bpc = "done"
    BY <2>1 DEF ModesRight
  <2> QED BY <2>1 DEF StructureInv, Drains, StopDrains
<1> QED BY <1>1, <1>2, <1>3, PTL DEF Spec

-----------------------------------------------------------------------------
(***************************************************************************)
(* What the backend has looked at when it processes an event.              *)
(***************************************************************************)

\* Few steps change the list of contexts, the cache or where the backend is.
LEMMA PreallocatedNext == StructureInv /\ AllContextsCached /\ [Next]_vars => AllContextsCached'
<1> SUFFICES ASSUME StructureInv, AllContextsCached, [Next]_vars, options.preallocated = Threads
             PROVE  /\ \A t \in Threads : tpc'[t] # "exited" => t \in Range(contexts')
                    /\ bpc' \in {"cutoff", "read"} /\ ~exiting' => Range(contexts') \subseteq Range(cache')
  BY TimePasses DEF AllContextsCached
<1>1. TypeOK /\ ModesRight /\ ContextsCached
  BY DEF StructureInv
<1>2. \A t \in Threads : tpc[t] # "exited" => t \in Range(contexts)
  BY DEF AllContextsCached
<1>3. ASSUME NEW t \in Threads PROVE tpc[t] = "exited" => tpc'[t] = "exited"
  <2>1. ASSUME NEW u \in Threads, Frontend(u) PROVE tpc[t] = "exited" => tpc'[t] = "exited"
    BY <1>1, <2>1 DEF Frontend, Stamp, Register, Publish, QueueFull, FlushReturns, Exit, TypeOK, fvars
  <2>2. ASSUME Backend \/ SleepTimeout PROVE tpc' = tpc
    BY <2>2 DEF Backend, Poll, Cutoff, ReadEvent, NextQueue, EndPopulate, BatchUpdate, BatchCheck,
         ProcessLowest,
       Idle, IdleCheck, Cleanup, Notified, SleepTimeout, WakeUp, ExitUpdate, ExitCheck, fvars
  <2>3. ASSUME Tick \/ Stop \/ Notify \/ Join \/ Start \/ UNCHANGED vars PROVE tpc' = tpc
    BY <2>3 DEF Tick, Stop, Notify, Join, Start, vars, fvars
  <2> QED BY <2>1, <2>2, <2>3 DEF Next
<1>4. ASSUME NEW u \in Threads, Register(u) PROVE FALSE
  BY <1>1, <1>2, <1>4, Registered DEF Register
<1>5. CASE ProcessLowest
  <2>1. bpc' \in {"poll", "batch"} /\ tpc' = tpc /\ queue' = queue
    BY <1>5 DEF ProcessLowest, fvars
  <2>2. PICK e \in Event : IF e.kind = "flush" THEN CleanupContexts(buffer') ELSE UNCHANGED <<contexts, cache>>
    BY <1>1, <1>5, ProcessEffect
  <2>3. CASE e.kind = "flush"
    <3> DEFINE b == buffer'
    <3>1. CleanupContexts(b)
      BY <2>2, <2>3
    <3> HIDE DEF b
    <3>2. Range(contexts') = Range(contexts) \ {t \in Range(cache) : InvalidAndEmpty(t, b)}
      BY <1>1, <3>1, CleanupEffect
    <3> QED BY <1>2, <2>1, <3>2 DEF InvalidAndEmpty
  <2>4. CASE e.kind # "flush"
    BY <1>2, <2>1, <2>2, <2>4
  <2> QED BY <2>3, <2>4
<1>6. CASE Cleanup
  <2>1. bpc' \in {"done", "sleep"} /\ tpc' = tpc
    BY <1>6 DEF Cleanup, fvars
  <2>2. Range(contexts') = Range(contexts) \ {t \in Range(cache) : InvalidAndEmpty(t, buffer)}
    BY <1>1, <1>6, CleanupEffect DEF Cleanup
  <2> QED BY <1>2, <2>1, <2>2 DEF InvalidAndEmpty
<1>7. CASE Poll
  <2>1. contexts' = contexts /\ tpc' = tpc
    BY <1>7 DEF Poll, fvars
  <2>2. running => spc # "stopped"
    BY <1>1 DEF ModesRight
  <2>3. bpc' = "cutoff" => running /\ (cache' = contexts \/ (cache' = cache /\ ~newFlag))
    BY <1>7 DEF Poll, UpdateCache
  <2>4. bpc' \in {"cutoff", "exit"}
    BY <1>7 DEF Poll
  <2>5. bpc' = "cutoff" => Range(contexts) \subseteq Range(cache')
    BY <1>1, <2>2, <2>3 DEF ContextsCached
  <2> QED BY <1>2, <2>1, <2>4, <2>5
<1>8. ASSUME contexts' = contexts,
             \/ bpc' \notin {"cutoff", "read"}
             \/ exiting'
             \/ cache' = cache /\ bpc \in {"cutoff", "read"} /\ exiting' = exiting
      PROVE  /\ \A t \in Threads : tpc'[t] # "exited" => t \in Range(contexts')
             /\ bpc' \in {"cutoff", "read"} /\ ~exiting' => Range(contexts') \subseteq Range(cache')
  BY <1>2, <1>3, <1>8 DEF AllContextsCached
<1>9. CASE Tick \/ Stop \/ Notify \/ UNCHANGED vars
  BY <1>1, <1>8, <1>9 DEF Tick, Stop, Notify, vars, bvars, TypeOK
<1>10. ASSUME NEW t \in Threads, Frontend(t), ~Register(t)
       PROVE  contexts' = contexts /\ bpc' = bpc /\ exiting' = exiting /\ cache' = cache
  BY <1>10 DEF Frontend, Stamp, Publish, QueueFull, FlushReturns, Exit, bvars
<1>11. ASSUME NEW t \in Threads, Frontend(t)
       PROVE  contexts' = contexts /\ bpc' = bpc /\ exiting' = exiting /\ cache' = cache
  BY <1>4, <1>10, <1>11
<1>12. CASE Cutoff \/ ReadEvent \/ NextQueue \/ EndPopulate \/ BatchUpdate \/ BatchCheck
  BY <1>8, <1>12 DEF Cutoff, ReadEvent, NextQueue, EndPopulate, WhatNext, BatchUpdate, BatchCheck,
       LoopTop
<1>13. CASE Idle \/ IdleCheck \/ Notified \/ SleepTimeout \/ ExitUpdate \/ ExitCheck
  BY <1>1, <1>8, <1>13
       DEF Idle, IdleCheck, Notified, SleepTimeout, WakeUp, ExitUpdate, ExitCheck, ModesRight
<1>14. CASE Join \/ Start
  BY <1>8, <1>14 DEF Join, Start
<1>15. ASSUME NEW t \in Threads, Frontend(t)
       PROVE  /\ \A u \in Threads : tpc'[u] # "exited" => u \in Range(contexts')
              /\ bpc' \in {"cutoff", "read"} /\ ~exiting' => Range(contexts') \subseteq Range(cache')
  BY <1>8, <1>11, <1>15
<1> QED BY <1>5, <1>6, <1>7, <1>9, <1>12, <1>13, <1>14, <1>15 DEF Next, Backend

\* How the backend gets to where it looks at queues.
LEMMA PhaseSteps ==
  ASSUME StructureInv, [Next]_vars
  PROVE  /\ Cutoff \/ EndPopulate \/ tsNow' = tsNow
         /\ bpc' = "read" => \/ Cutoff
                            \/ /\ bpc = "read" /\ cache' = cache /\ tsNow' = tsNow
                               /\ ReadEvent \/ NextQueue \/ (pos' = pos /\ read' = read)
         /\ bpc' = "pending" => BatchUpdate \/ (bpc = "pending" /\ cache' = cache)
         /\ bpc' = "process" => BatchCheck \/ bpc = "process"
         /\ bpc' = "one" => EndPopulate \/ bpc = "one"
<1>1. ASSUME NEW t \in Threads, Frontend(t)
      PROVE  bpc' = bpc /\ cache' = cache /\ tsNow' = tsNow /\ pos' = pos /\ read' = read
  BY <1>1 DEF Frontend, Stamp, Register, Publish, QueueFull, FlushReturns, Exit, bvars
<1>2. ASSUME Tick \/ Stop \/ Notify \/ UNCHANGED vars
      PROVE  bpc' = bpc /\ cache' = cache /\ tsNow' = tsNow /\ pos' = pos /\ read' = read
  BY <1>2 DEF Tick, Stop, Notify, vars, bvars
<1>3. ASSUME Join PROVE bpc' = "done" /\ tsNow' = tsNow
  BY <1>3 DEF Join
<1>4. ASSUME Start PROVE bpc' = "poll" /\ tsNow' = tsNow
  BY <1>4 DEF Start
<1>5. ASSUME Poll \/ BatchUpdate \/ BatchCheck \/ ProcessLowest
      PROVE  /\ bpc' \in {"cutoff", "exit", "poll", "batch", "pending", "process"} /\ tsNow' = tsNow
             /\ bpc' = "pending" => BatchUpdate
             /\ bpc' = "process" => BatchCheck
  BY <1>5 DEF Poll, BatchUpdate, BatchCheck, ProcessLowest, LoopTop
<1>6. ASSUME Idle \/ IdleCheck \/ Cleanup \/ Notified \/ SleepTimeout \/ ExitUpdate \/ ExitCheck
      PROVE  /\ bpc' \in {"idlecheck", "cleanup", "poll", "done", "sleep", "exitcheck", "cutoff"}
             /\ tsNow' = tsNow
  BY <1>6 DEF Idle, IdleCheck, Cleanup, Notified, SleepTimeout, WakeUp, ExitUpdate, ExitCheck
<1>7. ASSUME EndPopulate PROVE bpc' \in {"exit", "idle", "one", "batch"}
  BY <1>7 DEF EndPopulate, WhatNext
<1>8. ASSUME Cutoff PROVE bpc' = "read"
  BY <1>8 DEF Cutoff
<1>9. ASSUME ReadEvent \/ NextQueue PROVE bpc = "read" /\ bpc' = "read" /\ cache' = cache /\ tsNow' = tsNow
  BY <1>9 DEF ReadEvent, NextQueue
<1> QED BY <1>1, <1>2, <1>3, <1>4, <1>5, <1>6, <1>7, <1>8, <1>9 DEF Next, Backend

\* What is buffered.
LEMMA BufferedTyped ==
  ASSUME TypeOK
  PROVE  \A x \in Buffered \cup Range(processed) : x \in Event /\ x.ts \in Nat /\ x.at \in Nat
<1>1. \A t \in Threads : Range(buffer[t]) \subseteq Event
  <2>1. \A t \in Threads : buffer[t] \in Seq(Event)
    BY DEF TypeOK
  <2> QED BY <2>1, InRange
<1>2. Range(processed) \subseteq Event
  BY InRange DEF TypeOK
<1> QED BY <1>1, <1>2, EventTyped DEF Buffered

\* Only ReadEvent adds to what is buffered or processed.
LEMMA BufferedShrinks ==
  ASSUME StructureInv, [Next]_vars, ~ReadEvent
  PROVE  /\ Buffered' \subseteq Buffered
         /\ Buffered' \cup Range(processed') \subseteq Buffered \cup Range(processed)
<1>1. TypeOK /\ ContextsCached
  BY DEF StructureInv
<1>2. CASE ProcessLowest
  <2>1. PICK t \in Threads, e \in Event :
          /\ e \in Range(buffer[t]) /\ Range(buffer[t]) = Range(buffer'[t]) \cup {e}
          /\ \A u \in Threads \ {t} : buffer'[u] = buffer[u]
          /\ Range(processed') = Range(processed) \cup {e}
    BY <1>1, <1>2, ProcessEffect
  <2>2. \A u \in Threads : Range(buffer'[u]) \subseteq Range(buffer[u])
    BY <2>1
  <2>3. Buffered' \subseteq Buffered
    BY <2>2 DEF Buffered
  <2>4. e \in Buffered
    BY <2>1 DEF Buffered
  <2> QED BY <2>1, <2>3, <2>4
<1>3. ASSUME NEW t \in Threads, Publish(t) PROVE buffer' = buffer /\ processed' = processed
  BY <1>3 DEF Publish, bvars
<1>4. CASE buffer' = buffer /\ processed' = processed
  BY <1>4 DEF Buffered
<1> QED BY <1>2, <1>3, <1>4, DataSteps

\* What has been seen stays seen while nothing is read or processed.
LEMMA SeenStays ==
  ASSUME StructureInv, OldEnough, [Next]_vars, ~ReadEvent, ~ProcessLowest, NEW u \in Threads, Seen(u)
  PROVE  Seen(u)'
<1>1. TypeOK /\ EventsStamped
  BY DEF StructureInv
<1>2. Grace' = Grace
  BY TimePasses DEF Grace
<1>3. buffer' = buffer /\ Buffered' = Buffered
  <2>1. ASSUME NEW t \in Threads, Publish(t) PROVE buffer' = buffer
    BY <2>1 DEF Publish, bvars
  <2> QED BY <2>1, DataSteps DEF Buffered
<1>4. CASE Publish(u)
  <2>1. PICK e \in Event : e.at = clock /\ Range(queue'[u]) = Range(queue[u]) \cup {e}
    BY <1>1, <1>4, PublishEffect
  <2>2. \A x \in Buffered : NotOvertaken(e, x)
    <3> TAKE x \in Buffered
    <3>1. x.ts \in Nat /\ e.ts \in Nat /\ Grace \in Nat /\ clock \in Nat
      BY <1>1, BufferedTyped, EventTyped, OptionsTyped, Lengths
    <3>2. x.ts + Grace <= clock \/ x.ts = 0
      BY DEF OldEnough
    <3> QED BY <2>1, <3>1, <3>2 DEF NotOvertaken
  <2>3. ASSUME buffer[u] = <<>>, NEW e2 \in Range(queue'[u]), NEW x \in Buffered PROVE NotOvertaken(e2, x)
    BY <2>1, <2>2, <2>3 DEF Seen
  <2> QED BY <1>2, <1>3, <2>3 DEF Seen, NotOvertaken
<1>5. CASE queue'[u] = queue[u]
  BY <1>2, <1>3, <1>5 DEF Seen, NotOvertaken
<1>6. ASSUME NEW t \in Threads, t # u, Publish(t) PROVE queue'[u] = queue[u]
  BY <1>1, <1>6, PublishEffect
<1> QED BY <1>4, <1>5, <1>6, DataSteps

\* The same for what this pass may still read.
LEMMA SeenNowStays ==
  ASSUME StructureInv, [Next]_vars, ~ProcessLowest, tsNow' = tsNow, tsNow + Grace <= clock \/ tsNow = 0,
         NEW u \in Threads, SeenNow(u)
  PROVE  SeenNow(u)'
<1>1. TypeOK
  BY DEF StructureInv
<1>2. Grace' = Grace
  BY TimePasses DEF Grace
<1>3. CASE Publish(u)
  <2>1. PICK e \in Event : e.at = clock /\ Range(queue'[u]) = Range(queue[u]) \cup {e}
    BY <1>1, <1>3, PublishEffect
  <2>2. e.ts \in Nat /\ tsNow \in Nat /\ Grace \in Nat /\ clock \in Nat
    BY <1>1, EventTyped, OptionsTyped, Lengths
  <2>3. e.ts >= tsNow \/ e.at >= tsNow + Grace
    BY <2>1, <2>2
  <2>4. buffer' = buffer
    BY <1>3 DEF Publish, bvars
  <2> QED BY <1>2, <2>1, <2>3, <2>4 DEF SeenNow
<1>4. CASE ReadEvent
  <2>1. PICK t \in Threads, e \in Event :
          /\ buffer'[t] # <<>>
          /\ \A v \in Threads \ {t} : queue'[v] = queue[v] /\ buffer'[v] = buffer[v]
    BY <1>1, <1>4, ReadEffect
  <2> QED BY <1>2, <2>1 DEF SeenNow
<1>5. CASE queue'[u] = queue[u] /\ buffer'[u] = buffer[u]
  BY <1>2, <1>5 DEF SeenNow
<1>6. ASSUME NEW t \in Threads, t # u, Publish(t) PROVE queue'[u] = queue[u] /\ buffer'[u] = buffer[u]
  BY <1>1, <1>6, PublishEffect DEF Publish, bvars
<1> QED BY <1>3, <1>4, <1>5, <1>6, DataSteps

\* What was buffered before a pass is older than its cut-off, and a context is
\* seen when the loop over its queue ends.
LEMMA LoopEnds ==
  ASSUME StructureInv, CutoffRight, NextQueue, NEW u \in Threads, u = cache[pos]
  PROVE  SeenNow(u)
<1>1. TypeOK /\ Numbered /\ Timestamps
  BY DEF StructureInv
<1>2. CASE read >= QueueCapacity
  <2>1. read > 0 /\ pos <= Len(cache) /\ bpc = "read"
    BY <1>1, <1>2, OptionsTyped, Lengths DEF NextQueue
  <2> QED BY <2>1 DEF CutoffRight, SeenNow
<1>3. CASE Len(buffer[u]) >= HardLimit
  <2>1. Len(<<>>) = 0
    OBVIOUS
  <2>2. buffer[u] # <<>>
    BY <1>1, <1>3, <2>1, OptionsTyped
  <2> QED BY <2>2 DEF SeenNow
<1>4. CASE queue[u] = <<>>
  <2>1. Range(<<>>) = {}
    BY DEF Range
  <2> QED BY <1>4, <2>1 DEF SeenNow
<1>5. CASE queue[u] # <<>> /\ ~(Head(queue[u]).ts <= tsNow)
  <2>1. \A d \in Range(queue[u]) : d = Head(queue[u]) \/ Head(queue[u]).seq < d.seq
    BY <1>1, <1>5, WaitingNumbers
  <2>2. Head(queue[u]) \in Range(queue[u]) /\ Head(queue[u]) \in Event
    BY <1>1, <1>5, RemainingEvents, Lengths
  <2>3. \A d \in Range(queue[u]) : d = Head(queue[u]) \/ Head(queue[u]).ts <= d.ts
    BY <1>1, <2>1, <2>2 DEF Timestamps, Waiting
  <2>4. \A d \in Range(queue[u]) : d.ts \in Nat
    <3>1. Range(queue[u]) \subseteq Event
      BY <1>1, InRange, Lengths
    <3> QED BY <3>1, EventTyped
  <2>5. \A d \in Range(queue[u]) : d.ts >= tsNow
    BY <1>1, <1>5, <2>2, <2>3, <2>4, Lengths
  <2> QED BY <2>5 DEF SeenNow
<1>6. ~Readable(u)
  BY DEF NextQueue
<1>7. \/ read >= QueueCapacity \/ Len(buffer[u]) >= HardLimit \/ queue[u] = <<>>
      \/ queue[u] # <<>> /\ ~(Head(queue[u]).ts <= tsNow)
  <2>1. read \in Nat /\ QueueCapacity \in Nat /\ Len(buffer[u]) \in Nat /\ HardLimit \in Nat
    BY <1>1, OptionsTyped, Lengths
  <2> QED BY <1>6, <2>1 DEF Readable
<1> QED BY <1>2, <1>3, <1>4, <1>5, <1>7

\* Every step keeps what is buffered old enough.
LEMMA OldEnoughNext == StructureInv /\ CutoffRight /\ [Next]_vars => OldEnough'
<1> SUFFICES ASSUME StructureInv, CutoffRight, [Next]_vars PROVE OldEnough'
  OBVIOUS
<1>1. TypeOK /\ OldEnough /\ (tsNow + Grace <= clock \/ tsNow = 0)
  BY DEF StructureInv, CutoffRight
<1>2. Grace' = Grace /\ Grace \in Nat /\ clock' >= clock /\ clock' \in Nat /\ clock \in Nat /\ tsNow \in Nat
  BY <1>1, TimePasses, OptionsTyped, Lengths DEF Grace
<1>3. \A x \in Buffered \cup Range(processed) : x.ts + Grace <= clock' \/ x.ts = 0
  <2> TAKE x \in Buffered \cup Range(processed)
  <2>1. x.ts \in Nat
    BY <1>1, BufferedTyped
  <2> QED BY <1>1, <1>2, <2>1 DEF OldEnough
<1>4. CASE ReadEvent
  <2>1. PICK t \in Threads, e \in Event :
          /\ e.ts <= tsNow /\ Range(buffer'[t]) = Range(buffer[t]) \cup {e}
          /\ \A u \in Threads \ {t} : buffer'[u] = buffer[u]
    BY <1>1, <1>4, ReadEffect
  <2>2. Buffered' \subseteq Buffered \cup {e} /\ processed' = processed
    BY <1>4, <2>1 DEF Buffered, ReadEvent
  <2>3. e.ts + Grace <= clock' \/ e.ts = 0
    <3>1. e.ts \in Nat
      BY EventTyped
    <3> QED BY <1>1, <1>2, <2>1, <3>1
  <2> QED BY <1>2, <1>3, <2>2, <2>3 DEF OldEnough
<1>5. CASE ~ReadEvent
  BY <1>2, <1>3, <1>5, BufferedShrinks DEF OldEnough
<1> QED BY <1>4, <1>5

\* The cut-off lies behind the grace period.
LEMMA CutoffBehind ==
  ASSUME StructureInv, CutoffRight, Grace > 0, [Next]_vars
  PROVE  tsNow' + Grace' <= clock' \/ tsNow' = 0
<1>1. TypeOK
  BY DEF StructureInv
<1>2. Grace' = Grace /\ Grace \in Nat /\ clock' >= clock /\ clock' \in Nat /\ clock \in Nat /\ tsNow \in Nat
  BY <1>1, TimePasses, OptionsTyped, Lengths DEF Grace
<1>3. CASE Cutoff
  <2>1. clock' = clock /\ tsNow' = IF Grace = 0 THEN MaxTime ELSE IF clock > Grace THEN clock - Grace ELSE 0
    BY <1>3 DEF Cutoff, CutoffTime
  <2> QED BY <1>2, <2>1
<1>4. CASE EndPopulate
  BY <1>4 DEF EndPopulate
<1>5. CASE tsNow' = tsNow
  BY <1>2, <1>5 DEF CutoffRight
<1> QED BY <1>3, <1>4, <1>5, PhaseSteps

\* What is buffered at the start of a pass, or read in it, is within its cut-off.
LEMMA WithinCutoff ==
  ASSUME StructureInv, CutoffRight, Grace > 0, [Next]_vars, bpc' = "read"
  PROVE  \A x \in Buffered' : x.ts <= tsNow'
<1>1. TypeOK /\ OldEnough
  BY DEF StructureInv, CutoffRight
<1>2. Grace \in Nat /\ clock \in Nat /\ tsNow \in Nat
  BY <1>1, OptionsTyped, Lengths
<1>3. CASE Cutoff
  <2>1. tsNow' = IF Grace = 0 THEN MaxTime ELSE IF clock > Grace THEN clock - Grace ELSE 0
    BY <1>3 DEF Cutoff, CutoffTime
  <2>2. Buffered' = Buffered
    BY <1>3 DEF Cutoff, Buffered
  <2>3. ASSUME NEW x \in Buffered PROVE x.ts <= tsNow'
    <3>1. x.ts \in Nat /\ (x.ts + Grace <= clock \/ x.ts = 0)
      BY <1>1, BufferedTyped DEF OldEnough
    <3>2. x.ts <= IF clock > Grace THEN clock - Grace ELSE 0
      BY <1>2, <3>1
    <3> QED BY <1>2, <2>1, <3>2
  <2> QED BY <2>2, <2>3
<1>4. CASE bpc = "read" /\ tsNow' = tsNow /\ ReadEvent
  <2>1. PICK t \in Threads, e \in Event :
          /\ e.ts <= tsNow /\ Range(buffer'[t]) = Range(buffer[t]) \cup {e}
          /\ \A u \in Threads \ {t} : buffer'[u] = buffer[u]
    BY <1>1, <1>4, ReadEffect
  <2>2. Buffered' \subseteq Buffered \cup {e}
    BY <2>1 DEF Buffered
  <2> QED BY <1>4, <2>1, <2>2 DEF CutoffRight
<1>5. CASE bpc = "read" /\ tsNow' = tsNow /\ ~ReadEvent
  BY <1>5, BufferedShrinks DEF CutoffRight
<1> QED BY <1>3, <1>4, <1>5, PhaseSteps

\* The contexts that this pass has been through are seen.
LEMMA PassSees ==
  ASSUME StructureInv, CutoffRight, [Next]_vars, bpc' = "read"
  PROVE  /\ \A i \in 1..(pos' - 1) : SeenNow(cache[i])'
         /\ pos' <= Len(cache') /\ read' > 0 => buffer'[cache'[pos']] # <<>>
<1>1. TypeOK
  BY DEF StructureInv
<1>2. tsNow + Grace <= clock \/ tsNow = 0
  BY DEF CutoffRight
<1>3. Len(cache) \in Nat /\ pos \in Nat /\ pos >= 1 /\ read \in Nat /\ \A i \in 1..Len(cache) : cache[i] \in Threads
  BY <1>1, Lengths DEF TypeOK
<1>4. CASE Cutoff
  <2>1. pos' = 1 /\ read' = 0
    BY <1>4 DEF Cutoff
  <2> QED BY <2>1
<1>5. CASE bpc = "read" /\ cache' = cache /\ tsNow' = tsNow /\ (ReadEvent \/ NextQueue \/ (pos' = pos /\ read' = read))
  <2>1. ~ProcessLowest
    BY <1>5 DEF ProcessLowest
  <2>2. \A i \in 1..(pos - 1) : SeenNow(cache[i])
    BY <1>5 DEF CutoffRight
  <2>3. ASSUME NEW i \in 1..(pos' - 1), NEW u \in Threads, u = cache[i] PROVE SeenNow(u)'
    <3>1. CASE i \in 1..(pos - 1)
      BY <1>2, <1>5, <2>1, <2>2, <2>3, <3>1, SeenNowStays
    <3>2. CASE i \notin 1..(pos - 1)
      <4>1. NextQueue
        BY <1>5, <3>2 DEF ReadEvent
      <4>2. i = pos
        BY <1>3, <3>2, <4>1 DEF NextQueue
      <4>3. SeenNow(u)
        BY <2>3, <4>1, <4>2, LoopEnds
      <4> QED BY <1>2, <1>5, <2>1, <4>3, SeenNowStays
    <3> QED BY <3>1, <3>2
  <2>6. 1..(pos' - 1) \subseteq 1..Len(cache)
    <3>1. PICK p \in Nat, n \in Nat : p = pos /\ n = Len(cache) /\ p <= n + 1
      BY <1>1, Lengths
    <3>2. pos' = p \/ (pos' = p + 1 /\ p <= n)
      BY <1>5, <3>1 DEF ReadEvent, NextQueue
    <3>3. CASE pos' = p
      <4>1. 1..(p - 1) \subseteq 1..n
        BY <3>1
      <4> QED BY <3>1, <3>3, <4>1
    <3>4. CASE pos' = p + 1 /\ p <= n
      <4>1. pos' - 1 = p
        BY <3>4
      <4>2. 1..p \subseteq 1..n
        BY <3>4
      <4> QED BY <3>1, <4>1, <4>2
    <3> QED BY <3>2, <3>3, <3>4
  <2>4. ASSUME NEW i \in 1..(pos' - 1) PROVE SeenNow(cache[i])'
    <3>3. i \in 1..Len(cache)
      BY <2>6
    <3>4. PICK u \in Threads : u = cache[i]
      BY <1>3, <3>3
    <3>5. SeenNow(u)' /\ u = cache'[i]
      BY <1>5, <2>3, <3>4
    <3> QED BY <3>5 DEF SeenNow
  <2>5. ASSUME pos' <= Len(cache'), read' > 0 PROVE buffer'[cache'[pos']] # <<>>
    <3>1. CASE ReadEvent
      <4>1. PICK t \in Threads : t = cache[pos] /\ buffer'[t] # <<>>
        BY <1>1, <3>1, ReadEffect
      <4> QED BY <1>5, <3>1, <4>1 DEF ReadEvent
    <3>2. CASE NextQueue
      BY <2>5, <3>2 DEF NextQueue
    <3>3. CASE ~ReadEvent /\ ~NextQueue
      <4>1. buffer[cache[pos]] # <<>> /\ pos' = pos
        BY <1>5, <2>5, <3>3 DEF CutoffRight
      <4>2. buffer' = buffer
        <5>1. ASSUME NEW t \in Threads, Publish(t) PROVE buffer' = buffer
          BY <5>1 DEF Publish, bvars
        <5> QED BY <2>1, <3>3, <5>1, DataSteps
      <4> QED BY <1>5, <4>1, <4>2
    <3> QED BY <3>1, <3>2, <3>3
  <2> QED BY <2>4, <2>5
<1> QED BY <1>4, <1>5, PhaseSteps

\* A batch goes on only when every context that has something is seen.
LEMMA BatchSees ==
  ASSUME StructureInv, CutoffRight, [Next]_vars
  PROVE  /\ bpc' = "pending" => \A t \in Threads \ Range(cache') : Seen(t)'
         /\ bpc' = "process" => \A t \in Threads : Seen(t)'
<1>1. TypeOK /\ ModesRight /\ ContextsCached /\ OldEnough
  BY DEF StructureInv, CutoffRight
<1>2. ASSUME NEW t \in Threads, queue[t] = <<>> PROVE Seen(t)
  <2>1. Range(<<>>) = {}
    BY DEF Range
  <2> QED BY <1>2, <2>1 DEF Seen
<1>3. bpc' \in {"pending", "process"} => ~ReadEvent /\ ~ProcessLowest
  BY DEF ReadEvent, ProcessLowest
<1>4. ASSUME BatchUpdate, NEW t \in Threads \ Range(cache') PROVE Seen(t)
  <2>1. spc # "stopped" /\ (cache' = contexts \/ (cache' = cache /\ ~newFlag))
    BY <1>1, <1>4 DEF BatchUpdate, UpdateCache, ModesRight
  <2>2. queue[t] = <<>>
    BY <1>1, <1>4, <2>1 DEF ContextsCached
  <2> QED BY <1>2, <2>2
<1>5. ASSUME BatchCheck, bpc' = "process", NEW t \in Threads PROVE Seen(t)
  <2>1. CASE t \in Range(cache)
    <3>1. buffer[t] # <<>> \/ queue[t] = <<>>
      BY <1>5, <2>1 DEF BatchCheck, LoopTop
    <3> QED BY <1>2, <3>1 DEF Seen
  <2>2. CASE t \notin Range(cache)
    BY <1>5, <2>2 DEF CutoffRight, BatchCheck
  <2> QED BY <2>1, <2>2
<1>6. ASSUME bpc' = "pending", NEW t \in Threads \ Range(cache') PROVE Seen(t)'
  <2>1. Seen(t)
    BY <1>4, <1>6, PhaseSteps DEF CutoffRight
  <2> QED BY <1>1, <1>3, <1>6, <2>1, SeenStays
<1>7. ASSUME bpc' = "process", NEW t \in Threads PROVE Seen(t)'
  <2>1. Seen(t)
    BY <1>5, <1>7, PhaseSteps DEF CutoffRight
  <2> QED BY <1>1, <1>3, <1>7, <2>1, SeenStays
<1> QED BY <1>6, <1>7

\* Every step keeps what the backend knows of the contexts when it takes the lowest timestamp.
LEMMA CutoffNext == StructureInv /\ Grace > 0 /\ CutoffRight /\ [Next]_vars => CutoffRight'
<1> SUFFICES ASSUME StructureInv, Grace > 0, CutoffRight, [Next]_vars PROVE CutoffRight'
  OBVIOUS
<1>1. OldEnough'
  BY OldEnoughNext
<1>2. tsNow' + Grace' <= clock' \/ tsNow' = 0
  BY CutoffBehind
<1>3. bpc' = "read" => \A x \in Buffered' : x.ts <= tsNow'
  BY WithinCutoff
<1>4. bpc' = "read" => /\ \A i \in 1..(pos' - 1) : SeenNow(cache[i])'
                       /\ pos' <= Len(cache') /\ read' > 0 => buffer'[cache'[pos']] # <<>>
  BY PassSees
<1>5. /\ bpc' = "pending" => \A t \in Threads \ Range(cache') : Seen(t)'
      /\ bpc' = "process" => \A t \in Threads : Seen(t)'
  BY BatchSees
<1> QED BY <1>1, <1>2, <1>3, <1>4, <1>5 DEF CutoffRight


-----------------------------------------------------------------------------
(***************************************************************************)
(* What is processed is in order within the grace period.                  *)
(***************************************************************************)

\* The size of the transit buffers is a number.
LEMMA CachedEventsTyped ==
  ASSUME TypeOK
  PROVE  CachedEvents \in Nat
<1> DEFINE Slots == {s \in Range(cache) \X (1..HardLimit) : s[2] <= Len(buffer[s[1]])}
<1>1. Range(cache) \subseteq Threads
  BY InRange DEF TypeOK
<1>2. IsFiniteSet(Range(cache))
  BY <1>1, ConstantsAssumption, FS_Subset
<1>3. IsFiniteSet(1..HardLimit)
  BY OptionsTyped, FS_Interval
<1>4. IsFiniteSet(Range(cache) \X (1..HardLimit))
  BY <1>2, <1>3, FS_Product
<1>5. IsFiniteSet(Slots)
  BY <1>4, FS_Subset
<1>6. Cardinality(Slots) \in Nat
  BY <1>5, FS_CardinalityType
<1> QED BY <1>6 DEF CachedEvents

\* A poll that takes a single event has seen every context.
LEMMA SingleSees ==
  ASSUME StructureInv, AllContextsCached, CutoffRight, ContextsKnown, EndPopulate, bpc' = "one",
         NEW t \in Threads
  PROVE  Seen(t)
<1>1. TypeOK /\ ModesRight /\ ContextsCached
  BY DEF StructureInv
<1>2. bpc = "read" /\ pos > Len(cache) /\ WhatNext(CachedEvents) = "one"
  BY DEF EndPopulate
<1>3. CachedEvents # 0 /\ ~exiting /\ CachedEvents < options.softLimit
  BY <1>2 DEF WhatNext
<1>4. options.softLimit # 1
  <2>1. PICK n \in Nat, m \in Nat : n = CachedEvents /\ m = options.softLimit
    BY <1>1, CachedEventsTyped, OptionsTyped
  <2> QED BY <1>3, <2>1
<1>5. Range(contexts) \subseteq Range(cache)
  BY <1>2, <1>3, <1>4 DEF ContextsKnown, AllContextsCached
<1>6. CASE queue[t] = <<>>
  <2>1. Range(<<>>) = {}
    BY DEF Range
  <2> QED BY <1>6, <2>1 DEF Seen
<1>7. CASE queue[t] # <<>>
  <2>1. t \in Range(cache)
    BY <1>1, <1>5, <1>7 DEF ContextsCached
  <2>2. PICK i \in 1..Len(cache) : cache[i] = t
    BY <1>1, <2>1, InRange DEF TypeOK
  <2>3. i \in 1..(pos - 1)
    BY <1>1, <1>2, Lengths DEF TypeOK
  <2>4. SeenNow(t)
    BY <1>2, <2>2, <2>3 DEF CutoffRight
  <2>5. ASSUME NEW e \in Range(queue[t]), NEW x \in Buffered, e.ts >= tsNow \/ e.at >= tsNow + Grace
        PROVE  NotOvertaken(e, x)
    <3>1. x.ts <= tsNow
      BY <1>2 DEF CutoffRight
    <3>2. Range(queue[t]) \subseteq Event
      BY <1>1, InRange, Lengths
    <3>3. e.ts \in Nat /\ e.at \in Nat /\ x.ts \in Nat /\ tsNow \in Nat /\ Grace \in Nat
      BY <1>1, <3>2, EventTyped, BufferedTyped, OptionsTyped, Lengths
    <3> QED BY <2>5, <3>1, <3>3 DEF NotOvertaken
  <2> QED BY <2>4, <2>5 DEF Seen, SeenNow
<1> QED BY <1>6, <1>7

\* An event that is published later comes behind everything that is processed.
LEMMA NewEventBehind ==
  ASSUME StructureInv, OldEnough, NEW e \in Event, e.at = clock, NEW x \in Buffered \cup Range(processed)
  PROVE  NotOvertaken(e, x)
<1>1. TypeOK
  BY DEF StructureInv
<1>2. x.ts \in Nat /\ e.ts \in Nat /\ Grace \in Nat /\ clock \in Nat
  BY <1>1, BufferedTyped, EventTyped, OptionsTyped, Lengths
<1>3. x.ts + Grace <= clock \/ x.ts = 0
  BY DEF OldEnough
<1> QED BY <1>2, <1>3 DEF NotOvertaken

\* The event that is processed comes before everything that waits.
LEMMA LowestFirst ==
  ASSUME StructureInv, \A u \in Threads : Seen(u), spc # "stopped",
         NEW x \in Buffered,
         \A u \in Range(cache) : buffer[u] # <<>> => x.ts <= Head(buffer[u]).ts,
         NEW t \in Threads, NEW e \in Waiting(t)
  PROVE  NotOvertaken(e, x)
<1>1. TypeOK /\ ContextsCached /\ Numbered /\ Timestamps
  BY DEF StructureInv
<1>2. CASE buffer[t] = <<>>
  <2>1. Range(<<>>) = {}
    BY DEF Range
  <2>2. e \in Range(queue[t])
    BY <1>2, <2>1 DEF Waiting
  <2> QED BY <1>2, <2>2 DEF Seen
<1>3. CASE buffer[t] # <<>>
  <2>1. t \in Range(cache)
    BY <1>1, <1>3 DEF ContextsCached
  <2>2. PICK h \in Event : h = Head(buffer[t]) /\ h \in Waiting(t)
    BY <1>1, <1>3, RemainingEvents, Lengths DEF Waiting
  <2>3. e = h \/ h.seq < e.seq
    BY <1>1, <1>3, <2>2, WaitingNumbers
  <2>4. e = h \/ h.ts <= e.ts
    BY <1>1, <2>2, <2>3 DEF Timestamps
  <2>5. x.ts <= h.ts
    BY <1>3, <2>1, <2>2
  <2>6. e \in Event /\ e.ts \in Nat /\ h.ts \in Nat /\ x.ts \in Nat
    BY <1>1, WaitingNumbers, EventTyped, BufferedTyped
  <2>7. e.ts >= x.ts
    BY <2>4, <2>5, <2>6
  <2> QED BY <2>7 DEF NotOvertaken
<1> QED BY <1>2, <1>3

\* While an event is processed, every context is seen.
LEMMA AllSeen ==
  ASSUME CutoffRight, Ordered, ProcessLowest
  PROVE  \A t \in Threads : Seen(t)
BY DEF CutoffRight, Ordered, ProcessLowest

\* Every step keeps the order.
LEMMA OrderedNext ==
  StructureInv /\ AllContextsCached /\ Grace > 0 /\ ContextsKnown /\ CutoffRight /\ Ordered /\ [Next]_vars => Ordered'
<1> SUFFICES ASSUME StructureInv, AllContextsCached, Grace > 0, ContextsKnown, CutoffRight, Ordered, [Next]_vars
             PROVE  Ordered'
  OBVIOUS
<1>1. TypeOK /\ ModesRight /\ ContextsCached /\ OldEnough
  BY DEF StructureInv, CutoffRight
<1>2. Grace' = Grace
  BY TimePasses DEF Grace
<1>3. ASSUME bpc' = "one", NEW t \in Threads PROVE Seen(t)'
  <2>1. Seen(t)
    BY <1>3, SingleSees, PhaseSteps DEF Ordered
  <2>2. ~ReadEvent /\ ~ProcessLowest
    BY <1>3 DEF ReadEvent, ProcessLowest
  <2> QED BY <1>1, <2>1, <2>2, SeenStays
<1>4. ASSUME NEW t \in Threads, NEW e \in Waiting(t), NEW x \in Range(processed) PROVE NotOvertaken(e, x)
  BY DEF Ordered
<1>5. ASSUME NEW t \in Threads, NEW e \in Waiting(t)', NEW x \in Range(processed) PROVE NotOvertaken(e, x)
  <2>1. CASE Publish(t)
    <3>1. PICK n \in Event : n.at = clock /\ Waiting(t)' = Waiting(t) \cup {n}
      BY <1>1, <2>1, PublishEffect
    <3> QED BY <1>1, <1>4, <1>5, <3>1, NewEventBehind
  <2>2. CASE Waiting(t)' \subseteq Waiting(t)
    BY <1>4, <1>5, <2>2
  <2> QED BY <2>1, <2>2, WaitingShrinks
<1>6. CASE ProcessLowest
  <2>1. PICK t \in Threads, x \in Event :
          /\ x \in Range(buffer[t])
          /\ \A u \in Range(cache) : buffer[u] # <<>> => x.ts <= Head(buffer[u]).ts
          /\ \A u \in Threads \ {t} : Waiting(u)' = Waiting(u)
          /\ Waiting(t) = Waiting(t)' \cup {x}
          /\ Range(processed') = Range(processed) \cup {x}
          /\ Len(processed') = Len(processed) + 1
          /\ \A i \in 1..Len(processed) : processed'[i] = processed[i]
          /\ processed'[Len(processed) + 1] = x
    BY <1>1, <1>6, ProcessEffect
  <2>2. x \in Buffered /\ spc # "stopped"
    BY <1>1, <1>6, <2>1 DEF Buffered, ProcessLowest, ModesRight
  <2>3. \A u \in Threads : Seen(u)
    BY <1>6, AllSeen
  <2>4. ASSUME NEW u \in Threads, NEW e \in Waiting(u) PROVE NotOvertaken(e, x)
    BY <2>1, <2>2, <2>3, LowestFirst
  <2>5. ASSUME NEW u \in Threads, NEW e \in Waiting(u)', NEW y \in Range(processed') PROVE NotOvertaken(e, y)
    <3>1. e \in Waiting(u)
      BY <2>1
    <3> QED BY <1>4, <2>1, <2>4, <3>1
  <2>6. PICK n \in Nat : n = Len(processed)
    BY <1>1, Lengths
  <2>7. \A i \in 1..n : processed[i] \in Range(processed)
    BY <1>1, <2>6, InRange DEF TypeOK
  <2>8. ASSUME NEW j \in 1..(n + 1), NEW i \in 1..(j - 1) PROVE NotOvertaken(processed'[j], processed'[i])
    <3>1. i \in 1..n /\ (j \in 1..n \/ j = n + 1)
      BY <2>8
    <3>2. CASE j \in 1..n
      BY <2>1, <2>6, <3>1, <3>2 DEF Ordered
    <3>3. CASE j = n + 1
      <4>1. x \in Waiting(t)
        BY <2>1
      <4> QED BY <1>4, <2>1, <2>6, <2>7, <3>1, <3>3, <4>1
    <3> QED BY <3>1, <3>2, <3>3
  <2> QED BY <1>2, <1>3, <2>1, <2>5, <2>6, <2>8 DEF Ordered, NotOvertaken
<1>7. CASE processed' = processed
  BY <1>2, <1>3, <1>5, <1>7 DEF Ordered, NotOvertaken
<1> QED BY <1>6, <1>7, FlushSteps

-----------------------------------------------------------------------------
(***************************************************************************)
(* What flush_log promises.                                                *)
(***************************************************************************)

\* A thread waits in flush_log until it sees its flag, which only a flush event sets.
LEMMA FlagSteps ==
  ASSUME StructureInv, [Next]_vars, NEW u \in Threads
  PROVE  /\ ProcessLowest \/ FlushReturns(u) \/ flushFlag'[u] = flushFlag[u]
         /\ tpc[u] = "waiting" => FlushReturns(u) \/ (tpc'[u] = "waiting" /\ mark'[u] = mark[u])
<1>0. TypeOK
  BY DEF StructureInv
<1> DEFINE Same == flushFlag'[u] = flushFlag[u]
           Stays == tpc[u] = "waiting" => tpc'[u] = "waiting" /\ mark'[u] = mark[u]
<1>1. ASSUME NEW t \in Threads, NEW kind \in {"log", "flush"}, Stamp(t, kind) PROVE Same /\ Stays
  BY <1>0, <1>1 DEF Stamp, TypeOK
<1>2. ASSUME NEW t \in Threads, Register(t) \/ Publish(t) \/ QueueFull(t) \/ Exit(t) PROVE Same /\ Stays
  BY <1>0, <1>2 DEF Register, Publish, QueueFull, Exit, TypeOK, fvars
<1>3. ASSUME NEW t \in Threads, t # u, FlushReturns(t) PROVE Same /\ Stays
  BY <1>0, <1>3 DEF FlushReturns, TypeOK
<1>4. ASSUME Poll \/ Cutoff \/ ReadEvent \/ NextQueue \/ EndPopulate \/ BatchUpdate \/ BatchCheck PROVE Same /\ Stays
  BY <1>4 DEF Poll, Cutoff, ReadEvent, NextQueue, EndPopulate, BatchUpdate, BatchCheck, fvars
<1>5. ASSUME Idle \/ IdleCheck \/ Cleanup \/ Notified \/ SleepTimeout \/ ExitUpdate \/ ExitCheck PROVE Same /\ Stays
  BY <1>5 DEF Idle, IdleCheck, Cleanup, Notified, SleepTimeout, WakeUp, ExitUpdate, ExitCheck, fvars
<1>6. ASSUME Tick \/ Stop \/ Notify \/ Join \/ Start \/ UNCHANGED vars PROVE Same /\ Stays
  BY <1>6 DEF Tick, Stop, Notify, Join, Start, vars, fvars
<1>7. ASSUME ProcessLowest PROVE Stays
  BY <1>7 DEF ProcessLowest, fvars
<1> HIDE DEF Same, Stays
<1>8. ASSUME NEW t \in Threads, Frontend(t) PROVE FlushReturns(u) \/ (Same /\ Stays)
  BY <1>1, <1>2, <1>3, <1>8 DEF Frontend
<1>9. ASSUME Backend \/ SleepTimeout PROVE (ProcessLowest /\ Stays) \/ (Same /\ Stays)
  BY <1>4, <1>5, <1>7, <1>9 DEF Backend
<1>10. FlushReturns(u) \/ (ProcessLowest /\ Stays) \/ (Same /\ Stays)
  BY <1>6, <1>8, <1>9 DEF Next
<1> QED BY <1>10 DEF Same, Stays

\* A processed event waits no longer.
LEMMA ProcessedGone ==
  ASSUME StructureInv, ProcessLowest, NEW t \in Threads, t = LowestTimestamp
  PROVE  Head(buffer[t]) \notin Waiting(t)'
<1>1. TypeOK /\ ContextsCached /\ Numbered
  BY DEF StructureInv
<1>2. PICK x \in Event :
        /\ x = Head(buffer[t]) /\ x = buffer[t][1] /\ buffer[t] # <<>> /\ x \in Range(buffer[t])
        /\ buffer'[t] \in Seq(Event)
        /\ Len(buffer'[t]) = Len(buffer[t]) - 1 /\ Len(buffer[t]) > 0
        /\ \A i \in 1..Len(buffer'[t]) : buffer'[t][i] = buffer[t][i + 1]
  BY <1>1, ProcessEffect
<1>3. queue' = queue
  BY DEF ProcessLowest
<1>4. \A d \in Range(queue[t]) : x.seq < d.seq
  BY <1>1, <1>2, WaitingNumbers
<1>5. PICK o \in Nat, b \in Nat : o = Out(t) /\ b = Len(buffer[t])
  BY <1>1, Lengths DEF Numbered
<1>6. \A i \in 1..b : buffer[t][i].seq = o + i
  BY <1>1, <1>5 DEF Numbered
<1>7. x.seq = o + 1
  BY <1>2, <1>5, <1>6
<1>8. ASSUME NEW d \in Range(buffer'[t]) PROVE d # x
  <2>0. Len(buffer'[t]) = b - 1
    BY <1>2, <1>5
  <2>1. PICK i \in 1..(b - 1) : d = buffer[t][i + 1]
    <3>1. PICK i \in 1..Len(buffer'[t]) : buffer'[t][i] = d
      BY <1>2, <1>8, InRange
    <3> QED BY <1>2, <2>0, <3>1
  <2>2. i + 1 \in 1..b
    BY <1>5
  <2>3. d.seq = o + (i + 1)
    BY <1>6, <2>1, <2>2
  <2>4. o + (i + 1) # o + 1
    BY <1>5
  <2> QED BY <1>7, <2>3, <2>4
<1>9. \A d \in Range(queue[t]) : d # x
  <2>1. x.seq \in Nat /\ ~(x.seq < x.seq)
    BY EventTyped
  <2> QED BY <1>4, <2>1
<1> QED BY <1>2, <1>3, <1>8, <1>9 DEF Waiting

\* The mark of a flush_log is older than its timestamp.
LEMMA MarkCovered ==
  ASSUME StructureInv, FlushesRight, [Next]_vars, NEW u \in Threads,
         tpc'[u] \in {"stamped", "blocked"}, event'[u].kind = "flush"
  PROVE  Covers(u, event[u].ts)'
<1>1. TypeOK /\ Timestamps /\ Numbered /\ EventsStamped
  BY DEF StructureInv
<1>2. ~Publish(u)
  <2> SUFFICES ASSUME Publish(u) PROVE FALSE
    OBVIOUS
  <2>1. tpc'[u] \in {"waiting", "idle"}
    BY <1>1 DEF Publish, TypeOK
  <2> QED BY <2>1
<1>3. Published \subseteq Published'
  BY PublishedGrows
<1>4. CASE \E kind \in {"log", "flush"} : Stamp(u, kind)
  <2>1. PICK kind \in {"log", "flush"} : Stamp(u, kind)
    BY <1>4
  <2>2. event'[u].kind = kind /\ event'[u].ts = clock
    BY <1>1, <2>1, StampEffect
  <2>3. mark'[u] = {e \in Published : e.ts < clock}
    BY <1>1, <2>1, <2>2 DEF Stamp, TypeOK
  <2>4. ASSUME NEW e \in Published PROVE e.at <= clock
    <3>1. e \in Range(processed) \/ \E t \in Threads : e \in Waiting(t)
      BY DEF Published, Waiting
    <3> QED BY <1>1, <3>1 DEF Timestamps
  <2> QED BY <1>3, <2>2, <2>3, <2>4 DEF Covers
<1>5. CASE QueueFull(u)
  <2>1. \/ event' = event
        \/ event[u].kind = "flush" /\ event'[u].kind = "flush" /\ event'[u].thread = event[u].thread /\ event'[u].ts = clock
    BY <1>1, <1>5, QueueFullEffect
  <2>2. mark' = mark /\ tpc[u] = "stamped"
    BY <1>5 DEF QueueFull
  <2>3. event[u].kind = "flush" /\ (event'[u].ts = event[u].ts \/ event'[u].ts = clock)
    BY <2>1
  <2>4. Covers(u, event[u].ts) /\ event[u].ts <= clock
    BY <1>1, <2>2, <2>3 DEF FlushesRight, EventsStamped
  <2>5. event[u].ts \in Nat /\ clock \in Nat
    BY <1>1, EventTyped, Lengths DEF TypeOK
  <2>6. ASSUME NEW e \in mark[u] PROVE e \in Published /\ e.ts < event'[u].ts /\ e.at <= event'[u].ts
    <3>1. e \in Published /\ e.ts < event[u].ts /\ e.at <= event[u].ts
      BY <2>4 DEF Covers
    <3>2. e.ts \in Nat /\ e.at \in Nat
      BY <1>1, <3>1, PublishedTyped, EventTyped
    <3> QED BY <2>3, <2>4, <2>5, <3>1, <3>2
  <2> QED BY <1>3, <2>2, <2>6 DEF Covers
<1>6. CASE event'[u] = event[u] /\ mark'[u] = mark[u] /\ (tpc'[u] = tpc[u] \/ tpc'[u] \in {"idle", "exited"})
  <2>1. Covers(u, event[u].ts)
    BY <1>6 DEF FlushesRight
  <2> QED BY <1>3, <1>6, <2>1 DEF Covers
<1> QED BY <1>2, <1>4, <1>5, <1>6, StampSteps

\* A flush event waits while its thread waits for the flag.
LEMMA FlushWaits ==
  ASSUME StructureInv, FlushesRight, [Next]_vars, NEW u \in Threads, NEW e \in Waiting(u)', e.kind = "flush"
  PROVE  /\ Covers(u, e.ts)' /\ tpc'[u] = "waiting" /\ ~flushFlag'[u]
         /\ \A d \in Waiting(u)' : d.kind = "flush" => d = e
<1>1. TypeOK /\ ContextsCached
  BY DEF StructureInv
<1>2. Published \subseteq Published'
  BY PublishedGrows
<1>3. CASE Publish(u)
  <2>1. PICK n \in Event : n.kind = event[u].kind /\ n.ts = event[u].ts /\ Waiting(u)' = Waiting(u) \cup {n}
    BY <1>1, <1>3, PublishEffect
  <2>2. tpc[u] \in {"stamped", "blocked"}
    BY <1>3 DEF Publish
  <2>3. \A d \in Waiting(u) : d.kind # "flush"
    BY <2>2 DEF FlushesRight
  <2>4. e = n /\ \A d \in Waiting(u)' : d.kind = "flush" => d = e
    BY <2>1, <2>3
  <2>5. Covers(u, e.ts) /\ ~flushFlag[u]
    BY <2>1, <2>2, <2>4 DEF FlushesRight
  <2>6. mark' = mark /\ flushFlag' = flushFlag /\ tpc'[u] = "waiting"
    BY <1>1, <1>3, <2>1, <2>4 DEF Publish, TypeOK
  <2> QED BY <1>2, <2>4, <2>5, <2>6 DEF Covers
<1>4. CASE Waiting(u)' \subseteq Waiting(u)
  <2>1. /\ Covers(u, e.ts) /\ tpc[u] = "waiting" /\ ~flushFlag[u]
        /\ \A d \in Waiting(u) : d.kind = "flush" => d = e
    BY <1>4 DEF FlushesRight
  <2>2. ~FlushReturns(u)
    BY <2>1 DEF FlushReturns
  <2>3. tpc'[u] = "waiting" /\ mark'[u] = mark[u]
    BY <2>1, <2>2, FlagSteps
  <2>4. ~flushFlag'[u]
    <3>1. CASE ProcessLowest
      <4>1. PICK t \in Threads, x \in Event :
              /\ t = LowestTimestamp /\ x = Head(buffer[t]) /\ x \in Range(buffer[t])
              /\ IF x.kind = "flush" THEN flushFlag' = [flushFlag EXCEPT ![t] = TRUE] ELSE UNCHANGED flushFlag
        BY <1>1, <3>1, ProcessEffect
      <4>2. x \notin Waiting(t)' /\ x \in Waiting(t)
        BY <3>1, <4>1, ProcessedGone DEF Waiting
      <4>3. ~(x.kind = "flush" /\ t = u)
        BY <2>1, <4>2
      <4> QED BY <1>1, <2>1, <4>1, <4>3 DEF TypeOK
    <3>2. CASE flushFlag'[u] = flushFlag[u]
      BY <2>1, <3>2
    <3> QED BY <2>2, <3>1, <3>2, FlagSteps
  <2> QED BY <1>2, <1>4, <2>1, <2>3, <2>4 DEF Covers
<1> QED BY <1>3, <1>4, WaitingShrinks

\* A flush event that is processed finds all it has to cover with the sinks.
LEMMA FlushCoversMark ==
  ASSUME StructureInv, Grace > 0, CutoffRight, Ordered, FlushesRight, ProcessLowest,
         NEW u \in Threads, u = LowestTimestamp, Head(buffer[u]).kind = "flush"
  PROVE  tpc[u] = "waiting" /\ mark[u] \subseteq Flushed'
<1>1. TypeOK /\ ContextsCached /\ ModesRight
  BY DEF StructureInv
<1>2. PICK x \in Event :
        /\ x = Head(buffer[u]) /\ x \in Range(buffer[u])
        /\ \A v \in Range(cache) : buffer[v] # <<>> => x.ts <= Head(buffer[v]).ts
        /\ \A i \in 1..Len(processed) : processed'[i] = processed[i]
        /\ flushed' = Len(processed)
  BY <1>1, ProcessEffect
<1>3. tpc[u] = "waiting" /\ Covers(u, x.ts)
  BY <1>2 DEF FlushesRight, Waiting
<1>4. Flushed' = Range(processed)
  <2>1. Flushed' = {processed'[i] : i \in 1..Len(processed)}
    BY <1>2 DEF Flushed
  <2>2. Range(processed) = {processed[i] : i \in 1..Len(processed)}
    BY <1>1, InRange DEF TypeOK
  <2> QED BY <1>2, <2>1, <2>2
<1>5. x \in Buffered /\ spc # "stopped" /\ \A v \in Threads : Seen(v)
  BY <1>1, <1>2, AllSeen DEF Buffered, ProcessLowest, ModesRight
<1>6. ASSUME NEW m \in mark[u], m \notin Range(processed) PROVE FALSE
  <2>1. m \in Published /\ m.ts < x.ts /\ m.at <= x.ts
    BY <1>3 DEF Covers
  <2>2. PICK v \in Threads : m \in Waiting(v)
    BY <1>6, <2>1 DEF Published, Waiting
  <2>3. m.ts >= x.ts \/ m.at >= x.ts + Grace
    BY <1>2, <1>5, <2>2, LowestFirst DEF NotOvertaken
  <2>4. m.ts \in Nat /\ m.at \in Nat /\ x.ts \in Nat /\ Grace \in Nat
    BY <1>1, <2>1, PublishedTyped, EventTyped, OptionsTyped
  <2> QED BY <2>1, <2>3, <2>4
<1> QED BY <1>3, <1>4, <1>6

\* Every step keeps the promises of flush_log.
LEMMA FlushesNext ==
  StructureInv /\ Grace > 0 /\ CutoffRight /\ Ordered /\ FlushesRight /\ [Next]_vars => FlushesRight'
<1> SUFFICES ASSUME StructureInv, Grace > 0, CutoffRight, Ordered, FlushesRight, [Next]_vars
             PROVE  FlushesRight'
  OBVIOUS
<1>1. TypeOK /\ ContextsCached
  BY DEF StructureInv
<1>2. Flushed \subseteq Flushed'
  BY FlushedGrows
<1>3. ASSUME NEW u \in Threads, flushFlag'[u] PROVE tpc'[u] = "waiting" /\ mark'[u] \subseteq Flushed'
  <2>1. ~FlushReturns(u)
    BY <1>1, <1>3 DEF FlushReturns, TypeOK
  <2>2. CASE flushFlag[u]
    <3>1. tpc[u] = "waiting" /\ mark[u] \subseteq Flushed
      BY <2>2 DEF FlushesRight
    <3> QED BY <1>2, <2>1, <3>1, FlagSteps
  <2>3. CASE ~flushFlag[u]
    <3>1. ProcessLowest
      BY <1>3, <2>1, <2>3, FlagSteps
    <3>2. PICK t \in Threads, x \in Event :
            /\ t = LowestTimestamp /\ x = Head(buffer[t])
            /\ IF x.kind = "flush" THEN flushFlag' = [flushFlag EXCEPT ![t] = TRUE] ELSE UNCHANGED flushFlag
      BY <1>1, <3>1, ProcessEffect
    <3>3. x.kind = "flush" /\ t = u
      BY <1>1, <1>3, <2>3, <3>2 DEF TypeOK
    <3>4. tpc[u] = "waiting" /\ mark[u] \subseteq Flushed'
      BY <3>1, <3>2, <3>3, FlushCoversMark
    <3> QED BY <2>1, <3>4, FlagSteps
  <2> QED BY <1>1, <2>2, <2>3 DEF TypeOK
<1> QED BY <1>3, MarkCovered, FlushWaits DEF FlushesRight

-----------------------------------------------------------------------------
(***************************************************************************)
(* The invariant and what it means.                                        *)
(***************************************************************************)

\* At the start nothing is buffered or processed, and no thread flushes.
LEMMA OrderInit == Init => AllContextsCached /\ CutoffRight /\ Ordered /\ FlushesRight
<1> SUFFICES ASSUME Init PROVE AllContextsCached /\ CutoffRight /\ Ordered /\ FlushesRight
  OBVIOUS
<1>1. AllContextsCached
  BY InitFacts DEF Init, AllContextsCached
<1>2. Buffered = {} /\ \A t \in Threads : Seen(t)
  BY InitFacts DEF Buffered, Seen
<1>3. CutoffRight
  BY <1>2, InitFacts DEF Init, CutoffRight, OldEnough
<1>4. Ordered
  BY <1>2, InitFacts DEF Ordered
<1>5. FlushesRight
  BY InitFacts DEF Init, FlushesRight
<1> QED BY <1>1, <1>3, <1>4, <1>5

\* The invariant is inductive.
THEOREM Invariance == Spec => []IInv
<1>1. Init => IInv
  BY StructureInit, DrainsInit, OrderInit DEF IInv
<1>2. IInv /\ [Next]_vars => IInv'
  <2> SUFFICES ASSUME IInv, [Next]_vars PROVE IInv'
    OBVIOUS
  <2>1. StructureInv /\ Drains /\ AllContextsCached
    BY DEF IInv
  <2>2. StructureInv' /\ Drains' /\ AllContextsCached'
    BY <2>1, StructureNext, DrainsNext, PreallocatedNext
  <2>3. Grace' = Grace /\ (ContextsKnown' <=> ContextsKnown)
    BY <2>1, TimePasses DEF Grace, ContextsKnown
  <2>4. Grace > 0 => CutoffRight'
    BY <2>1, CutoffNext DEF IInv
  <2>5. Grace > 0 /\ ContextsKnown => Ordered' /\ FlushesRight'
    BY <2>1, OrderedNext, FlushesNext DEF IInv
  <2> QED BY <2>2, <2>3, <2>4, <2>5 DEF IInv
<1> QED BY <1>1, <1>2, PTL DEF Spec

\* Events leave in timestamp order, except behind one that was published more
\* than the grace period after its timestamp, whoever logs, blocks, drops,
\* exits, stops or starts meanwhile, as long as no thread is new to the
\* backend while a poll takes a single event.
THEOREM OrderHolds == Spec => [](ContextsKnown => OrderedWithinGrace)
<1>1. IInv => (ContextsKnown => OrderedWithinGrace)
  <2> SUFFICES ASSUME IInv, ContextsKnown, Grace > 0,
                      NEW j \in 1..Len(processed), NEW i \in 1..(j - 1),
                      processed[j].ts < processed[i].ts
               PROVE  processed[j].at > processed[j].ts + Grace
    BY DEF OrderedWithinGrace
  <2>1. StructureInv /\ Ordered
    BY DEF IInv
  <2>2. TypeOK
    BY <2>1 DEF StructureInv
  <2>3. processed[j].ts >= processed[i].ts \/ processed[j].at >= processed[i].ts + Grace
    BY <2>1 DEF Ordered, NotOvertaken
  <2>4. PICK a \in Event, b \in Event : a = processed[i] /\ b = processed[j]
    <3>1. PICK n \in Nat : n = Len(processed)
      BY <2>2, Lengths
    <3>2. i \in 1..n /\ j \in 1..n
      BY <3>1
    <3>3. processed \in Seq(Event)
      BY <2>2 DEF TypeOK
    <3>4. processed[i] \in Event /\ processed[j] \in Event
      BY <3>1, <3>2, <3>3
    <3> QED BY <3>4
  <2>5. a.ts \in Nat /\ b.ts \in Nat /\ b.at \in Nat /\ Grace \in Nat
    BY <2>2, EventTyped, OptionsTyped
  <2>6. b.ts < a.ts /\ (b.ts >= a.ts \/ b.at >= a.ts + Grace)
    BY <2>3, <2>4
  <2>7. b.at > b.ts + Grace
    BY <2>5, <2>6
  <2> QED BY <2>4, <2>7
<1> QED BY <1>1, Invariance, PTL

\* flush_log returns only when the sinks were given, and flushed, everything
\* that any thread had published before it with an earlier timestamp, under
\* the same condition.
THEOREM FlushCovers == Spec => [](ContextsKnown => FlushCoversEarlierEvents)
<1>1. IInv => (ContextsKnown => FlushCoversEarlierEvents)
  BY DEF IInv, FlushesRight, FlushCoversEarlierEvents
<1> QED BY <1>1, Invariance, PTL
=============================================================================
