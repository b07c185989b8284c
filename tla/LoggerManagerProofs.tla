------------------------- MODULE LoggerManagerProofs -------------------------
(***************************************************************************)
(* Removed loggers are destroyed when nothing refers to them any more, and *)
(* never forgotten, for any number of threads, names and sinks.            *)
(***************************************************************************)
EXTENDS LoggerManager, SequenceTheorems, TLAPS

\* A name has one logger; the loop under the lock visits registered loggers only.
RegistryRight ==
  /\ \A l, m \in loggers : l.name = m.name => l = m
  /\ \A l \in loggers : l.gen <= gens[l.name]
  /\ toScan \subseteq loggers

\* A thread inside a removal is the only one that removes its logger, which it
\* has not yet marked or which stays marked.
RemovalsRight ==
  \A t \in Threads : tpc[t] # "idle" =>
    /\ target[t] \in Logger /\ target[t].gen <= gens[target[t].name]
    /\ target[t] \in valid <=> tpc[t] \in {"request", "mark"}
    /\ \A u \in Threads : tpc[u] # "idle" /\ target[u] = target[t] => u = t
    /\ tpc[t] = "request" => blocking[t] /\ ~complete[t]
    /\ tpc[t] = "wait" => blocking[t]

\* The request of a removal is in the queue, or its flag is in the map, once.
RequestsOnce ==
  \A t \in Threads : \A i \in DOMAIN queue[t] : queue[t][i].kind = "removal" =>
    /\ queue[t][i].from = t /\ Waits(t) /\ queue[t][i].logger = target[t]
    /\ \A j \in DOMAIN queue[t] : queue[t][j].kind = "removal" => j = i
    /\ \A n \in Names : removalFlags[n] # t

\* A flag in the map is that of a call for this name, whose logger is gone from
\* the registry when the name is among the removed ones.
FlagsRight ==
  \A n \in Names : removalFlags[n] # NoThread =>
    /\ Waits(removalFlags[n]) /\ target[removalFlags[n]].name = n
    /\ n \in removed => target[removalFlags[n]] \notin loggers

\* What a cleanup has found is used up step by step.
CleanupPhases ==
  /\ bpc # "scan" => toScan = {}
  /\ bpc \notin {"scan", "destroy"} => doomed = {}
  /\ bpc \in {"poll", "stopped"} => removed = {}
  /\ \A l \in doomed : l.name \in removed

\* An open sink has an owner, and the id of a closed one is about to go.
SinksOwned ==
  /\ \A s \in openSinks : \E l \in loggers \cup doomed : l.sink = s
  /\ \A s \in sinkIds : s \in openSinks \/ bpc = "sinks"

\* A completed removal has no logger any more.
CompletedAreGone ==
  \A t \in Threads : blocking[t] /\ tpc[t] \in {"mark", "raise", "wait"} /\ complete[t] =>
    target[t] \notin loggers \cup doomed

\* The events' loggers are registered.
EventsRegistered ==
  \A t \in Threads : /\ \A i \in DOMAIN queue[t] : queue[t][i].logger \in loggers
                     /\ \A i \in DOMAIN buffer[t] : buffer[t][i].logger \in loggers

IInv ==
  /\ TypeOK /\ RegistryRight /\ RemovalsRight /\ RequestsOnce /\ FlagsRight
  /\ CleanupPhases /\ SinksOwned /\ CompletedAreGone /\ EventsRegistered
  /\ InvalidatedAreNoticed
-----------------------------------------------------------------------------
(***************************************************************************)
(* Queues of events.                                                       *)
(***************************************************************************)

\* What is in a queue after an event is put behind.
LEMMA AppendedEvents ==
  ASSUME NEW q \in Seq(Event), NEW e \in Event
  PROVE  /\ Append(q, e) \in Seq(Event)
         /\ \A i \in DOMAIN q : i \in DOMAIN Append(q, e) /\ Append(q, e)[i] = q[i]
         /\ \A i \in DOMAIN Append(q, e) :
              \/ i \in DOMAIN q /\ Append(q, e)[i] = q[i]
              \/ i = Len(q) + 1 /\ i \notin DOMAIN q /\ Append(q, e)[i] = e
  BY AppendProperties

\* What is in a queue after its first event is taken.
LEMMA RemainingEvents ==
  ASSUME NEW q \in Seq(Event), q # <<>>
  PROVE  /\ Tail(q) \in Seq(Event) /\ Head(q) \in Event
         /\ 1 \in DOMAIN q /\ Head(q) = q[1]
         /\ \A i \in DOMAIN Tail(q) :
              i \in Nat \ {0} /\ i + 1 \in DOMAIN q /\ Tail(q)[i] = q[i + 1]
  BY HeadTailProperties

(***************************************************************************)
(* Every step keeps each part of the invariant.                            *)
(***************************************************************************)

\* The sink of a logger that is created is one of the sinks, given or inherited.
LEMMA FrontendSteps ==
  ASSUME IInv, NEW t \in Threads, Frontend(t)
  PROVE  \/ \E n \in Names, s \in Sinks : CreateLogger(t, n, s)
         \/ \E l \in valid : LogStatement(t, l) \/ RemoveLogger(t, l) \/ RemoveLoggerBlocking(t, l)
         \/ SendRequest(t) \/ MarkInvalid(t) \/ RaiseFlag(t) \/ BlockingReturn(t)
<1>1. \A l \in valid : l.sink \in Sinks
  BY DEF IInv, TypeOK, Logger
<1> QED BY <1>1 DEF Frontend, CreateWithSink, CreateOrGetLogger

\* Every step keeps the types, and the registry the valid loggers.
LEMMA TypeNext == IInv /\ [Next]_vars => TypeOK'
<1> SUFFICES ASSUME IInv, [Next]_vars PROVE TypeOK'
  OBVIOUS
<1> USE DEF IInv, TypeOK, RemovalsRight, EventsRegistered, Event, Logger
<1>1. ASSUME NEW t \in Threads, NEW n \in Names, NEW s \in Sinks, CreateLogger(t, n, s)
      PROVE  TypeOK'
  <2> DEFINE x == [name |-> n, gen |-> gens[n] + 1, sink |-> s]
  <2>1. x \in Logger
    OBVIOUS
  <2> HIDE DEF Logger, x, Event
  <2>2. loggers' = loggers \cup {x} /\ valid' = valid \cup {x}
    BY <1>1 DEF CreateLogger, x
  <2>3. loggers' \subseteq Logger /\ valid' \subseteq loggers'
    BY <2>1, <2>2
  <2>4. gens' \in [Names -> Nat] /\ openSinks' \subseteq Sinks /\ sinkIds' \subseteq Sinks
    BY <1>1 DEF CreateLogger
  <2> QED BY <1>1, <2>3, <2>4 DEF CreateLogger, tvars, cvars
<1>2. ASSUME NEW t \in Threads, NEW l \in valid, LogStatement(t, l) PROVE TypeOK'
  <2> DEFINE e == [kind |-> "log", logger |-> l, from |-> t]
  <2>1. e \in Event
    OBVIOUS
  <2> HIDE DEF e, Event
  <2>2. queue' = [queue EXCEPT ![t] = Append(@, e)] /\ sent' = [sent EXCEPT ![t] = @ + 1] /\ sent[t] < MaxEvents
    BY <1>2 DEF LogStatement, e
  <2>3. queue' \in [Threads -> Seq(Event)] /\ sent' \in [Threads -> 0..MaxEvents]
    BY <2>1, <2>2, ConstantsAssumption
  <2> QED BY <1>2, <2>3 DEF LogStatement, tvars, cvars
<1>3. ASSUME NEW t \in Threads, NEW l \in valid, RemoveLogger(t, l) PROVE TypeOK'
  BY <1>3, ConstantsAssumption DEF RemoveLogger, tvars, cvars
<1>4. ASSUME NEW t \in Threads, NEW l \in valid, RemoveLoggerBlocking(t, l) PROVE TypeOK'
  BY <1>4, ConstantsAssumption DEF RemoveLoggerBlocking, tvars, cvars
<1>5. ASSUME NEW t \in Threads, SendRequest(t) PROVE TypeOK'
  <2> DEFINE e == [kind |-> "removal", logger |-> target[t], from |-> t]
  <2>1. e \in Event
    BY <1>5 DEF SendRequest
  <2> HIDE DEF e, Event
  <2>2. queue' = [queue EXCEPT ![t] = Append(@, e)]
    BY <1>5 DEF SendRequest, e
  <2>3. queue' \in [Threads -> Seq(Event)]
    BY <2>1, <2>2
  <2> QED BY <1>5, <2>3 DEF SendRequest, tvars, cvars
<1>6. ASSUME NEW t \in Threads, MarkInvalid(t) PROVE TypeOK'
  BY <1>6, ConstantsAssumption DEF MarkInvalid, tvars, cvars
<1>7. ASSUME NEW t \in Threads, RaiseFlag(t) PROVE TypeOK'
  BY <1>7, ConstantsAssumption DEF RaiseFlag, tvars, cvars
<1>8. ASSUME NEW t \in Threads, BlockingReturn(t) PROVE TypeOK'
  BY <1>8, ConstantsAssumption DEF BlockingReturn, tvars, cvars
<1>9. ASSUME NEW t \in Threads, Populate(t) PROVE TypeOK'
  <2> DEFINE e == Head(queue[t])
  <2>1. e \in Event /\ Tail(queue[t]) \in Seq(Event)
    BY <1>9, RemainingEvents DEF Populate
  <2>2. e.from \in Threads
    BY <2>1
  <2>3. removalFlags' \in [Names -> Threads \cup {NoThread}]
    BY <1>9, <2>2 DEF Populate
  <2> HIDE DEF Event, e
  <2>4. buffer' = [buffer EXCEPT ![t] = Append(@, e)] /\ queue' = [queue EXCEPT ![t] = Tail(@)]
    BY <1>9 DEF Populate, e
  <2>5. buffer' \in [Threads -> Seq(Event)] /\ queue' \in [Threads -> Seq(Event)]
    BY <2>1, <2>4
  <2> QED BY <1>9, <2>3, <2>5 DEF Populate, tvars, cvars
<1>10. ASSUME NEW t \in Threads, Process(t) PROVE TypeOK'
  <2> HIDE DEF Event
  <2>1. Tail(buffer[t]) \in Seq(Event) /\ buffer' = [buffer EXCEPT ![t] = Tail(@)]
    BY <1>10, RemainingEvents DEF Process
  <2>2. buffer' \in [Threads -> Seq(Event)]
    BY <2>1
  <2> QED BY <1>10, <2>2 DEF Process, tvars, cvars
<1>11. ASSUME Idle PROVE TypeOK'
  BY <1>11, ConstantsAssumption DEF Idle, StartCleanup, tvars, cvars
<1>12. ASSUME NEW l \in toScan, Scan(l) PROVE TypeOK'
  <2> HIDE DEF Event
  <2>1. l \in Logger /\ l.name \in Names
    OBVIOUS
  <2> HIDE DEF Logger
  <2>2. /\ toScan' = toScan \ {l}
        /\ \/ loggers' = loggers /\ removed' = removed /\ doomed' = doomed
           \/ /\ l \notin valid /\ loggers' = loggers \ {l}
              /\ doomed' = doomed \cup {l} /\ removed' = removed \cup {l.name}
        /\ hasInvalid' \in BOOLEAN /\ valid' = valid
    BY <1>12 DEF Scan
  <2>3. /\ loggers' \subseteq Logger /\ valid' \subseteq loggers'
        /\ toScan' \subseteq Logger /\ doomed' \subseteq Logger /\ removed' \subseteq Names
    BY <2>1, <2>2
  <2> QED BY <1>12, <2>2, <2>3 DEF Scan, tvars
<1>13. ASSUME Unlock PROVE TypeOK'
  BY <1>13, ConstantsAssumption DEF Unlock, tvars, cvars
<1>14. ASSUME Destroy PROVE TypeOK'
  BY <1>14, ConstantsAssumption DEF Destroy, tvars, cvars
<1>15. ASSUME CleanupUnusedSinks PROVE TypeOK'
  BY <1>15, ConstantsAssumption DEF CleanupUnusedSinks, tvars, cvars
<1>16. ASSUME NEW n \in removed, NotifyRemoved(n) PROVE TypeOK'
  BY <1>16, ConstantsAssumption DEF NotifyRemoved, tvars, cvars
<1>17. ASSUME Stop PROVE TypeOK'
  <2>1. stops' \in 0..MaxStops
    BY <1>17, ConstantsAssumption DEF Stop
  <2> QED BY <1>17, <2>1 DEF Stop, StartCleanup, tvars
<1>18. ASSUME Start PROVE TypeOK'
  BY <1>18, ConstantsAssumption DEF Start, tvars, cvars
<1>19. ASSUME UNCHANGED vars PROVE TypeOK'
  BY <1>19, ConstantsAssumption DEF vars, tvars, cvars
<1> HIDE DEF IInv, TypeOK, RemovalsRight, EventsRegistered, Event, Logger
<1> QED BY <1>1, <1>2, <1>3, <1>4, <1>5, <1>6, <1>7, <1>8, <1>9, <1>10,
        <1>11, <1>12, <1>13, <1>14, <1>15, <1>16, <1>17, <1>18, <1>19, FrontendSteps
     DEF Next, Backend

\* Every step keeps one logger for a name.
LEMMA RegistryNext == IInv /\ [Next]_vars => RegistryRight'
<1> SUFFICES ASSUME IInv, [Next]_vars PROVE RegistryRight'
  OBVIOUS
<1> USE DEF IInv, TypeOK, RegistryRight, CleanupPhases, Logger, Locked
<1>1. ASSUME NEW t \in Threads, NEW n \in Names, NEW s \in Sinks, CreateLogger(t, n, s)
      PROVE  RegistryRight'
  BY <1>1 DEF CreateLogger, tvars, cvars
<1>2. ASSUME NEW t \in Threads, NEW l \in valid, LogStatement(t, l) PROVE RegistryRight'
  BY <1>2 DEF LogStatement, tvars, cvars
<1>3. ASSUME NEW t \in Threads, NEW l \in valid, RemoveLogger(t, l) PROVE RegistryRight'
  BY <1>3 DEF RemoveLogger, tvars, cvars
<1>4. ASSUME NEW t \in Threads, NEW l \in valid, RemoveLoggerBlocking(t, l) PROVE RegistryRight'
  BY <1>4 DEF RemoveLoggerBlocking, tvars, cvars
<1>5. ASSUME NEW t \in Threads, SendRequest(t) PROVE RegistryRight'
  BY <1>5 DEF SendRequest, tvars, cvars
<1>6. ASSUME NEW t \in Threads, MarkInvalid(t) PROVE RegistryRight'
  BY <1>6 DEF MarkInvalid, tvars, cvars
<1>7. ASSUME NEW t \in Threads, RaiseFlag(t) PROVE RegistryRight'
  BY <1>7 DEF RaiseFlag, tvars, cvars
<1>8. ASSUME NEW t \in Threads, BlockingReturn(t) PROVE RegistryRight'
  BY <1>8 DEF BlockingReturn, tvars, cvars
<1>9. ASSUME NEW t \in Threads, Populate(t) PROVE RegistryRight'
  BY <1>9 DEF Populate, tvars, cvars
<1>10. ASSUME NEW t \in Threads, Process(t) PROVE RegistryRight'
  BY <1>10 DEF Process, tvars, cvars
<1>11. ASSUME Idle PROVE RegistryRight'
  BY <1>11 DEF Idle, StartCleanup, tvars, cvars
<1>12. ASSUME NEW l \in toScan, Scan(l) PROVE RegistryRight'
  BY <1>12 DEF Scan, tvars, cvars
<1>13. ASSUME Unlock PROVE RegistryRight'
  BY <1>13 DEF Unlock, tvars, cvars
<1>14. ASSUME Destroy PROVE RegistryRight'
  BY <1>14 DEF Destroy, tvars, cvars
<1>15. ASSUME CleanupUnusedSinks PROVE RegistryRight'
  BY <1>15 DEF CleanupUnusedSinks, tvars, cvars
<1>16. ASSUME NEW n \in removed, NotifyRemoved(n) PROVE RegistryRight'
  BY <1>16 DEF NotifyRemoved, tvars, cvars
<1>17. ASSUME Stop PROVE RegistryRight'
  BY <1>17 DEF Stop, StartCleanup, tvars, cvars
<1>18. ASSUME Start PROVE RegistryRight'
  BY <1>18 DEF Start, tvars, cvars
<1>19. ASSUME UNCHANGED vars PROVE RegistryRight'
  BY <1>19 DEF vars, tvars, cvars
<1> HIDE DEF IInv, TypeOK, RegistryRight, CleanupPhases, Logger, Locked
<1> QED BY <1>1, <1>2, <1>3, <1>4, <1>5, <1>6, <1>7, <1>8, <1>9, <1>10,
        <1>11, <1>12, <1>13, <1>14, <1>15, <1>16, <1>17, <1>18, <1>19, FrontendSteps
     DEF Next, Backend

\* One thread at a time removes a logger.
LEMMA RemovalsNext == IInv /\ [Next]_vars => RemovalsRight'
<1> SUFFICES ASSUME IInv, [Next]_vars PROVE RemovalsRight'
  OBVIOUS
<1> USE DEF IInv, TypeOK, RegistryRight, RemovalsRight, Retired, Logger, FlagsRight, Waits
<1>1. ASSUME NEW t \in Threads, NEW n \in Names, NEW s \in Sinks, CreateLogger(t, n, s)
      PROVE  RemovalsRight'
  BY <1>1, ConstantsAssumption DEF CreateLogger, tvars, cvars
<1>2. ASSUME NEW t \in Threads, NEW l \in valid, LogStatement(t, l) PROVE RemovalsRight'
  BY <1>2, ConstantsAssumption DEF LogStatement, tvars, cvars
<1>3. ASSUME NEW t \in Threads, NEW l \in valid, RemoveLogger(t, l) PROVE RemovalsRight'
  <2>1. /\ tpc' = [tpc EXCEPT ![t] = tpc'[t]] /\ target' = [target EXCEPT ![t] = l]
        /\ tpc'[t] \in {"request", "mark"} /\ tpc'[t] # "wait"
        /\ tpc'[t] = "request" => blocking'[t] /\ ~complete'[t]
        /\ \A u \in Threads \ {t} : blocking'[u] = blocking[u] /\ complete'[u] = complete[u]
        /\ valid' = valid /\ gens' = gens
    BY <1>3 DEF RemoveLogger
  <2>2. /\ l \in Logger /\ l.gen <= gens[l.name]
        /\ \A u \in Threads : tpc[u] # "idle" => target[u] # l
    BY <1>3 DEF RemoveLogger
  <2> HIDE DEF Logger
  <2> QED BY <2>1, <2>2
<1>4. ASSUME NEW t \in Threads, NEW l \in valid, RemoveLoggerBlocking(t, l) PROVE RemovalsRight'
  <2>1. /\ tpc' = [tpc EXCEPT ![t] = tpc'[t]] /\ target' = [target EXCEPT ![t] = l]
        /\ tpc'[t] \in {"request", "mark"} /\ tpc'[t] # "wait"
        /\ tpc'[t] = "request" => blocking'[t] /\ ~complete'[t]
        /\ \A u \in Threads \ {t} : blocking'[u] = blocking[u] /\ complete'[u] = complete[u]
        /\ valid' = valid /\ gens' = gens
    BY <1>4 DEF RemoveLoggerBlocking
  <2>2. /\ l \in Logger /\ l.gen <= gens[l.name]
        /\ \A u \in Threads : tpc[u] # "idle" => target[u] # l
    BY <1>4 DEF RemoveLoggerBlocking
  <2> HIDE DEF Logger
  <2> QED BY <2>1, <2>2
<1>5. ASSUME NEW t \in Threads, SendRequest(t) PROVE RemovalsRight'
  BY <1>5, ConstantsAssumption DEF SendRequest, tvars, cvars
<1>6. ASSUME NEW t \in Threads, MarkInvalid(t) PROVE RemovalsRight'
  BY <1>6, ConstantsAssumption DEF MarkInvalid, tvars, cvars
<1>7. ASSUME NEW t \in Threads, RaiseFlag(t) PROVE RemovalsRight'
  BY <1>7, ConstantsAssumption DEF RaiseFlag, tvars, cvars
<1>8. ASSUME NEW t \in Threads, BlockingReturn(t) PROVE RemovalsRight'
  BY <1>8, ConstantsAssumption DEF BlockingReturn, tvars, cvars
<1>9. ASSUME NEW t \in Threads, Populate(t) PROVE RemovalsRight'
  BY <1>9, ConstantsAssumption DEF Populate, tvars, cvars
<1>10. ASSUME NEW t \in Threads, Process(t) PROVE RemovalsRight'
  BY <1>10, ConstantsAssumption DEF Process, tvars, cvars
<1>11. ASSUME Idle PROVE RemovalsRight'
  BY <1>11, ConstantsAssumption DEF Idle, StartCleanup, tvars, cvars
<1>12. ASSUME NEW l \in toScan, Scan(l) PROVE RemovalsRight'
  BY <1>12, ConstantsAssumption DEF Scan, tvars, cvars
<1>13. ASSUME Unlock PROVE RemovalsRight'
  BY <1>13, ConstantsAssumption DEF Unlock, tvars, cvars
<1>14. ASSUME Destroy PROVE RemovalsRight'
  BY <1>14, ConstantsAssumption DEF Destroy, tvars, cvars
<1>15. ASSUME CleanupUnusedSinks PROVE RemovalsRight'
  BY <1>15, ConstantsAssumption DEF CleanupUnusedSinks, tvars, cvars
<1>16. ASSUME NEW n \in removed, NotifyRemoved(n) PROVE RemovalsRight'
  BY <1>16, ConstantsAssumption DEF NotifyRemoved, tvars, cvars
<1>17. ASSUME Stop PROVE RemovalsRight'
  BY <1>17, ConstantsAssumption DEF Stop, StartCleanup, tvars, cvars
<1>18. ASSUME Start PROVE RemovalsRight'
  BY <1>18, ConstantsAssumption DEF Start, tvars, cvars
<1>19. ASSUME UNCHANGED vars PROVE RemovalsRight'
  BY <1>19, ConstantsAssumption DEF vars, tvars, cvars
<1> HIDE DEF IInv, TypeOK, RegistryRight, RemovalsRight, Retired, Logger, FlagsRight, Waits
<1> QED BY <1>1, <1>2, <1>3, <1>4, <1>5, <1>6, <1>7, <1>8, <1>9, <1>10,
        <1>11, <1>12, <1>13, <1>14, <1>15, <1>16, <1>17, <1>18, <1>19, FrontendSteps
     DEF Next, Backend

\* A call waits until it is told that its logger is gone.
LEMMA WaitsLasts ==
  ASSUME IInv, [Next]_vars, NEW u \in Threads, Waits(u),
         ~\E n \in removed : removalFlags[n] = u /\ NotifyRemoved(n)
  PROVE  Waits(u)' /\ target'[u] = target[u]
<1> USE DEF IInv, TypeOK, Waits
<1> DEFINE Goal == Waits(u)' /\ target'[u] = target[u]
<1>1. ASSUME NEW t \in Threads, Frontend(t) PROVE Goal
  BY <1>1 DEF Frontend, CreateWithSink, CreateOrGetLogger, CreateLogger, LogStatement, RemoveLogger,
       RemoveLoggerBlocking, SendRequest,
              MarkInvalid, RaiseFlag, BlockingReturn, tvars
<1>2. ASSUME NEW n \in removed, NotifyRemoved(n) PROVE Goal
  BY <1>2 DEF NotifyRemoved, tvars
<1>3. ASSUME UNCHANGED <<tvars, complete>> PROVE Goal
  BY <1>3 DEF tvars
<1> HIDE DEF IInv, TypeOK, Waits
<1> QED
  BY <1>1, <1>2, <1>3 DEF Next, Backend, Populate, Process, Idle, Scan, Unlock, Destroy,
     CleanupUnusedSinks, Stop, Start, StartCleanup, vars

\* The actions that change the queues, and those that change the map of flags.
LEMMA QueueSteps ==
  ASSUME [Next]_vars
  PROVE  /\ \/ queue' = queue
            \/ \E t \in Threads : \/ Populate(t) \/ SendRequest(t)
                                  \/ \E l \in valid : LogStatement(t, l)
         /\ \/ removalFlags' = removalFlags
            \/ \E t \in Threads : Populate(t)
            \/ Start \/ \E n \in removed : NotifyRemoved(n)
<1> DEFINE Goal == /\ \/ queue' = queue
                      \/ \E t \in Threads : \/ Populate(t) \/ SendRequest(t)
                                            \/ \E l \in valid : LogStatement(t, l)
                   /\ \/ removalFlags' = removalFlags
                      \/ \E t \in Threads : Populate(t)
                      \/ Start \/ \E n \in removed : NotifyRemoved(n)
<1>1. ASSUME NEW t \in Threads, Frontend(t) PROVE Goal
  BY <1>1 DEF Frontend, CreateWithSink, CreateOrGetLogger, CreateLogger, RemoveLogger,
       RemoveLoggerBlocking, LogStatement,
              SendRequest, MarkInvalid, RaiseFlag, BlockingReturn
<1>2. ASSUME Backend \/ Stop \/ Start PROVE Goal
  BY <1>2 DEF Backend, Process, Idle, Scan, Unlock, Destroy, CleanupUnusedSinks, NotifyRemoved,
              Start, Stop, StartCleanup
<1>3. ASSUME UNCHANGED vars PROVE Goal
  BY <1>3 DEF vars
<1> HIDE DEF Goal
<1>4. Goal
  BY <1>1, <1>2, <1>3 DEF Next
<1> QED BY <1>4 DEF Goal

\* A request waits in one place, while its call waits.
LEMMA RequestsNext == IInv /\ [Next]_vars => RequestsOnce'
<1> SUFFICES ASSUME IInv, [Next]_vars PROVE RequestsOnce'
  OBVIOUS
<1>0. /\ queue \in [Threads -> Seq(Event)] /\ NoThread \notin Threads
      /\ RequestsOnce /\ FlagsRight /\ RemovalsRight
  BY ConstantsAssumption DEF IInv, TypeOK
<1>1. ASSUME NEW t \in Threads, NEW l \in valid, LogStatement(t, l) PROVE RequestsOnce'
  <2> DEFINE e == [kind |-> "log", logger |-> l, from |-> t]
  <2>1. queue' = [queue EXCEPT ![t] = Append(queue[t], e)] /\ e.kind = "log" /\ e \in Event
    BY <1>1 DEF LogStatement, IInv, TypeOK, Event
  <2>2. /\ removalFlags' = removalFlags /\ target' = target
        /\ \A u \in Threads : Waits(u) => Waits(u)'
    BY <1>1 DEF LogStatement, Waits
  <2> HIDE DEF e
  <2>3. \A u \in Threads : \A i \in DOMAIN queue'[u] : queue'[u][i].kind = "removal" =>
           i \in DOMAIN queue[u] /\ queue'[u][i] = queue[u][i]
    BY <1>0, <2>1, AppendedEvents
  <2> QED BY <1>0, <2>2, <2>3 DEF RequestsOnce
<1>2. ASSUME NEW t \in Threads, SendRequest(t) PROVE RequestsOnce'
  <2> DEFINE e == [kind |-> "removal", logger |-> target[t], from |-> t]
  <2>1. queue' = [queue EXCEPT ![t] = Append(queue[t], e)] /\ e.from = t /\ e.logger = target[t] /\ e \in Event
    BY <1>2 DEF SendRequest, IInv, TypeOK, Event, RemovalsRight
  <2>2. /\ removalFlags' = removalFlags /\ target' = target /\ ~Waits(t) /\ Waits(t)'
        /\ \A u \in Threads : Waits(u) => Waits(u)'
    BY <1>0, <1>2 DEF SendRequest, Waits, RemovalsRight, IInv, TypeOK
  <2> HIDE DEF e
  <2>3. \A u \in Threads \ {t} : queue'[u] = queue[u]
    BY <1>0, <2>1
  <2>4. \A i \in DOMAIN queue[t] : queue[t][i].kind # "removal"
    BY <1>0, <2>2 DEF RequestsOnce
  <2>5. \A i \in DOMAIN queue'[t] : queue'[t][i].kind = "removal" =>
          i = Len(queue[t]) + 1 /\ queue'[t][i] = e
    BY <1>0, <2>1, <2>4, AppendedEvents
  <2>6. \A n \in Names : removalFlags[n] # t
    BY <1>0, <2>2 DEF FlagsRight
  <2> QED BY <1>0, <2>1, <2>2, <2>3, <2>5, <2>6 DEF RequestsOnce
<1>3. ASSUME NEW t \in Threads, Populate(t) PROVE RequestsOnce'
  <2>1. /\ queue' = [queue EXCEPT ![t] = Tail(queue[t])] /\ queue[t] # <<>> /\ target' = target
        /\ \A u \in Threads : Waits(u) => Waits(u)'
        /\ \A n \in Names : \/ removalFlags'[n] = removalFlags[n]
                            \/ Head(queue[t]).kind = "removal" /\ removalFlags'[n] = Head(queue[t]).from
    BY <1>3 DEF Populate, tvars, Waits, IInv, TypeOK
  <2>2. /\ 1 \in DOMAIN queue[t] /\ Head(queue[t]) = queue[t][1]
        /\ \A i \in DOMAIN Tail(queue[t]) :
             i \in Nat \ {0} /\ i + 1 \in DOMAIN queue[t] /\ Tail(queue[t])[i] = queue[t][i + 1]
    BY <1>0, <2>1, RemainingEvents
  <2>3. \A u \in Threads \ {t} : queue'[u] = queue[u]
    BY <1>0, <2>1
  <2>4. queue'[t] = Tail(queue[t])
    BY <1>0, <2>1
  <2>5. ASSUME Head(queue[t]).kind = "removal"
        PROVE  Head(queue[t]).from = t /\ \A i \in DOMAIN queue'[t] : queue'[t][i].kind # "removal"
    BY <1>0, <2>2, <2>4, <2>5 DEF RequestsOnce
  <2>6. ASSUME NEW u \in Threads, NEW i \in DOMAIN queue'[u], queue'[u][i].kind = "removal", NEW n \in Names
        PROVE  removalFlags'[n] # u
    <3>1. CASE u = t
      BY <1>0, <2>1, <2>2, <2>4, <2>5, <2>6, <3>1 DEF RequestsOnce
    <3>2. CASE u # t
      BY <1>0, <2>1, <2>3, <2>5, <2>6, <3>2 DEF RequestsOnce
    <3> QED BY <3>1, <3>2
  <2>7. ASSUME NEW u \in Threads, NEW i \in DOMAIN queue'[u], queue'[u][i].kind = "removal"
        PROVE  /\ queue'[u][i].from = u /\ Waits(u)' /\ queue'[u][i].logger = target'[u]
               /\ \A j \in DOMAIN queue'[u] : queue'[u][j].kind = "removal" => j = i
    <3>1. CASE u = t
      BY <1>0, <2>1, <2>2, <2>4, <2>7, <3>1 DEF RequestsOnce
    <3>2. CASE u # t
      BY <1>0, <2>1, <2>3, <2>7, <3>2 DEF RequestsOnce
    <3> QED BY <3>1, <3>2
  <2> QED BY <2>6, <2>7 DEF RequestsOnce
<1>4. ASSUME NEW n \in removed, NotifyRemoved(n) PROVE RequestsOnce'
  <2>1. /\ queue' = queue /\ target' = target
        /\ \A u \in Threads : Waits(u) /\ removalFlags[n] # u => Waits(u)'
        /\ \A m \in Names : removalFlags'[m] \in {removalFlags[m], NoThread}
    BY <1>4 DEF NotifyRemoved, tvars, Waits, IInv, TypeOK
  <2>2. n \in Names
    BY DEF IInv, TypeOK
  <2> QED BY <1>0, <2>1, <2>2 DEF RequestsOnce
<1>5. ASSUME Start PROVE RequestsOnce'
  <2>1. /\ queue' = queue /\ target' = target
        /\ \A u \in Threads : Waits(u) => Waits(u)'
        /\ \A m \in Names : removalFlags'[m] = NoThread
    BY <1>5 DEF Start, tvars, Waits
  <2> QED BY <1>0, <2>1 DEF RequestsOnce
<1>6. ASSUME queue' = queue, removalFlags' = removalFlags, ~\E n \in removed : NotifyRemoved(n)
      PROVE  RequestsOnce'
  BY <1>0, <1>6, WaitsLasts DEF RequestsOnce
<1> QED BY <1>1, <1>2, <1>3, <1>4, <1>5, <1>6, QueueSteps

\* A logger that a call waits for leaves the registry together with its name.
LEMMA RegistrySteps ==
  ASSUME IInv, [Next]_vars
  PROVE  \/ removed' \subseteq removed /\ \A l \in loggers' : l \in loggers \/ l.gen > gens[l.name]
         \/ \E l \in toScan : /\ loggers' = loggers \ {l} /\ removed' = removed \cup {l.name}
                              /\ removalFlags' = removalFlags /\ target' = target
<1> DEFINE Goal == \/ removed' \subseteq removed /\ \A l \in loggers' : l \in loggers \/ l.gen > gens[l.name]
                   \/ \E l \in toScan : /\ loggers' = loggers \ {l} /\ removed' = removed \cup {l.name}
                                        /\ removalFlags' = removalFlags /\ target' = target
<1>1. ASSUME NEW t \in Threads, NEW n \in Names, NEW s \in Sinks, CreateLogger(t, n, s) PROVE Goal
  BY <1>1 DEF CreateLogger, cvars, IInv, TypeOK
<1>2. ASSUME NEW l \in toScan, Scan(l) PROVE Goal
  BY <1>2 DEF Scan, tvars
<1>3. ASSUME NEW n \in removed, NotifyRemoved(n) PROVE Goal
  BY <1>3 DEF NotifyRemoved
<1>4. ASSUME UNCHANGED <<removed, loggers>> PROVE Goal
  BY <1>4
<1> HIDE DEF Goal
<1>5. ASSUME NEW t \in Threads, Frontend(t) PROVE Goal
  BY <1>1, <1>4, <1>5, FrontendSteps DEF RemoveLogger, RemoveLoggerBlocking, LogStatement,
     SendRequest, MarkInvalid, RaiseFlag, BlockingReturn, cvars
<1>6. ASSUME Backend \/ Stop \/ Start PROVE Goal
  BY <1>2, <1>3, <1>4, <1>6 DEF Backend, Populate, Process, Idle, Unlock, Destroy, CleanupUnusedSinks,
     Start, Stop, StartCleanup, cvars
<1>7. ASSUME UNCHANGED vars PROVE Goal
  BY <1>4, <1>7 DEF vars, cvars
<1>8. Goal
  BY <1>5, <1>6, <1>7 DEF Next
<1> QED BY <1>8 DEF Goal

\* Every flag in the map stays that of a waiting call.
LEMMA FlagsNext == IInv /\ [Next]_vars => FlagsRight'
<1> SUFFICES ASSUME IInv, [Next]_vars PROVE FlagsRight'
  OBVIOUS
<1>0. /\ NoThread \notin Threads /\ removalFlags \in [Names -> Threads \cup {NoThread}]
      /\ FlagsRight /\ RemovalsRight /\ RequestsOnce /\ RegistryRight
      /\ \A l \in loggers : l.name \in Names
  BY ConstantsAssumption DEF IInv, TypeOK, Logger
<1>1. ASSUME NEW n \in Names, NEW u \in Threads, removalFlags[n] = u, Waits(u)', target'[u] = target[u]
      PROVE  target'[u].name = n /\ (n \in removed' => target'[u] \notin loggers')
  <2>1. Waits(u) /\ target[u].name = n /\ (n \in removed => target[u] \notin loggers)
    BY <1>0, <1>1 DEF FlagsRight
  <2>2. target[u] \in Logger /\ target[u].gen <= gens[n]
    BY <1>0, <2>1 DEF Waits, RemovalsRight
  <2>3. target[u].gen \in Nat /\ gens[n] \in Nat
    BY <2>2 DEF Logger, IInv, TypeOK
  <2>4. CASE removed' \subseteq removed /\ \A l \in loggers' : l \in loggers \/ l.gen > gens[l.name]
    BY <1>1, <2>1, <2>2, <2>3, <2>4
  <2>5. CASE \E l \in toScan : loggers' = loggers \ {l} /\ removed' = removed \cup {l.name}
    BY <1>0, <1>1, <2>1, <2>5 DEF RegistryRight
  <2> QED BY <2>4, <2>5, RegistrySteps
<1>2. ASSUME \A n \in Names : removalFlags'[n] # NoThread =>
               \E u \in Threads : /\ removalFlags'[n] = u /\ Waits(u)' /\ target'[u].name = n
                                  /\ n \in removed' => target'[u] \notin loggers'
      PROVE  FlagsRight'
  BY <1>2 DEF FlagsRight, Waits
<1>3. ASSUME NEW t \in Threads, Populate(t) PROVE FlagsRight'
  <2> DEFINE e == Head(queue[t])
  <2>1. /\ bpc = "poll" /\ removed' = removed /\ target' = target /\ queue[t] # <<>>
        /\ \A u \in Threads : Waits(u) => Waits(u)'
        /\ removalFlags' = IF e.kind = "removal" /\ removalFlags[e.logger.name] = NoThread
                           THEN [removalFlags EXCEPT ![e.logger.name] = e.from] ELSE removalFlags
    BY <1>3 DEF Populate, tvars, cvars, Waits
  <2>2. 1 \in DOMAIN queue[t] /\ e = queue[t][1]
    BY <2>1, RemainingEvents DEF IInv, TypeOK
  <2>3. e.kind = "removal" => e.from = t /\ Waits(t) /\ e.logger = target[t]
    BY <1>0, <2>2 DEF RequestsOnce
  <2> HIDE DEF e
  <2>4. removed' = {}
    BY <2>1 DEF IInv, CleanupPhases
  <2>5. ASSUME NEW n \in Names, removalFlags'[n] # NoThread
        PROVE  \E u \in Threads : removalFlags'[n] = u /\ Waits(u) /\ target[u].name = n
    BY <1>0, <2>1, <2>3, <2>5 DEF FlagsRight
  <2> QED BY <1>2, <2>1, <2>4, <2>5
<1>4. ASSUME NEW m \in removed, NotifyRemoved(m) PROVE FlagsRight'
  <2>1. /\ target' = target /\ m \in Names
        /\ \A u \in Threads : Waits(u) /\ removalFlags[m] # u => Waits(u)'
        /\ removalFlags' = [removalFlags EXCEPT ![m] = NoThread]
    BY <1>4 DEF NotifyRemoved, tvars, Waits, IInv, TypeOK
  <2>2. ASSUME NEW n \in Names, removalFlags'[n] # NoThread
        PROVE  \E u \in Threads : removalFlags'[n] = u /\ removalFlags[n] = u /\ Waits(u)'
    <3>1. n # m /\ removalFlags'[n] = removalFlags[n]
      BY <1>0, <2>1, <2>2
    <3>2. PICK u \in Threads : removalFlags[n] = u
      BY <1>0, <2>2, <3>1
    <3>3. Waits(u) /\ removalFlags[m] # u
      BY <1>0, <2>1, <3>1, <3>2 DEF FlagsRight
    <3> QED BY <2>1, <3>1, <3>2, <3>3
  <2> QED BY <1>1, <1>2, <2>1, <2>2
<1>5. ASSUME Start PROVE FlagsRight'
  BY <1>5 DEF Start, FlagsRight
<1>6. ASSUME removalFlags' = removalFlags, ~\E n \in removed : NotifyRemoved(n) PROVE FlagsRight'
  <2>1. ASSUME NEW n \in Names, removalFlags'[n] # NoThread
        PROVE  \E u \in Threads : /\ removalFlags'[n] = u /\ removalFlags[n] = u /\ Waits(u)'
                                  /\ target'[u] = target[u]
    <3>1. PICK u \in Threads : removalFlags[n] = u
      BY <1>0, <1>6, <2>1
    <3>2. Waits(u)
      BY <1>0, <3>1 DEF FlagsRight
    <3> QED BY <1>6, <3>1, <3>2, WaitsLasts
  <2> QED BY <1>1, <1>2, <2>1
<1> QED BY <1>3, <1>4, <1>5, <1>6, QueueSteps

\* A cleanup uses up what it has found.
LEMMA PhasesNext == IInv /\ [Next]_vars => CleanupPhases'
<1> SUFFICES ASSUME IInv, [Next]_vars PROVE CleanupPhases'
  OBVIOUS
<1> USE DEF IInv, TypeOK, CleanupPhases
<1>1. ASSUME NEW t \in Threads, NEW n \in Names, NEW s \in Sinks, CreateLogger(t, n, s)
      PROVE  CleanupPhases'
  BY <1>1 DEF CreateLogger, tvars, cvars
<1>2. ASSUME NEW t \in Threads, NEW l \in valid, LogStatement(t, l) PROVE CleanupPhases'
  BY <1>2 DEF LogStatement, tvars, cvars
<1>3. ASSUME NEW t \in Threads, NEW l \in valid, RemoveLogger(t, l) PROVE CleanupPhases'
  BY <1>3 DEF RemoveLogger, tvars, cvars
<1>4. ASSUME NEW t \in Threads, NEW l \in valid, RemoveLoggerBlocking(t, l) PROVE CleanupPhases'
  BY <1>4 DEF RemoveLoggerBlocking, tvars, cvars
<1>5. ASSUME NEW t \in Threads, SendRequest(t) PROVE CleanupPhases'
  BY <1>5 DEF SendRequest, tvars, cvars
<1>6. ASSUME NEW t \in Threads, MarkInvalid(t) PROVE CleanupPhases'
  BY <1>6 DEF MarkInvalid, tvars, cvars
<1>7. ASSUME NEW t \in Threads, RaiseFlag(t) PROVE CleanupPhases'
  BY <1>7 DEF RaiseFlag, tvars, cvars
<1>8. ASSUME NEW t \in Threads, BlockingReturn(t) PROVE CleanupPhases'
  BY <1>8 DEF BlockingReturn, tvars, cvars
<1>9. ASSUME NEW t \in Threads, Populate(t) PROVE CleanupPhases'
  BY <1>9 DEF Populate, tvars, cvars
<1>10. ASSUME NEW t \in Threads, Process(t) PROVE CleanupPhases'
  BY <1>10 DEF Process, tvars, cvars
<1>11. ASSUME Idle PROVE CleanupPhases'
  BY <1>11 DEF Idle, StartCleanup, tvars, cvars
<1>12. ASSUME NEW l \in toScan, Scan(l) PROVE CleanupPhases'
  BY <1>12 DEF Scan, tvars, cvars
<1>13. ASSUME Unlock PROVE CleanupPhases'
  BY <1>13 DEF Unlock, tvars, cvars
<1>14. ASSUME Destroy PROVE CleanupPhases'
  BY <1>14 DEF Destroy, tvars, cvars
<1>15. ASSUME CleanupUnusedSinks PROVE CleanupPhases'
  BY <1>15 DEF CleanupUnusedSinks, tvars, cvars
<1>16. ASSUME NEW n \in removed, NotifyRemoved(n) PROVE CleanupPhases'
  BY <1>16 DEF NotifyRemoved, tvars, cvars
<1>17. ASSUME Stop PROVE CleanupPhases'
  BY <1>17 DEF Stop, StartCleanup, tvars, cvars
<1>18. ASSUME Start PROVE CleanupPhases'
  BY <1>18 DEF Start, tvars, cvars
<1>19. ASSUME UNCHANGED vars PROVE CleanupPhases'
  BY <1>19 DEF vars, tvars, cvars
<1> HIDE DEF IInv, TypeOK, CleanupPhases
<1> QED BY <1>1, <1>2, <1>3, <1>4, <1>5, <1>6, <1>7, <1>8, <1>9, <1>10,
        <1>11, <1>12, <1>13, <1>14, <1>15, <1>16, <1>17, <1>18, <1>19, FrontendSteps
     DEF Next, Backend

\* A sink is open while it has an owner.
LEMMA SinksNext == IInv /\ [Next]_vars => SinksOwned'
<1> SUFFICES ASSUME IInv, [Next]_vars PROVE SinksOwned'
  OBVIOUS
<1> USE DEF IInv, TypeOK, CleanupPhases, SinksOwned
<1>1. ASSUME NEW t \in Threads, NEW n \in Names, NEW s \in Sinks, CreateLogger(t, n, s)
      PROVE  SinksOwned'
  <2> DEFINE x == [name |-> n, gen |-> gens[n] + 1, sink |-> s]
  <2>1. /\ loggers' = loggers \cup {x} /\ doomed' = doomed /\ x.sink = s /\ bpc' = bpc
        /\ openSinks' = openSinks \cup {s} /\ sinkIds' = sinkIds \cup {s}
    BY <1>1 DEF CreateLogger, cvars
  <2> HIDE DEF x
  <2> QED BY <2>1
<1>2. ASSUME NEW t \in Threads, NEW l \in valid, LogStatement(t, l) PROVE SinksOwned'
  BY <1>2 DEF LogStatement, tvars, cvars
<1>3. ASSUME NEW t \in Threads, NEW l \in valid, RemoveLogger(t, l) PROVE SinksOwned'
  BY <1>3 DEF RemoveLogger, tvars, cvars
<1>4. ASSUME NEW t \in Threads, NEW l \in valid, RemoveLoggerBlocking(t, l) PROVE SinksOwned'
  BY <1>4 DEF RemoveLoggerBlocking, tvars, cvars
<1>5. ASSUME NEW t \in Threads, SendRequest(t) PROVE SinksOwned'
  BY <1>5 DEF SendRequest, tvars, cvars
<1>6. ASSUME NEW t \in Threads, MarkInvalid(t) PROVE SinksOwned'
  BY <1>6 DEF MarkInvalid, tvars, cvars
<1>7. ASSUME NEW t \in Threads, RaiseFlag(t) PROVE SinksOwned'
  BY <1>7 DEF RaiseFlag, tvars, cvars
<1>8. ASSUME NEW t \in Threads, BlockingReturn(t) PROVE SinksOwned'
  BY <1>8 DEF BlockingReturn, tvars, cvars
<1>9. ASSUME NEW t \in Threads, Populate(t) PROVE SinksOwned'
  BY <1>9 DEF Populate, tvars, cvars
<1>10. ASSUME NEW t \in Threads, Process(t) PROVE SinksOwned'
  BY <1>10 DEF Process, tvars, cvars
<1>11. ASSUME Idle PROVE SinksOwned'
  BY <1>11 DEF Idle, StartCleanup, tvars, cvars
<1>12. ASSUME NEW l \in toScan, Scan(l) PROVE SinksOwned'
  BY <1>12 DEF Scan, tvars, cvars
<1>13. ASSUME Unlock PROVE SinksOwned'
  BY <1>13 DEF Unlock, tvars, cvars
<1>14. ASSUME Destroy PROVE SinksOwned'
  BY <1>14 DEF Destroy, tvars, cvars
<1>15. ASSUME CleanupUnusedSinks PROVE SinksOwned'
  BY <1>15 DEF CleanupUnusedSinks, tvars, cvars
<1>16. ASSUME NEW n \in removed, NotifyRemoved(n) PROVE SinksOwned'
  BY <1>16 DEF NotifyRemoved, tvars, cvars
<1>17. ASSUME Stop PROVE SinksOwned'
  BY <1>17 DEF Stop, StartCleanup, tvars, cvars
<1>18. ASSUME Start PROVE SinksOwned'
  BY <1>18 DEF Start, tvars, cvars
<1>19. ASSUME UNCHANGED vars PROVE SinksOwned'
  BY <1>19 DEF vars, tvars, cvars
<1> HIDE DEF IInv, TypeOK, CleanupPhases, SinksOwned
<1> QED BY <1>1, <1>2, <1>3, <1>4, <1>5, <1>6, <1>7, <1>8, <1>9, <1>10,
        <1>11, <1>12, <1>13, <1>14, <1>15, <1>16, <1>17, <1>18, <1>19, FrontendSteps
     DEF Next, Backend

\* The logger of a completed removal stays away.
LEMMA CompletedNext == IInv /\ [Next]_vars => CompletedAreGone'
<1> SUFFICES ASSUME IInv, [Next]_vars PROVE CompletedAreGone'
  OBVIOUS
<1> USE DEF IInv, TypeOK, RegistryRight, RemovalsRight, CleanupPhases, FlagsRight, Waits,
            CompletedAreGone, Logger
<1>1. ASSUME NEW t \in Threads, NEW n \in Names, NEW s \in Sinks, CreateLogger(t, n, s)
      PROVE  CompletedAreGone'
  BY <1>1, ConstantsAssumption DEF CreateLogger, tvars, cvars
<1>2. ASSUME NEW t \in Threads, NEW l \in valid, LogStatement(t, l) PROVE CompletedAreGone'
  BY <1>2, ConstantsAssumption DEF LogStatement, tvars, cvars
<1>3. ASSUME NEW t \in Threads, NEW l \in valid, RemoveLogger(t, l) PROVE CompletedAreGone'
  BY <1>3, ConstantsAssumption DEF RemoveLogger, tvars, cvars
<1>4. ASSUME NEW t \in Threads, NEW l \in valid, RemoveLoggerBlocking(t, l) PROVE CompletedAreGone'
  BY <1>4, ConstantsAssumption DEF RemoveLoggerBlocking, tvars, cvars
<1>5. ASSUME NEW t \in Threads, SendRequest(t) PROVE CompletedAreGone'
  BY <1>5, ConstantsAssumption DEF SendRequest, tvars, cvars
<1>6. ASSUME NEW t \in Threads, MarkInvalid(t) PROVE CompletedAreGone'
  BY <1>6, ConstantsAssumption DEF MarkInvalid, tvars, cvars
<1>7. ASSUME NEW t \in Threads, RaiseFlag(t) PROVE CompletedAreGone'
  BY <1>7, ConstantsAssumption DEF RaiseFlag, tvars, cvars
<1>8. ASSUME NEW t \in Threads, BlockingReturn(t) PROVE CompletedAreGone'
  BY <1>8, ConstantsAssumption DEF BlockingReturn, tvars, cvars
<1>9. ASSUME NEW t \in Threads, Populate(t) PROVE CompletedAreGone'
  BY <1>9, ConstantsAssumption DEF Populate, tvars, cvars
<1>10. ASSUME NEW t \in Threads, Process(t) PROVE CompletedAreGone'
  BY <1>10, ConstantsAssumption DEF Process, tvars, cvars
<1>11. ASSUME Idle PROVE CompletedAreGone'
  BY <1>11, ConstantsAssumption DEF Idle, StartCleanup, tvars, cvars
<1>12. ASSUME NEW l \in toScan, Scan(l) PROVE CompletedAreGone'
  BY <1>12, ConstantsAssumption DEF Scan, tvars, cvars
<1>13. ASSUME Unlock PROVE CompletedAreGone'
  BY <1>13, ConstantsAssumption DEF Unlock, tvars, cvars
<1>14. ASSUME Destroy PROVE CompletedAreGone'
  BY <1>14, ConstantsAssumption DEF Destroy, tvars, cvars
<1>15. ASSUME CleanupUnusedSinks PROVE CompletedAreGone'
  BY <1>15, ConstantsAssumption DEF CleanupUnusedSinks, tvars, cvars
<1>16. ASSUME NEW n \in removed, NotifyRemoved(n) PROVE CompletedAreGone'
  BY <1>16, ConstantsAssumption DEF NotifyRemoved, tvars, cvars
<1>17. ASSUME Stop PROVE CompletedAreGone'
  BY <1>17, ConstantsAssumption DEF Stop, StartCleanup, tvars, cvars
<1>18. ASSUME Start PROVE CompletedAreGone'
  BY <1>18, ConstantsAssumption DEF Start, tvars, cvars
<1>19. ASSUME UNCHANGED vars PROVE CompletedAreGone'
  BY <1>19, ConstantsAssumption DEF vars, tvars, cvars
<1> HIDE DEF IInv, TypeOK, RegistryRight, RemovalsRight, CleanupPhases, FlagsRight, Waits, CompletedAreGone, Logger
<1> QED BY <1>1, <1>2, <1>3, <1>4, <1>5, <1>6, <1>7, <1>8, <1>9, <1>10,
        <1>11, <1>12, <1>13, <1>14, <1>15, <1>16, <1>17, <1>18, <1>19, FrontendSteps
     DEF Next, Backend

\* Loggers leave the registry only when no event refers to any.
LEMMA LoggersStay ==
  ASSUME IInv, [Next]_vars
  PROVE  loggers \subseteq loggers' \/ (AllEmpty /\ queue' = queue /\ buffer' = buffer)
<1> DEFINE Goal == loggers \subseteq loggers' \/ (AllEmpty /\ queue' = queue /\ buffer' = buffer)
<1>1. ASSUME NEW l \in toScan, Scan(l) PROVE Goal
  BY <1>1 DEF Scan
<1>2. ASSUME Next, ~\E l \in toScan : Scan(l) PROVE loggers \subseteq loggers'
  <2>1. ASSUME NEW t \in Threads, Frontend(t) PROVE loggers \subseteq loggers'
    BY <2>1 DEF Frontend, CreateWithSink, CreateOrGetLogger, CreateLogger, RemoveLogger,
         RemoveLoggerBlocking, LogStatement,
                SendRequest, MarkInvalid, RaiseFlag, BlockingReturn
  <2>2. ASSUME Backend PROVE loggers \subseteq loggers'
    BY <1>2, <2>2 DEF Backend, Populate, Process, Idle, Unlock, Destroy, CleanupUnusedSinks,
         NotifyRemoved,
                StartCleanup
  <2>3. ASSUME Stop \/ Start PROVE loggers \subseteq loggers'
    BY <2>3 DEF Start, Stop, StartCleanup
  <2> QED BY <1>2, <2>1, <2>2, <2>3 DEF Next
<1>3. ASSUME UNCHANGED vars PROVE Goal
  BY <1>3 DEF vars
<1>4. CASE \E l \in toScan : Scan(l)
  BY <1>1, <1>4
<1>5. CASE Next /\ ~\E l \in toScan : Scan(l)
  <2>1. loggers \subseteq loggers'
    BY <1>2, <1>5
  <2> QED BY <2>1
<1> QED BY <1>3, <1>4, <1>5

\* Every event keeps its logger in the registry.
LEMMA EventsNext == IInv /\ [Next]_vars => EventsRegistered'
<1> SUFFICES ASSUME IInv, [Next]_vars PROVE EventsRegistered'
  OBVIOUS
<1>0. /\ queue \in [Threads -> Seq(Event)] /\ buffer \in [Threads -> Seq(Event)]
      /\ EventsRegistered /\ valid \subseteq loggers
  BY DEF IInv, TypeOK
<1>1. ASSUME NEW t \in Threads, NEW e \in Event, e.logger \in loggers, loggers' = loggers, buffer' = buffer,
             queue' = [queue EXCEPT ![t] = Append(queue[t], e)]
      PROVE  EventsRegistered'
  <2>1. \A u \in Threads : \A i \in DOMAIN queue'[u] : queue'[u][i].logger \in loggers
    BY <1>0, <1>1, AppendedEvents DEF EventsRegistered
  <2> QED BY <1>0, <1>1, <2>1 DEF EventsRegistered
<1>2. ASSUME NEW t \in Threads, NEW l \in valid, LogStatement(t, l) PROVE EventsRegistered'
  <2> DEFINE e == [kind |-> "log", logger |-> l, from |-> t]
  <2>1. e \in Event /\ e.logger = l
    BY DEF IInv, TypeOK, Event
  <2>2. loggers' = loggers /\ buffer' = buffer /\ queue' = [queue EXCEPT ![t] = Append(queue[t], e)]
    BY <1>2 DEF LogStatement
  <2> HIDE DEF e
  <2> QED BY <1>0, <1>1, <2>1, <2>2
<1>3. ASSUME NEW t \in Threads, SendRequest(t) PROVE EventsRegistered'
  <2> DEFINE e == [kind |-> "removal", logger |-> target[t], from |-> t]
  <2>1. e \in Event /\ e.logger \in loggers
    BY <1>3 DEF SendRequest, IInv, TypeOK, Event, RemovalsRight
  <2>2. loggers' = loggers /\ buffer' = buffer /\ queue' = [queue EXCEPT ![t] = Append(queue[t], e)]
    BY <1>3 DEF SendRequest
  <2> HIDE DEF e
  <2> QED BY <1>1, <2>1, <2>2
<1>4. ASSUME NEW t \in Threads, Populate(t) PROVE EventsRegistered'
  <2>1. /\ queue[t] # <<>> /\ loggers' = loggers
        /\ queue' = [queue EXCEPT ![t] = Tail(queue[t])]
        /\ buffer' = [buffer EXCEPT ![t] = Append(buffer[t], Head(queue[t]))]
    BY <1>4 DEF Populate
  <2>2. \A u \in Threads : \A i \in DOMAIN queue'[u] : queue'[u][i].logger \in loggers
    BY <1>0, <2>1, RemainingEvents DEF EventsRegistered
  <2>3. Head(queue[t]) \in Event /\ Head(queue[t]).logger \in loggers
    BY <1>0, <2>1, RemainingEvents DEF EventsRegistered
  <2>4. \A u \in Threads : \A i \in DOMAIN buffer'[u] : buffer'[u][i].logger \in loggers
    BY <1>0, <2>1, <2>3, AppendedEvents DEF EventsRegistered
  <2> QED BY <2>1, <2>2, <2>4 DEF EventsRegistered
<1>5. ASSUME NEW t \in Threads, Process(t) PROVE EventsRegistered'
  <2>1. /\ buffer[t] # <<>> /\ loggers' = loggers /\ queue' = queue
        /\ buffer' = [buffer EXCEPT ![t] = Tail(buffer[t])]
    BY <1>5 DEF Process
  <2>2. \A u \in Threads : \A i \in DOMAIN buffer'[u] : buffer'[u][i].logger \in loggers
    BY <1>0, <2>1, RemainingEvents DEF EventsRegistered
  <2> QED BY <1>0, <2>1, <2>2 DEF EventsRegistered
<1>6. ASSUME queue' = queue, buffer' = buffer PROVE EventsRegistered'
  <2>1. CASE loggers \subseteq loggers'
    BY <1>0, <1>6, <2>1 DEF EventsRegistered
  <2>2. CASE AllEmpty
    BY <1>6, <2>2 DEF AllEmpty, EventsRegistered
  <2> QED BY <2>1, <2>2, LoggersStay
<1>7. buffer' = buffer \/ \E t \in Threads : Populate(t) \/ Process(t)
  BY DEF Next, Backend, Frontend, vars, CreateWithSink, CreateOrGetLogger, CreateLogger,
       RemoveLogger, RemoveLoggerBlocking, LogStatement,
     SendRequest, MarkInvalid, RaiseFlag, BlockingReturn, Idle, Scan, Unlock, Destroy,
     CleanupUnusedSinks, NotifyRemoved, Start, Stop, StartCleanup
<1> QED BY <1>2, <1>3, <1>4, <1>5, <1>6, <1>7, QueueSteps

\* An invalid logger is not forgotten.
LEMMA NoticedNext == IInv /\ [Next]_vars => InvalidatedAreNoticed'
<1> SUFFICES ASSUME IInv, [Next]_vars PROVE InvalidatedAreNoticed'
  OBVIOUS
<1> USE DEF IInv, TypeOK, RemovalsRight, CleanupPhases, InvalidatedAreNoticed
<1>1. ASSUME NEW t \in Threads, NEW n \in Names, NEW s \in Sinks, CreateLogger(t, n, s)
      PROVE  InvalidatedAreNoticed'
  BY <1>1 DEF CreateLogger, tvars, cvars
<1>2. ASSUME NEW t \in Threads, NEW l \in valid, LogStatement(t, l) PROVE InvalidatedAreNoticed'
  BY <1>2 DEF LogStatement, tvars, cvars
<1>3. ASSUME NEW t \in Threads, NEW l \in valid, RemoveLogger(t, l) PROVE InvalidatedAreNoticed'
  BY <1>3 DEF RemoveLogger, tvars, cvars
<1>4. ASSUME NEW t \in Threads, NEW l \in valid, RemoveLoggerBlocking(t, l)
      PROVE  InvalidatedAreNoticed'
  BY <1>4 DEF RemoveLoggerBlocking, tvars, cvars
<1>5. ASSUME NEW t \in Threads, SendRequest(t) PROVE InvalidatedAreNoticed'
  BY <1>5 DEF SendRequest, tvars, cvars
<1>6. ASSUME NEW t \in Threads, MarkInvalid(t) PROVE InvalidatedAreNoticed'
  BY <1>6 DEF MarkInvalid, tvars, cvars
<1>7. ASSUME NEW t \in Threads, RaiseFlag(t) PROVE InvalidatedAreNoticed'
  BY <1>7 DEF RaiseFlag, tvars, cvars
<1>8. ASSUME NEW t \in Threads, BlockingReturn(t) PROVE InvalidatedAreNoticed'
  BY <1>8 DEF BlockingReturn, tvars, cvars
<1>9. ASSUME NEW t \in Threads, Populate(t) PROVE InvalidatedAreNoticed'
  BY <1>9 DEF Populate, tvars, cvars
<1>10. ASSUME NEW t \in Threads, Process(t) PROVE InvalidatedAreNoticed'
  BY <1>10 DEF Process, tvars, cvars
<1>11. ASSUME Idle PROVE InvalidatedAreNoticed'
  BY <1>11 DEF Idle, StartCleanup, tvars, cvars
<1>12. ASSUME NEW l \in toScan, Scan(l) PROVE InvalidatedAreNoticed'
  BY <1>12 DEF Scan, tvars, cvars
<1>13. ASSUME Unlock PROVE InvalidatedAreNoticed'
  BY <1>13 DEF Unlock, tvars, cvars
<1>14. ASSUME Destroy PROVE InvalidatedAreNoticed'
  BY <1>14 DEF Destroy, tvars, cvars
<1>15. ASSUME CleanupUnusedSinks PROVE InvalidatedAreNoticed'
  BY <1>15 DEF CleanupUnusedSinks, tvars, cvars
<1>16. ASSUME NEW n \in removed, NotifyRemoved(n) PROVE InvalidatedAreNoticed'
  BY <1>16 DEF NotifyRemoved, tvars, cvars
<1>17. ASSUME Stop PROVE InvalidatedAreNoticed'
  BY <1>17 DEF Stop, StartCleanup, tvars, cvars
<1>18. ASSUME Start PROVE InvalidatedAreNoticed'
  BY <1>18 DEF Start, tvars, cvars
<1>19. ASSUME UNCHANGED vars PROVE InvalidatedAreNoticed'
  BY <1>19 DEF vars, tvars, cvars
<1> HIDE DEF IInv, TypeOK, RemovalsRight, CleanupPhases, InvalidatedAreNoticed
<1> QED BY <1>1, <1>2, <1>3, <1>4, <1>5, <1>6, <1>7, <1>8, <1>9, <1>10,
        <1>11, <1>12, <1>13, <1>14, <1>15, <1>16, <1>17, <1>18, <1>19, FrontendSteps
     DEF Next, Backend

-----------------------------------------------------------------------------
(***************************************************************************)
(* The theorems.                                                           *)
(***************************************************************************)

\* The registry starts empty.
LEMMA InitInv == Init => IInv
<1> SUFFICES ASSUME Init PROVE IInv
  OBVIOUS
<1> USE ConstantsAssumption DEF Init
<1>1. <<>> \in Seq(Event) /\ DOMAIN <<>> = {}
  OBVIOUS
<1>2. TypeOK
  <2>1. MaxEvents \in Nat /\ MaxStops \in Nat
    OBVIOUS
  <2>2. /\ queue \in [Threads -> Seq(Event)] /\ buffer \in [Threads -> Seq(Event)]
        /\ sent \in [Threads -> 0..MaxEvents] /\ stops \in 0..MaxStops
    BY <1>1, <2>1
  <2> QED BY <2>2 DEF TypeOK
<1>3. RegistryRight /\ RemovalsRight /\ CleanupPhases /\ SinksOwned /\ CompletedAreGone
  BY DEF RegistryRight, RemovalsRight, CleanupPhases, SinksOwned, CompletedAreGone
<1>4. RequestsOnce /\ FlagsRight /\ EventsRegistered /\ InvalidatedAreNoticed
  BY <1>1 DEF RequestsOnce, FlagsRight, EventsRegistered, InvalidatedAreNoticed
<1> QED BY <1>2, <1>3, <1>4 DEF IInv

\* No step of a thread or of the backend leaves the invariant.
LEMMA NextInv == IInv /\ [Next]_vars => IInv'
  BY TypeNext, RegistryNext, RemovalsNext, RequestsNext, FlagsNext, PhasesNext, SinksNext,
     CompletedNext, EventsNext, NoticedNext DEF IInv

\* The inductive invariant of the registry, its removals and the cleanup.
THEOREM Invariance == Spec => []IInv
  BY InitInv, NextInv, PTL DEF Spec

\* No queued event refers to a logger that was destroyed, and no request or map
\* entry to the flag of a call that returned, although the queues are only
\* looked at while cleanup_invalidated_loggers loops and threads go on logging.
THEOREM LoggersDoNotDangle == Spec => []NoDanglingLogger
<1>1. IInv => NoDanglingLogger
  <2> SUFFICES ASSUME IInv PROVE NoDanglingLogger
    OBVIOUS
  <2>1. \A e \in InQueues : e.logger \in loggers
    BY DEF InQueues, IInv, EventsRegistered
  <2>2. RemovalFlagsLive
    BY DEF RemovalFlagsLive, IInv, FlagsRight, RequestsOnce
  <2> QED BY <2>1, <2>2 DEF NoDanglingLogger, IInv
<1> QED BY <1>1, Invariance, PTL

\* When remove_logger_blocking may return, its logger is destroyed and its sink
\* is closed unless another logger owns it.
THEOREM RemovalCompletes == Spec => []RemovalIsComplete
<1>1. IInv => RemovalIsComplete
  BY DEF RemovalIsComplete, IInv, RemovalsRight, SinksOwned, CompletedAreGone
<1> QED BY <1>1, Invariance, PTL

\* The two stores of a removal are never missed: an invalid logger is in the
\* round of the loop that runs or raises the flag for a later one.
THEOREM InvalidatedStayNoticed == Spec => []InvalidatedAreNoticed
<1>1. IInv => InvalidatedAreNoticed
  BY DEF IInv
<1> QED BY <1>1, Invariance, PTL
=============================================================================
