---------------------------- MODULE LoggerManager ----------------------------
(***************************************************************************)
(* The registry of loggers (core/LoggerManager.h), the two ways to remove  *)
(* one (Frontend::remove_logger and remove_logger_blocking) and the part   *)
(* of the backend that destroys removed loggers, closes the sinks that     *)
(* nobody else owns and releases the callers that wait.                    *)
(*                                                                         *)
(* An event in a queue holds a pointer to its logger and a removal request *)
(* a pointer to a flag on the stack of its caller, so an object freed too  *)
(* early is a dangling pointer.  A logger object is a name, a sink and the *)
(* number of its incarnation.                                              *)
(*                                                                         *)
(* The clients do what Frontend.h asks of them: no thread uses a logger,   *)
(* or removes it again, once its removal was called.                       *)
(***************************************************************************)
EXTENDS Integers, Sequences, FiniteSets

CONSTANTS Threads, Names, Sinks,
          NoThread, NoLogger,
          WaitForEmpty,  \* wait_for_queues_to_empty_before_exit
          MaxGen,        \* bound on the loggers created under each name
          MaxEvents,     \* bound on the events of each thread
          MaxStops       \* bound on the times the backend is stopped

ASSUME ConstantsAssumption ==
  /\ MaxGen \in [Names -> Nat] /\ {MaxEvents, MaxStops} \subseteq Nat
  /\ WaitForEmpty \in BOOLEAN
  /\ NoThread \notin Threads

Logger == [name : Names, gen : Nat \ {0}, sink : Sinks]

VARIABLES
  loggers,      \* LoggerManager::_loggers
  valid,        \* the loggers whose _valid is set
  hasInvalid,   \* _has_invalidated_loggers
  gens,         \* history: loggers created under each name
  tpc,          \* "idle"; in a removal: "request", "mark", "raise", "wait"
  target,       \* the logger the thread removes
  blocking,     \* ... with remove_logger_blocking
  complete,     \* logger_removal_complete, on the thread's stack
  sent, queue, buffer,  \* events published; queued; in the transit buffer
  bpc,          \* backend: "poll", "scan", "destroy", "sinks", "notify", "stopped"
  exiting,      \* the cleanup is the one of _exit
  toScan,       \* loggers the loop under the lock has yet to visit
  doomed,       \* loggers_to_destroy
  removed,      \* _removed_loggers
  removalFlags, \* _logger_removal_flags
  openSinks,    \* the sinks that are not destroyed
  sinkIds,      \* the ids in SinkManager::_sinks
  stops

tvars == <<tpc, target, blocking, sent>>
cvars == <<toScan, doomed, removed>>
vars == <<loggers, valid, hasInvalid, gens, tvars, complete, queue, buffer, bpc, exiting,
          cvars, removalFlags, openSinks, sinkIds, stops>>

\* A removal of l was called.
Retired(l) == \E t \in Threads : target[t] = l /\ tpc[t] # "idle"

InQueues == UNION {{queue[t][i] : i \in DOMAIN queue[t]} \cup
                   {buffer[t][i] : i \in DOMAIN buffer[t]} : t \in Threads}

\* _check_frontend_queues_and_cached_transit_events_empty.  Only the backend
\* empties a queue, so the loop over the queues is one step.
AllEmpty == \A t \in Threads : queue[t] = <<>> /\ buffer[t] = <<>>

\* The spinlock is held by the loop of cleanup_invalidated_loggers.
Locked == bpc = "scan"

Init ==
  /\ loggers = {} /\ valid = {} /\ hasInvalid = FALSE
  /\ gens = [n \in Names |-> 0]
  /\ tpc = [t \in Threads |-> "idle"] /\ target = [t \in Threads |-> NoLogger]
  /\ blocking = [t \in Threads |-> FALSE] /\ complete = [t \in Threads |-> FALSE]
  /\ sent = [t \in Threads |-> 0]
  /\ queue = [t \in Threads |-> <<>>] /\ buffer = [t \in Threads |-> <<>>]
  /\ bpc = "poll" /\ exiting = FALSE
  /\ toScan = {} /\ doomed = {} /\ removed = {}
  /\ removalFlags = [n \in Names |-> NoThread]
  /\ openSinks = {} /\ sinkIds = {} /\ stops = 0

-----------------------------------------------------------------------------
(***************************************************************************)
(* The frontend.                                                           *)
(***************************************************************************)

\* A logger of a name that is not registered, with a sink from create_or_get_sink
\* whose handle the caller does not keep.  A name that is registered, valid or
\* pending removal, throws or returns the existing logger and changes nothing.
CreateLogger(t, n, s) ==
  /\ tpc[t] = "idle" /\ ~Locked
  /\ gens[n] < MaxGen[n]
  /\ ~\E l \in loggers : l.name = n
  /\ LET l == [name |-> n, gen |-> gens[n] + 1, sink |-> s] IN
       /\ loggers' = loggers \cup {l}
       /\ valid' = valid \cup {l}
  /\ gens' = [gens EXCEPT ![n] = @ + 1]
  /\ openSinks' = openSinks \cup {s} /\ sinkIds' = sinkIds \cup {s}
  /\ UNCHANGED <<hasInvalid, tvars, complete, queue, buffer, bpc, exiting, cvars,
                 removalFlags, stops>>

\* Frontend::create_logger
CreateWithSink(t) == \E n \in Names, s \in Sinks : CreateLogger(t, n, s)

\* Frontend::create_or_get_logger, with a sink or with the sinks of another logger.
CreateOrGetLogger(t) ==
  \/ CreateWithSink(t)
  \/ \E n \in Names, source \in valid : ~Retired(source) /\ CreateLogger(t, n, source.sink)

LogStatement(t, l) ==
  /\ tpc[t] = "idle" /\ sent[t] < MaxEvents
  /\ l \in valid /\ ~Retired(l)
  /\ queue' = [queue EXCEPT ![t] = Append(@, [kind |-> "log", logger |-> l, from |-> t])]
  /\ sent' = [sent EXCEPT ![t] = @ + 1]
  /\ UNCHANGED <<loggers, valid, hasInvalid, gens, tpc, target, blocking, complete, buffer,
                 bpc, exiting, cvars, removalFlags, openSinks, sinkIds, stops>>

RemoveLogger(t, l) ==
  /\ tpc[t] = "idle"
  /\ l \in valid /\ ~Retired(l)
  /\ tpc' = [tpc EXCEPT ![t] = "mark"]
  /\ target' = [target EXCEPT ![t] = l] /\ blocking' = [blocking EXCEPT ![t] = FALSE]
  /\ UNCHANGED <<loggers, valid, hasInvalid, gens, complete, sent, queue, buffer, bpc, exiting,
                 cvars, removalFlags, openSinks, sinkIds, stops>>

\* It should only be called while the backend runs.
RemoveLoggerBlocking(t, l) ==
  /\ tpc[t] = "idle" /\ ~exiting
  /\ l \in valid /\ ~Retired(l)
  /\ tpc' = [tpc EXCEPT ![t] = "request"]
  /\ target' = [target EXCEPT ![t] = l] /\ blocking' = [blocking EXCEPT ![t] = TRUE]
  /\ complete' = [complete EXCEPT ![t] = FALSE]
  /\ UNCHANGED <<loggers, valid, hasInvalid, gens, sent, queue, buffer, bpc, exiting,
                 cvars, removalFlags, openSinks, sinkIds, stops>>

\* The request is retried until the queue takes it.
SendRequest(t) ==
  /\ tpc[t] = "request"
  /\ queue' = [queue EXCEPT ![t] = Append(@, [kind |-> "removal", logger |-> target[t],
                                              from |-> t])]
  /\ tpc' = [tpc EXCEPT ![t] = "mark"]
  /\ UNCHANGED <<loggers, valid, hasInvalid, gens, target, blocking, sent, complete, buffer,
                 bpc, exiting, cvars, removalFlags, openSinks, sinkIds, stops>>

\* LoggerManager::remove_logger: two stores, without the lock.
MarkInvalid(t) ==
  /\ tpc[t] = "mark"
  /\ valid' = valid \ {target[t]}
  /\ tpc' = [tpc EXCEPT ![t] = "raise"]
  /\ UNCHANGED <<loggers, hasInvalid, gens, target, blocking, sent, complete, queue, buffer,
                 bpc, exiting, cvars, removalFlags, openSinks, sinkIds, stops>>

RaiseFlag(t) ==
  /\ tpc[t] = "raise"
  /\ hasInvalid' = TRUE
  /\ tpc' = [tpc EXCEPT ![t] = IF blocking[t] THEN "wait" ELSE "idle"]
  /\ UNCHANGED <<loggers, valid, gens, target, blocking, sent, complete, queue, buffer,
                 bpc, exiting, cvars, removalFlags, openSinks, sinkIds, stops>>

BlockingReturn(t) ==
  /\ tpc[t] = "wait" /\ complete[t]
  /\ tpc' = [tpc EXCEPT ![t] = "idle"]
  /\ UNCHANGED <<loggers, valid, hasInvalid, gens, target, blocking, sent, complete, queue,
                 buffer, bpc, exiting, cvars, removalFlags, openSinks, sinkIds, stops>>

Frontend(t) ==
  \/ CreateWithSink(t) \/ CreateOrGetLogger(t)
  \/ \E l \in valid : LogStatement(t, l) \/ RemoveLogger(t, l) \/ RemoveLoggerBlocking(t, l)
  \/ SendRequest(t) \/ MarkInvalid(t) \/ RaiseFlag(t) \/ BlockingReturn(t)

-----------------------------------------------------------------------------
(***************************************************************************)
(* The backend.                                                            *)
(***************************************************************************)

\* Moving an event to the transit buffer enters the flag of a removal request
\* in the map; emplace keeps an entry that is already there.
Populate(t) ==
  /\ bpc = "poll" /\ queue[t] # <<>>
  /\ LET e == Head(queue[t]) IN
       /\ buffer' = [buffer EXCEPT ![t] = Append(@, e)]
       /\ removalFlags' =
            IF e.kind = "removal" /\ removalFlags[e.logger.name] = NoThread
            THEN [removalFlags EXCEPT ![e.logger.name] = e.from] ELSE removalFlags
  /\ queue' = [queue EXCEPT ![t] = Tail(@)]
  /\ UNCHANGED <<loggers, valid, hasInvalid, gens, tvars, complete, bpc, exiting, cvars,
                 openSinks, sinkIds, stops>>

Process(t) ==
  /\ bpc = "poll" /\ buffer[t] # <<>>
  /\ buffer' = [buffer EXCEPT ![t] = Tail(@)]
  /\ UNCHANGED <<loggers, valid, hasInvalid, gens, tvars, complete, queue, bpc, exiting, cvars,
                 removalFlags, openSinks, sinkIds, stops>>

\* cleanup_invalidated_loggers: exchange the flag, then loop under the lock.
StartCleanup ==
  /\ bpc' = IF hasInvalid THEN "scan" ELSE IF exiting' THEN "stopped" ELSE "poll"
  /\ toScan' = IF hasInvalid THEN loggers ELSE {}
  /\ hasInvalid' = FALSE
  /\ UNCHANGED <<loggers, valid, gens, tvars, complete, queue, buffer, doomed, removed,
                 openSinks, sinkIds>>

Idle ==
  /\ bpc = "poll" /\ AllEmpty /\ hasInvalid
  /\ exiting' = FALSE
  /\ StartCleanup
  /\ UNCHANGED <<removalFlags, stops>>

\* Backend::stop: _exit, which waits for empty queues if it is configured to.
\* Nobody waits for a removal, since remove_logger_blocking needs a running
\* backend.
Stop ==
  /\ bpc = "poll" /\ stops < MaxStops
  /\ WaitForEmpty => AllEmpty
  /\ \A t \in Threads : tpc[t] # "idle" => ~blocking[t]
  /\ stops' = stops + 1
  /\ exiting' = TRUE
  /\ StartCleanup
  /\ UNCHANGED removalFlags

\* The end of stop(), which frees the map of removal flags once the thread has
\* joined, and start().
Start ==
  /\ bpc = "stopped"
  /\ bpc' = "poll" /\ exiting' = FALSE
  /\ removalFlags' = [n \in Names |-> NoThread]
  /\ UNCHANGED <<loggers, valid, hasInvalid, gens, tvars, complete, queue, buffer, cvars,
                 openSinks, sinkIds, stops>>

\* Mutant: the check made when the backend went idle is trusted.
ScanTrustsIdle(l) ==
  /\ bpc = "scan" /\ l \in toScan
  /\ toScan' = toScan \ {l}
  /\ IF l \in valid
       THEN UNCHANGED <<loggers, doomed, removed>>
       ELSE /\ loggers' = loggers \ {l} /\ doomed' = doomed \cup {l}
            /\ removed' = removed \cup {l.name}
  /\ UNCHANGED <<valid, hasInvalid, gens, tvars, complete, queue, buffer, bpc, exiting,
                 removalFlags, openSinks, sinkIds, stops>>

\* Mutant: a logger that cannot go yet does not raise the flag again.
ScanForgets(l) ==
  /\ bpc = "scan" /\ l \in toScan
  /\ toScan' = toScan \ {l}
  /\ IF l \in valid \/ ~AllEmpty
       THEN UNCHANGED <<loggers, doomed, removed>>
       ELSE /\ loggers' = loggers \ {l} /\ doomed' = doomed \cup {l}
            /\ removed' = removed \cup {l.name}
  /\ UNCHANGED <<valid, hasInvalid, gens, tvars, complete, queue, buffer, bpc, exiting,
                 removalFlags, openSinks, sinkIds, stops>>

\* The queues are looked at again for each invalid logger.
Scan(l) ==
  /\ bpc = "scan" /\ l \in toScan
  /\ toScan' = toScan \ {l}
  /\ IF l \in valid
       THEN UNCHANGED <<loggers, hasInvalid, doomed, removed>>
       ELSE IF AllEmpty
         THEN /\ loggers' = loggers \ {l} /\ doomed' = doomed \cup {l}
              /\ removed' = removed \cup {l.name}
              /\ UNCHANGED hasInvalid
         ELSE /\ hasInvalid' = TRUE
              /\ UNCHANGED <<loggers, doomed, removed>>
  /\ UNCHANGED <<valid, gens, tvars, complete, queue, buffer, bpc, exiting, removalFlags,
                 openSinks, sinkIds, stops>>

\* The lock is released before the loggers are destroyed.
Unlock ==
  /\ bpc = "scan" /\ toScan = {}
  /\ bpc' = "destroy"
  /\ UNCHANGED <<loggers, valid, hasInvalid, gens, tvars, complete, queue, buffer, exiting,
                 cvars, removalFlags, openSinks, sinkIds, stops>>

\* Mutant: the loggers are kept until the next cleanup.
DestroyLater ==
  /\ bpc = "destroy"
  /\ bpc' = IF removed # {} THEN "sinks" ELSE IF exiting THEN "stopped" ELSE "poll"
  /\ UNCHANGED <<loggers, valid, hasInvalid, gens, tvars, complete, queue, buffer, exiting,
                 cvars, removalFlags, openSinks, sinkIds, stops>>

\* Leaving the function destroys the loggers; a sink goes with its last owner.
Destroy ==
  /\ bpc = "destroy"
  /\ doomed' = {}
  /\ openSinks' = {s \in openSinks : \E l \in loggers : l.sink = s}
  /\ bpc' = IF removed # {} THEN "sinks" ELSE IF exiting THEN "stopped" ELSE "poll"
  /\ UNCHANGED <<loggers, valid, hasInvalid, gens, tvars, complete, queue, buffer, exiting,
                 toScan, removed, removalFlags, sinkIds, stops>>

CleanupUnusedSinks ==
  /\ bpc = "sinks"
  /\ sinkIds' = sinkIds \cap openSinks
  /\ bpc' = "notify"
  /\ UNCHANGED <<loggers, valid, hasInvalid, gens, tvars, complete, queue, buffer, exiting,
                 cvars, removalFlags, openSinks, stops>>

\* Mutant: the entry is dropped but its flag is not set.
NotifyNobody(n) ==
  /\ bpc = "notify" /\ n \in removed
  /\ removalFlags' = [removalFlags EXCEPT ![n] = NoThread]
  /\ removed' = removed \ {n}
  /\ bpc' = IF removed' # {} THEN "notify" ELSE IF exiting THEN "stopped" ELSE "poll"
  /\ UNCHANGED <<loggers, valid, hasInvalid, gens, tvars, complete, queue, buffer, exiting, toScan,
                 doomed, openSinks, sinkIds, stops>>

NotifyRemoved(n) ==
  /\ bpc = "notify" /\ n \in removed
  /\ complete' = [t \in Threads |-> complete[t] \/ removalFlags[n] = t]
  /\ removalFlags' = [removalFlags EXCEPT ![n] = NoThread]
  /\ removed' = removed \ {n}
  /\ bpc' = IF removed' # {} THEN "notify" ELSE IF exiting THEN "stopped" ELSE "poll"
  /\ UNCHANGED <<loggers, valid, hasInvalid, gens, tvars, queue, buffer, exiting, toScan,
                 doomed, openSinks, sinkIds, stops>>

Backend ==
  \/ \E t \in Threads : Populate(t) \/ Process(t)
  \/ Idle
  \/ \E l \in toScan : Scan(l)
  \/ Unlock \/ Destroy \/ CleanupUnusedSinks
  \/ \E n \in removed : NotifyRemoved(n)

Next == Backend \/ Stop \/ Start \/ \E t \in Threads : Frontend(t)

Spec == Init /\ [][Next]_vars

\* The backend thread runs on, and so does a thread inside a removal.
FairSpec ==
  /\ Spec
  /\ WF_vars(Backend)
  /\ \A t \in Threads :
       WF_vars(SendRequest(t) \/ MarkInvalid(t) \/ RaiseFlag(t) \/ BlockingReturn(t))

-----------------------------------------------------------------------------
(***************************************************************************)
(* Properties.                                                             *)
(***************************************************************************)

Event == [kind : {"log", "removal"}, logger : Logger, from : Threads]

\* The shape of the registry, of the queues and of the two program counters.
TypeOK ==
  /\ loggers \subseteq Logger /\ valid \subseteq loggers
  /\ hasInvalid \in BOOLEAN /\ exiting \in BOOLEAN
  /\ gens \in [Names -> Nat]
  /\ tpc \in [Threads -> {"idle", "request", "mark", "raise", "wait"}]
  /\ target \in [Threads -> Logger \cup {NoLogger}]
  /\ blocking \in [Threads -> BOOLEAN] /\ complete \in [Threads -> BOOLEAN]
  /\ sent \in [Threads -> 0..MaxEvents]
  /\ queue \in [Threads -> Seq(Event)] /\ buffer \in [Threads -> Seq(Event)]
  /\ bpc \in {"poll", "scan", "destroy", "sinks", "notify", "stopped"}
  /\ toScan \subseteq Logger /\ doomed \subseteq Logger /\ removed \subseteq Names
  /\ removalFlags \in [Names -> Threads \cup {NoThread}]
  /\ openSinks \subseteq Sinks /\ sinkIds \subseteq Sinks
  /\ stops \in 0..MaxStops

\* Thread t is inside the remove_logger_blocking call its flag belongs to.
Waits(t) == blocking[t] /\ tpc[t] \in {"mark", "raise", "wait"} /\ ~complete[t]

\* Every flag pointer the backend still has to follow, in a queued request or
\* in _logger_removal_flags, points into a call that has not returned.
RemovalFlagsLive ==
  /\ \A n \in Names : removalFlags[n] # NoThread =>
       Waits(removalFlags[n]) /\ target[removalFlags[n]].name = n
  /\ \A t \in Threads : \A i \in DOMAIN queue[t] :
       queue[t][i].kind = "removal" => Waits(queue[t][i].from)

\* No event that waits in a queue or in a transit buffer points to a logger
\* that cleanup_invalidated_loggers has taken out of the registry: "check the
\* queues are empty each time before removing a logger"; and no request to the
\* flag of a call that is over.  The registry never loses a valid logger (TypeOK).
NoDanglingLogger ==
  TypeOK /\ (\A e \in InQueues : e.logger \in loggers) /\ RemovalFlagsLive

\* When remove_logger_blocking may return, its logger is destroyed, a sink that
\* no other logger owns is closed and its id can be used again: "any files
\* associated with its sinks are also closed".
RemovalIsComplete ==
  \A t \in Threads : tpc[t] = "wait" /\ complete[t] =>
    /\ target[t] \notin loggers \cup doomed
    /\ target[t].sink \in openSinks =>
         \E l \in loggers \cup doomed : l.sink = target[t].sink
    /\ target[t].sink \in sinkIds => target[t].sink \in openSinks \/ bpc = "sinks"

\* An invalid logger is never forgotten: the flag is up, the loop has yet to
\* visit it, or the thread that removes it has yet to raise the flag.
InvalidatedAreNoticed ==
  \A l \in loggers \ valid :
    \/ hasInvalid \/ l \in toScan
    \/ \E t \in Threads : tpc[t] = "raise" /\ target[t] = l

\* remove_logger_blocking returns while the backend keeps running.
BlockingRemovalReturns == \A t \in Threads : (tpc[t] = "wait") ~> (tpc[t] = "idle")
=============================================================================
