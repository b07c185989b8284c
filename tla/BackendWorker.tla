---------------------------- MODULE BackendWorker ----------------------------
(***************************************************************************)
(* The backend thread of quill and the frontend threads that log to it.    *)
(*                                                                         *)
(* A frontend thread takes a timestamp, registers its ThreadContext if it  *)
(* has none and publishes the event in its own queue; flush_log then waits *)
(* for a flag.  The backend reads every cached context's queue up to a     *)
(* cut-off in time, buffers the events per thread and processes them in    *)
(* timestamp order, one at a time or in a batch; when idle it removes the  *)
(* contexts of exited threads and sleeps.  Backend::stop drains the queues *)
(* and joins; Backend::start may follow.                                   *)
(*                                                                         *)
(* Each queue is what FrontendQueue promises, with a capacity in messages. *)
(* Loops over all contexts that only test for emptiness are one step: only *)
(* the backend empties a queue, so their answer is that of the first (all  *)
(* empty) or last (one is not) queue they looked at.                       *)
(***************************************************************************)
EXTENDS Integers, SequencesExt

CONSTANTS Threads,        \* the frontend threads
          Flushers,       \* those that call flush_log
          QueueCapacity,  \* messages a frontend queue holds
          Configs         \* the ways the backend and the threads are set up

\* BackendOptions, the queue type, and what the threads do.
Config ==
  [preallocated : SUBSET Threads,   \* threads that called Frontend::preallocate() beforehand
   dropping : BOOLEAN,              \* queue type: dropping, or else blocking
   softLimit : Nat \ {0}, hardLimit : Nat \ {0},  \* transit_events_soft_limit, ..._hard_limit
   grace : Nat,                     \* log_timestamp_ordering_grace_period; 0 switches it off
   waitForEmpty : BOOLEAN,          \* wait_for_queues_to_empty_before_exit
   loggers : SUBSET Threads, exiters : SUBSET Threads,
   maxEvents : [Threads -> Nat],    \* bound on the events of each thread
   maxTime : Nat,                   \* bound on the clock
   maxStops : Nat]                  \* bound on the times the backend is stopped

\* validate_options, of the two limits.
Valid(c) == c.softLimit <= c.hardLimit /\ \E n \in 0..c.hardLimit : c.hardLimit = 2^n

ASSUME ConstantsAssumption ==
  /\ Threads # {} /\ IsFiniteSet(Threads) /\ Flushers \subseteq Threads
  /\ QueueCapacity \in Nat \ {0} /\ Configs \subseteq Config
  /\ \A c \in Configs : Valid(c)

VARIABLES
  options,   \* the configuration in force
  clock,
  tpc,       \* frontend thread: "idle", "stamped", "blocked", "waiting" or "exited"
  event, sent,  \* the event it is about to publish; how many it has published
  queue,     \* its published and unread events
  contexts,  \* ThreadContextManager::_thread_contexts
  newFlag,   \* _new_thread_context_flag
  bpc,       \* where the backend is
  exiting,   \* it is in _exit
  cache,     \* _active_thread_contexts_cache
  tsNow,     \* the cut-off of this pass
  pos, read, \* the context being read, and the messages read from it
  buffer,    \* _transit_event_buffer of each context
  running, wakeFlag,  \* _is_worker_running, _wake_up_flag
  spc,       \* the thread that stops and starts: "idle", "notify", "join", "stopped"
  stops,
  processed, flushed,  \* the events the sinks were given; how many of them were flushed
  flushFlag, \* backend_thread_flushed of the thread's flush_log
  mark, stopMark  \* history: the events published when flush_log, or stop, was called

fvars == <<tpc, event, sent, mark>>
bvars == <<bpc, exiting, cache, tsNow, pos, read, buffer, processed, flushed>>
svars == <<options, running, spc, stops, stopMark>>
vars == <<clock, fvars, queue, contexts, newFlag, bvars, svars, wakeFlag, flushFlag>>

Grace == options.grace
HardLimit == options.hardLimit
MaxTime == options.maxTime

NoEvent == [kind |-> "none", thread |-> CHOOSE t \in Threads : TRUE, seq |-> 0, ts |-> 0, at |-> 0]

\* ts is the timestamp of an event, at (history) the time it was published.
Event == [kind : {"none", "log", "flush"}, thread : Threads, seq : Nat, ts : Nat, at : Nat]

\* The published events of t that wait, and all published events.
Pending(t) == buffer[t] \o queue[t]

Published == Range(processed) \cup UNION {Range(buffer[t]) \cup Range(queue[t]) : t \in Threads}

Flushed == {processed[i] : i \in 1..flushed}

Init ==
  /\ options \in Configs
  /\ clock = 0
  /\ tpc = [t \in Threads |-> "idle"]
  /\ event = [t \in Threads |-> NoEvent] /\ sent = [t \in Threads |-> 0]
  /\ mark = [t \in Threads |-> {}] /\ stopMark = {}
  /\ queue = [t \in Threads |-> <<>>]
  /\ contexts = SetToSeq(options.preallocated) /\ newFlag = (options.preallocated # {})
  /\ bpc = "poll" /\ exiting = FALSE
  /\ cache = <<>> /\ tsNow = 0 /\ pos = 1 /\ read = 0
  /\ buffer = [t \in Threads |-> <<>>]
  /\ processed = <<>> /\ flushed = 0
  /\ running = TRUE /\ wakeFlag = FALSE
  /\ spc = "idle" /\ stops = 0
  /\ flushFlag = [t \in Threads |-> FALSE]

-----------------------------------------------------------------------------
(***************************************************************************)
(* Time and the frontend threads.                                          *)
(***************************************************************************)

Tick ==
  /\ clock < MaxTime
  /\ clock' = clock + 1
  /\ UNCHANGED <<fvars, queue, contexts, newFlag, bvars, svars, wakeFlag, flushFlag>>

\* log_statement and flush_log take the timestamp before anything else.  The
\* bound leaves the backend time to reach the event.
Stamp(t, kind) ==
  /\ tpc[t] = "idle"
  /\ sent[t] < options.maxEvents[t]
  /\ clock + Grace <= MaxTime
  /\ tpc' = [tpc EXCEPT ![t] = "stamped"]
  /\ event' = [event EXCEPT ![t] = [NoEvent EXCEPT !.kind = kind, !.thread = t, !.ts = clock]]
  /\ mark' = IF kind = "flush" THEN [mark EXCEPT ![t] = {e \in Published : e.ts < clock}] ELSE mark
  /\ UNCHANGED <<clock, sent, queue, contexts, newFlag, bvars, svars, wakeFlag, flushFlag>>

\* get_local_thread_context on the thread's first event.
Register(t) ==
  /\ tpc[t] = "stamped" /\ ~Contains(contexts, t)
  /\ contexts' = Append(contexts, t) /\ newFlag' = TRUE
  /\ UNCHANGED <<clock, fvars, queue, bvars, svars, wakeFlag, flushFlag>>

\* Space is given back by commit_read, at the end of the backend's pass.
HasSpace(t) ==
  LET held == IF bpc = "read" /\ pos <= Len(cache) /\ cache[pos] = t THEN read ELSE 0
  IN  Len(queue[t]) + held < QueueCapacity

Publish(t) ==
  /\ tpc[t] \in {"stamped", "blocked"} /\ Contains(contexts, t)
  /\ HasSpace(t)
  /\ queue' = [queue EXCEPT ![t] = Append(@, [event[t] EXCEPT !.seq = sent[t] + 1,
                                                              !.at = clock])]
  /\ sent' = [sent EXCEPT ![t] = @ + 1]
  /\ event' = [event EXCEPT ![t] = NoEvent]
  /\ tpc' = [tpc EXCEPT ![t] = IF event[t].kind = "flush" THEN "waiting" ELSE "idle"]
  /\ UNCHANGED <<clock, mark, contexts, newFlag, bvars, svars, wakeFlag, flushFlag>>

\* A dropping queue drops a log event; flush_log retries with a new timestamp.
\* A blocking queue keeps the caller and its timestamp.  The bound is Stamp's.
QueueFull(t) ==
  /\ tpc[t] = "stamped" /\ Contains(contexts, t)
  /\ ~HasSpace(t)
  /\ clock + Grace <= MaxTime
  /\ tpc' = [tpc EXCEPT ![t] = IF ~options.dropping THEN "blocked"
                               ELSE IF event[t].kind = "flush" THEN "stamped" ELSE "idle"]
  /\ event' = [event EXCEPT ![t] = IF ~options.dropping THEN @
                                   ELSE IF @.kind = "flush" THEN [@ EXCEPT !.ts = clock]
                                   ELSE NoEvent]
  /\ UNCHANGED <<clock, sent, mark, queue, contexts, newFlag, bvars, svars, wakeFlag, flushFlag>>

\* flush_log returns once the backend has set the flag.
FlushReturns(t) ==
  /\ tpc[t] = "waiting" /\ flushFlag[t]
  /\ tpc' = [tpc EXCEPT ![t] = "idle"]
  /\ flushFlag' = [flushFlag EXCEPT ![t] = FALSE]
  /\ UNCHANGED <<clock, event, sent, mark, queue, contexts, newFlag, bvars, svars, wakeFlag>>

\* ~ScopedThreadContext marks the context invalid.
Exit(t) ==
  /\ tpc[t] = "idle" /\ Contains(contexts, t)
  /\ tpc' = [tpc EXCEPT ![t] = "exited"]
  /\ UNCHANGED <<clock, event, sent, mark, queue, contexts, newFlag, bvars, svars, wakeFlag, flushFlag>>

Frontend(t) ==
  \/ t \in options.loggers /\ Stamp(t, "log")
  \/ t \in Flushers /\ Stamp(t, "flush")
  \/ Register(t) \/ Publish(t) \/ QueueFull(t) \/ FlushReturns(t)
  \/ t \in options.exiters /\ Exit(t)

-----------------------------------------------------------------------------
(***************************************************************************)
(* The backend thread.                                                     *)
(***************************************************************************)

\* _update_active_thread_contexts_cache(force).
UpdateCache(force) ==
  /\ cache' = IF force \/ newFlag THEN contexts ELSE cache
  /\ newFlag' = FALSE

\* The loop of run(): another _poll, which starts by updating the cache, or _exit.
Poll ==
  /\ bpc = "poll"
  /\ IF running
     THEN UpdateCache(FALSE) /\ bpc' = "cutoff" /\ UNCHANGED exiting
     ELSE bpc' = "exit" /\ exiting' = TRUE /\ UNCHANGED <<cache, newFlag>>
  /\ UNCHANGED <<clock, fvars, queue, contexts, tsNow, pos, read, buffer, processed, flushed,
                 svars, wakeFlag, flushFlag>>

\* Mutant: the grace period is not subtracted.
CutoffNow == clock

\* _populate_transit_events_from_frontend_queues takes the time before it reads.
CutoffTime == IF Grace = 0 THEN MaxTime ELSE IF clock > Grace THEN clock - Grace ELSE 0

Cutoff ==
  /\ bpc = "cutoff"
  /\ tsNow' = CutoffTime
  /\ pos' = 1 /\ read' = 0
  /\ bpc' = "read"
  /\ UNCHANGED <<clock, fvars, queue, contexts, newFlag, exiting, cache, buffer, processed,
                 flushed, svars, wakeFlag, flushFlag>>

\* The read loop of _read_and_decode_frontend_queue goes on.
Readable(t) ==
  /\ read < QueueCapacity
  /\ Len(buffer[t]) < HardLimit
  /\ queue[t] # <<>>
  /\ Head(queue[t]).ts <= tsNow

\* Mutant: an event beyond the cut-off is consumed although it is not buffered.
ReadEventBeyondCutoff ==
  /\ bpc = "read" /\ pos <= Len(cache)
  /\ LET t == cache[pos]
     IN  /\ queue[t] # <<>> /\ Len(buffer[t]) < HardLimit /\ read < QueueCapacity
         /\ buffer' = IF Readable(t) THEN [buffer EXCEPT ![t] = Append(@, Head(queue[t]))] ELSE buffer
         /\ queue' = [queue EXCEPT ![t] = Tail(@)]
  /\ read' = read + 1
  /\ UNCHANGED <<clock, fvars, contexts, newFlag, bpc, exiting, cache, tsNow, pos, processed,
                 flushed, svars, wakeFlag, flushFlag>>

ReadEvent ==
  /\ bpc = "read" /\ pos <= Len(cache)
  /\ LET t == cache[pos]
     IN  /\ Readable(t)
         /\ buffer' = [buffer EXCEPT ![t] = Append(@, Head(queue[t]))]
         /\ queue' = [queue EXCEPT ![t] = Tail(@)]
  /\ read' = read + 1
  /\ UNCHANGED <<clock, fvars, contexts, newFlag, bpc, exiting, cache, tsNow, pos, processed,
                 flushed, svars, wakeFlag, flushFlag>>

\* The loop ends: commit_read, and on to the next context.
NextQueue ==
  /\ bpc = "read" /\ pos <= Len(cache)
  /\ ~Readable(cache[pos])
  /\ pos' = pos + 1 /\ read' = 0
  /\ UNCHANGED <<clock, fvars, queue, contexts, newFlag, bpc, exiting, cache, tsNow, buffer,
                 processed, flushed, svars, wakeFlag, flushFlag>>

\* The sizes of the transit buffers, added up slot by slot.
CachedEvents == Cardinality({s \in Range(cache) \X (1..HardLimit) : s[2] <= Len(buffer[s[1]])})

\* What _poll or _exit does with what is buffered now.
WhatNext(cached) ==
  IF cached = 0 THEN IF exiting THEN "exit" ELSE "idle"
  ELSE IF ~exiting /\ cached < options.softLimit THEN "one" ELSE "batch"

EndPopulate ==
  /\ bpc = "read" /\ pos > Len(cache)
  /\ bpc' = WhatNext(CachedEvents)
  /\ tsNow' = 0 /\ pos' = 1
  /\ UNCHANGED <<clock, fvars, queue, contexts, newFlag, exiting, cache, read, buffer,
                 processed, flushed, svars, wakeFlag, flushFlag>>

LoopTop == IF exiting THEN "exit" ELSE "poll"

\* has_pending_events_for_caching_when_transit_event_buffer_empty: first the cache ...
BatchUpdate ==
  /\ bpc = "batch"
  /\ UpdateCache(FALSE)
  /\ bpc' = "pending"
  /\ UNCHANGED <<clock, fvars, queue, contexts, exiting, tsNow, pos, read, buffer, processed,
                 flushed, svars, wakeFlag, flushFlag>>

\* ... then the queues of the contexts that have nothing buffered.  With
\* nothing buffered at all the batch ends as well.
BatchCheck ==
  /\ bpc = "pending"
  /\ bpc' = IF \/ \E t \in Range(cache) : buffer[t] = <<>> /\ queue[t] # <<>>
               \/ \A t \in Range(cache) : buffer[t] = <<>>
            THEN LoopTop ELSE "process"
  /\ UNCHANGED <<clock, fvars, queue, contexts, newFlag, exiting, cache, tsNow, pos, read, buffer,
                 processed, flushed, svars, wakeFlag, flushFlag>>

\* The first context in the cache whose front event has the lowest timestamp.
LowestTimestamp ==
  LET full == {i \in 1..Len(cache) : buffer[cache[i]] # <<>>}
      ts(i) == Head(buffer[cache[i]]).ts
  IN  cache[CHOOSE i \in full : \A j \in full : ts(i) < ts(j) \/ (ts(i) = ts(j) /\ i <= j)]

\* _flush_and_run_active_sinks, when it flushes: all that was written so far.
SinksFlushed == Len(processed)

\* Mutant: an explicit flush waits for the interval like any other.
FlushedWhenDue == flushed

\* A flush event flushes the sinks whatever their interval.
FlushedExplicitly == SinksFlushed

\* A context is removable once its thread has exited and its queue and transit buffer are drained.
InvalidAndEmpty(t, buf) == tpc[t] = "exited" /\ queue[t] = <<>> /\ buf[t] = <<>>

\* The elements of s that are not in gone, in their order.
Without(s, gone) ==
  LET kept == {i \in DOMAIN s : s[i] \notin gone}
  IN  [n \in 1..Cardinality(kept) |->
         s[CHOOSE i \in kept : Cardinality({j \in kept : j <= i}) = n]]

\* _cleanup_invalidated_thread_contexts: from the manager and from the cache.
CleanupContexts(buf) ==
  LET gone == {t \in Range(cache) : InvalidAndEmpty(t, buf)}
  IN  contexts' = Without(contexts, gone) /\ cache' = Without(cache, gone)

\* _process_lowest_timestamp_transit_event.  An event is popped whether or not
\* a sink throws.  A flush event flushes the sinks, and only when it has been
\* popped and the contexts cleaned up is its caller released.
ProcessLowest ==
  /\ bpc \in {"one", "process"}
  /\ LET t == LowestTimestamp
         e == Head(buffer[t])
     IN  /\ buffer' = [buffer EXCEPT ![t] = Tail(@)]
         /\ processed' = Append(processed, e)
         /\ IF e.kind = "flush"
            THEN /\ flushed' = FlushedExplicitly
                 /\ CleanupContexts(buffer')
                 /\ flushFlag' = [flushFlag EXCEPT ![t] = TRUE]
            ELSE UNCHANGED <<flushed, contexts, cache, flushFlag>>
  /\ bpc' = IF bpc = "one" THEN "poll" ELSE "batch"
  /\ UNCHANGED <<clock, fvars, queue, newFlag, exiting, tsNow, pos, read, svars, wakeFlag>>

\* Nothing is buffered: the sinks are flushed if sink_min_flush_interval has
\* passed; then _check_frontend_queues_and_cached_transit_events_empty updates
\* the cache ...
Idle ==
  /\ bpc = "idle"
  /\ flushed' \in {flushed, SinksFlushed}
  /\ UpdateCache(FALSE)
  /\ bpc' = "idlecheck"
  /\ UNCHANGED <<clock, fvars, queue, contexts, exiting, tsNow, pos, read, buffer, processed,
                 svars, wakeFlag, flushFlag>>

\* Mutant: only the buffers are looked at.
BuffersEmpty == \A t \in Range(cache) : buffer[t] = <<>>

AllEmpty == \A t \in Range(cache) : queue[t] = <<>> /\ buffer[t] = <<>>

\* ... and looks at the queues.
IdleCheck ==
  /\ bpc = "idlecheck"
  /\ bpc' = IF AllEmpty THEN "cleanup" ELSE "poll"
  /\ UNCHANGED <<clock, fvars, queue, contexts, newFlag, exiting, cache, tsNow, pos, read, buffer,
                 processed, flushed, svars, wakeFlag, flushFlag>>

\* An idle backend then sleeps, an exiting one has finished.
Cleanup ==
  /\ bpc = "cleanup"
  /\ CleanupContexts(buffer)
  /\ bpc' = IF exiting THEN "done" ELSE "sleep"
  /\ UNCHANGED <<clock, fvars, queue, newFlag, exiting, tsNow, pos, read, buffer, processed,
                 flushed, svars, wakeFlag, flushFlag>>

WakeUp ==
  /\ bpc = "sleep"
  /\ bpc' = "poll" /\ wakeFlag' = FALSE
  /\ UNCHANGED <<clock, fvars, queue, contexts, newFlag, exiting, cache, tsNow, pos, read, buffer,
                 processed, flushed, svars, flushFlag>>

\* wait_for returns because the flag is set ...
Notified == wakeFlag /\ WakeUp

\* ... or because sleep_duration has passed.
SleepTimeout == ~wakeFlag /\ WakeUp

\* _exit: the cache first; without wait_for_queues_to_empty_before_exit no look
\* at the queues at all.
ExitUpdate ==
  /\ bpc = "exit"
  /\ IF options.waitForEmpty THEN UpdateCache(FALSE) ELSE UNCHANGED <<cache, newFlag>>
  /\ bpc' = "exitcheck"
  /\ UNCHANGED <<clock, fvars, queue, contexts, exiting, tsNow, pos, read, buffer, processed,
                 flushed, svars, wakeFlag, flushFlag>>

\* Everything is drained: a last flush of the sinks, and the contexts go.
ExitCheck ==
  /\ bpc = "exitcheck"
  /\ IF options.waitForEmpty => AllEmpty
     THEN bpc' = "cleanup" /\ flushed' = SinksFlushed
     ELSE bpc' = "cutoff" /\ UNCHANGED flushed
  /\ UNCHANGED <<clock, fvars, queue, contexts, newFlag, exiting, cache, tsNow, pos, read, buffer,
                 processed, svars, wakeFlag, flushFlag>>

Backend ==
  \/ Poll \/ Cutoff \/ ReadEvent \/ NextQueue \/ EndPopulate \/ BatchUpdate \/ BatchCheck
  \/ ProcessLowest \/ Idle \/ IdleCheck \/ Cleanup \/ Notified \/ ExitUpdate \/ ExitCheck

-----------------------------------------------------------------------------
(***************************************************************************)
(* The thread that stops and starts the backend.                           *)
(***************************************************************************)

\* stop() clears the running flag ...
Stop ==
  /\ spc = "idle" /\ stops < options.maxStops
  /\ stops' = stops + 1
  /\ running' = FALSE /\ spc' = "notify"
  /\ stopMark' = Published
  /\ UNCHANGED <<options, clock, fvars, queue, contexts, newFlag, bvars, wakeFlag, flushFlag>>

\* Mutant: the flag that ends the sleep is not set.
NotifyNobody ==
  /\ spc = "notify"
  /\ spc' = "join"
  /\ UNCHANGED <<clock, fvars, queue, contexts, newFlag, bvars, options, running, stops, stopMark, wakeFlag, flushFlag>>

\* ... wakes the backend up ...
Notify ==
  /\ spc = "notify"
  /\ wakeFlag' = TRUE /\ spc' = "join"
  /\ UNCHANGED <<clock, fvars, queue, contexts, newFlag, bvars, options, running, stops, stopMark, flushFlag>>

\* ... joins it and drops its cache.
Join ==
  /\ spc = "join" /\ bpc = "done"
  /\ cache' = <<>> /\ spc' = "stopped"
  /\ UNCHANGED <<clock, fvars, queue, contexts, newFlag, bpc, exiting, tsNow, pos, read, buffer,
                 processed, flushed, options, running, stops, stopMark, wakeFlag, flushFlag>>

\* Mutant: the restarted backend waits for a new context before it looks.
StartUnforced ==
  /\ spc = "stopped"
  /\ running' = TRUE /\ spc' = "idle"
  /\ UpdateCache(FALSE)
  /\ bpc' = "poll" /\ exiting' = FALSE
  /\ UNCHANGED <<clock, fvars, queue, contexts, tsNow, pos, read, buffer, processed, flushed,
                 options, stops, stopMark, wakeFlag, flushFlag>>

\* start(): run() and _init; the cache is refreshed whatever the flag says.
Start ==
  /\ spc = "stopped"
  /\ running' = TRUE /\ spc' = "idle"
  /\ UpdateCache(TRUE)
  /\ bpc' = "poll" /\ exiting' = FALSE
  /\ UNCHANGED <<clock, fvars, queue, contexts, tsNow, pos, read, buffer, processed, flushed,
                 options, stops, stopMark, wakeFlag, flushFlag>>

-----------------------------------------------------------------------------

Next == \/ Tick \/ \E t \in Threads : Frontend(t)
        \/ Backend \/ SleepTimeout
        \/ Stop \/ Notify \/ Join \/ Start

Spec == Init /\ [][Next]_vars

\* Time passes, the backend thread runs, a caller inside the library goes on.
\* Nobody has to log, exit, stop or start; the sleep need not time out.
Fairness ==
  /\ WF_vars(Tick) /\ WF_vars(Backend) /\ WF_vars(Notify \/ Join)
  /\ \A t \in Threads : WF_vars(Register(t) \/ Publish(t) \/ QueueFull(t) \/ FlushReturns(t))

FairSpec == Spec /\ Fairness

-----------------------------------------------------------------------------

\* Every variable has its type; queues and transit buffers stay within their
\* capacities.
TypeOK ==
  /\ options \in Configs
  /\ clock \in 0..MaxTime /\ tsNow \in 0..MaxTime
  /\ tpc \in [Threads -> {"idle", "stamped", "blocked", "waiting", "exited"}]
  /\ event \in [Threads -> Event] /\ sent \in [Threads -> Nat]
  /\ queue \in [Threads -> Seq(Event)] /\ buffer \in [Threads -> Seq(Event)]
  /\ \A t \in Threads : Len(queue[t]) <= QueueCapacity /\ Len(buffer[t]) <= HardLimit
  /\ processed \in Seq(Event) /\ flushed \in 0..Len(processed)
  /\ contexts \in Seq(Threads) /\ cache \in Seq(Threads)
  /\ bpc \in {"poll", "cutoff", "read", "one", "batch", "pending", "process", "idle", "idlecheck",
              "cleanup", "sleep", "exit", "exitcheck", "done"}
  /\ {newFlag, exiting, running, wakeFlag} \subseteq BOOLEAN
  /\ spc \in {"idle", "notify", "join", "stopped"}
  /\ pos \in 1..(Len(cache) + 1) /\ read \in 0..QueueCapacity
  /\ stops \in 0..options.maxStops /\ flushFlag \in [Threads -> BOOLEAN]
  /\ mark \in [Threads -> SUBSET Event] /\ stopMark \subseteq Event

\* Every published event is in exactly one place and no two events of a thread
\* change places, on the way from the queue through the buffer to the sinks:
\* those that wait are the last ones the thread sent, in their order, and the
\* others were processed, in theirs; the queue and the buffer never hold more
\* than they may (TypeOK).
NothingLostOrReordered ==
  /\ TypeOK
  /\ \A t \in Threads :
       LET done == sent[t] - Len(Pending(t))
           OfThread == {i \in 1..Len(processed) : processed[i].thread = t}
       IN  /\ \A i \in 1..Len(Pending(t)) :
                 Pending(t)[i].thread = t /\ Pending(t)[i].seq = done + i
           /\ {processed[i].seq : i \in OfThread} = 1..done
           /\ \A i, j \in OfThread : i < j => processed[i].seq < processed[j].seq

\* "protects timestamp ordering within the configured grace window": an event
\* that is processed behind a later timestamp was itself published too late.
\* A period of 0 promises nothing.
OrderedWithinGrace ==
  Grace > 0 =>
    \A j \in 1..Len(processed) : \A i \in 1..(j - 1) :
      processed[j].ts < processed[i].ts => processed[j].at > processed[j].ts + Grace

\* flush_log returns when everything that any thread had published before the
\* call, with an earlier timestamp, has been given to the sinks and flushed.
FlushCoversEarlierEvents ==
  Grace > 0 => \A t \in Threads : flushFlag[t] => mark[t] \subseteq Flushed

\* When stop() returns, everything published before the call has been written
\* and flushed, if the backend is to wait for empty queues.
StopDrains ==
  spc = "stopped" /\ options.waitForEmpty => stopMark \subseteq Flushed

\* wait_for returns after sleep_duration at the latest.
SleepsEnd == WF_vars(SleepTimeout)

\* A thread in flush_log is released when an idle backend's sleeps end, unless
\* the backend is stopped under it; and then by the backend that is started next.
FlushReleased ==
  SleepsEnd => \A t \in Flushers : (tpc[t] = "waiting") ~> (tpc[t] # "waiting" \/ spc # "idle")

\* stop() returns although the backend may be asleep and the sleep may be
\* long: the wake-up is never lost.
StopReturns == (spc = "join") ~> (spc = "stopped")

=============================================================================
