-------------------------- MODULE BackendLifecycle --------------------------
(***************************************************************************)
(* Starting and stopping the backend: Backend.h with the singleton of      *)
(* BackendManager.h, the worker thread of BackendWorker.h, the manual      *)
(* worker, and the lock file that tells two copies of the library in one   *)
(* process of each other; together with the signal handler and with the    *)
(* clock that the backend keeps for the other threads.                     *)
(*                                                                         *)
(* A workload gives the threads their programs, the signals that come, and *)
(* the program of the other copy.  start() and stop() of different threads *)
(* do not overlap in it, which is not supported; calls of the same do.     *)
(* What the backend does with statements is in BackendWorker; here they    *)
(* are read in their order.                                                *)
(***************************************************************************)
EXTENDS RdtscClock, SignalHandler, FiniteSets

CONSTANTS Workloads  \* a sequence

\* Any thread may ask for the time.
ASSUME ThreadsAssumption == Threads \subseteq Readers

VARIABLES
  work,     \* the workload
  next, pc, \* the program of each thread
  manager,  \* once flag, lock of stop(), whether the exit handler is registered
  worker,   \* the backend worker, see LifecycleInit
  lock,     \* the lock file: inode at its path, next inode, open inode and lock of each copy
  copy,     \* the other copy of the library: pc and next
  signals,  \* the signals to come
  failed,   \* history: the dispositions before a start that threw
  orphaned, \* history: a lock was taken in a file that had been removed
  time      \* history: the last value the backend converted, and its time

threadVars == <<next, pc>>
lifeVars == <<manager, worker, lock, copy, signals, failed, orphaned, time>>
lifecycleVars == <<work, threadVars, lifeVars, clockVars, signalVars>>

Copies == {"quill", "copy"}

\* pc: none, init, begin, poll, exit or exited; stage: of reading a record with
\* a counter value: idle, config (a clock to be synchronised, tries so far),
\* resync or convert.
NoWorker == [pc |-> "none", running |-> FALSE, id |-> 0, stage |-> "idle", tries |-> 0]

LifecycleInit ==
  /\ \E i \in DOMAIN Workloads : work = Workloads[i]
  /\ ClockInit /\ SignalInit(work.loggers)
  /\ next = [t \in Threads |-> 1] /\ pc = [t \in Threads |-> "ready"]
  /\ manager = [once |-> "fresh", stopLock |-> Null, atexit |-> FALSE, before |-> Null]
  /\ worker = NoWorker @@ [published |-> FALSE, owner |-> FALSE, valid |-> TRUE, interval |-> 0, options |-> Null,
                           manual |-> Null, started |-> FALSE]
  /\ lock = [path |-> 0, next |-> 1, fd |-> [c \in Copies |-> 0], held |-> {}]
  /\ copy = [pc |-> "ready", next |-> 1]
  /\ signals = work.signals
  /\ failed = Null /\ orphaned = FALSE /\ time = [value |-> 0, time |-> 0, synchronised |-> FALSE]

Runs(t) == ended = "no" /\ ~Handling(t) /\ next[t] <= Len(work.programs[t])
Op(t) == work.programs[t][next[t]]
Calls(t, op) == Runs(t) /\ pc[t] = "ready" /\ Op(t).op = op
Within(t, p) == Runs(t) /\ pc[t] = p
Step(t, p) == pc' = [pc EXCEPT ![t] = p] /\ UNCHANGED next
Complete(t) == pc' = [pc EXCEPT ![t] = "ready"] /\ next' = [next EXCEPT ![t] = @ + 1]

-----------------------------------------------------------------------------
(***************************************************************************)
(* What the program does besides: it logs, creates loggers, converts times *)
(* and waits.                                                              *)
(***************************************************************************)

LogStatement(t) ==
  /\ Calls(t, "log")
  /\ queue' = Append(queue, [by |-> t, kind |-> "log", stamp |-> IF Op(t).tsc THEN counter ELSE 0])
  /\ Complete(t)
  /\ UNCHANGED <<work, lifeVars, clockVars, handlers, frames, mask, raised, alarm, deferred, ended, flushed,
                 registry>>

\* create_or_get_logger: a logger is inserted in the order of the names, unless
\* there is one of its name.
CreatedOrGot(loggers, logger) ==
  IF \E i \in DOMAIN loggers : loggers[i].name = logger.name THEN loggers
  ELSE SelectSeq(loggers, LAMBDA l : l.name < logger.name) \o <<logger>>
       \o SelectSeq(loggers, LAMBDA l : l.name > logger.name)

\* Creating a logger holds the lock of the LoggerManager.
CreateLogger(t) ==
  /\ \/ Calls(t, "create") /\ registry.holder = Null /\ registry' = [registry EXCEPT !.holder = t] /\ Step(t, "create")
     \/ /\ Within(t, "create")
        /\ registry' = [holder |-> Null, loggers |-> CreatedOrGot(registry.loggers, Op(t).logger)]
        /\ Complete(t)
  /\ UNCHANGED <<work, lifeVars, clockVars, handlers, frames, mask, raised, alarm, deferred, ended, queue,
                 flushed>>

\* A thread waits for start() to have returned, or for the other threads to be done.
Wait(t) ==
  /\ \/ Calls(t, "await") /\ worker.running /\ manager.once = "done"
     \/ Calls(t, "join") /\ \A u \in Threads \ {t} : next[u] > Len(work.programs[u])
  /\ Complete(t)
  /\ UNCHANGED <<work, lifeVars, clockVars, signalVars>>

\* BackendTscClock::now(), convert_rdtsc_to_epoch_time: an error if the options
\* rule the clock out; 0, or the system clock, while no clock is published.
ConvertTime(t) ==
  /\ Calls(t, "convert")
  /\ IF worker.valid /\ worker.published
       THEN BeginConversion(t, counter) /\ Step(t, "convert")
       ELSE UNCHANGED clockVars /\ Complete(t)
  /\ UNCHANGED <<work, lifeVars, signalVars>>

ConvertStep(t) ==
  /\ Within(t, "convert")
  /\ \/ ReadStep(t) /\ UNCHANGED threadVars
     \/ EndConversion(t) /\ Complete(t)
  /\ UNCHANGED <<work, lifeVars, signalVars>>

-----------------------------------------------------------------------------
(***************************************************************************)
(* The lock file of BackendWorkerLock.h.                                   *)
(***************************************************************************)

\* open(), which creates the file if there is none.
Opened(l, c) ==
  IF l.path # 0 THEN [l EXCEPT !.fd[c] = l.path]
  ELSE [l EXCEPT !.path = l.next, !.next = @ + 1, !.fd[c] = l.next]

\* flock(): each copy has a description of its own.
LockedElsewhere(l, c) == \E d \in l.held : d # c /\ l.fd[d] = l.fd[c]
Locked(l, c) == [l EXCEPT !.held = @ \cup {c}]

\* The destructor removes the file, whatever is at its path now, and then closes it.
Unlinked(l) == [l EXCEPT !.path = 0]
Closed(l, c) == [l EXCEPT !.fd[c] = 0, !.held = @ \ {c}]

-----------------------------------------------------------------------------
(***************************************************************************)
(* start()                                                                 *)
(***************************************************************************)

\* validate_options throws before anything is done.
Validate(t) ==
  /\ Calls(t, "start")
  /\ IF Op(t).valid THEN Step(t, "once") ELSE Complete(t)
  /\ UNCHANGED <<work, lifeVars, clockVars, signalVars>>

HasSignals(t) == Op(t).signals # Null

\* simple_logger and simple_logger_with_signal_handler: a logger is made if there
\* is none, under the lock of the LoggerManager; the backend is then started, with
\* options that are valid, unless it runs.  Another thread may start it meanwhile.
SimpleLoggerImpl(t) ==
  /\ \/ Calls(t, "simple") /\ registry.holder = Null /\ registry' = [registry EXCEPT !.holder = t] /\ Step(t, "simple")
     \/ /\ Within(t, "simple")
        /\ registry' = [holder |-> Null, loggers |-> CreatedOrGot(registry.loggers, Op(t).logger)]
        /\ Step(t, "running")
  /\ UNCHANGED <<work, lifeVars, clockVars, handlers, frames, mask, raised, alarm, deferred, ended, queue,
                 flushed>>

SimpleLogger(t) ==
  /\ Within(t, "running")
  /\ IF worker.running THEN Complete(t) ELSE Step(t, "once")
  /\ UNCHANGED <<work, lifeVars, clockVars, signalVars>>

\* call_once: the first caller goes on, others wait for it.
CallOnce(t) ==
  /\ Within(t, "once") /\ manager.once # "running"
  /\ IF manager.once = "done" THEN Complete(t) /\ UNCHANGED <<manager, failed>>
     ELSE /\ manager' = [manager EXCEPT !.once = "running", !.before = handlers.disposition]
          /\ failed' = Null
          /\ Step(t, IF HasSignals(t) THEN "block" ELSE "open")
  /\ UNCHANGED <<work, worker, lock, copy, signals, orphaned, time, clockVars, signalVars>>

\* Signals are blocked, for the worker to inherit that.
BlockSignals(t) ==
  /\ Within(t, "block")
  /\ mask' = [mask EXCEPT ![t] = Signals]
  /\ Step(t, "install")
  /\ UNCHANGED <<work, lifeVars, clockVars, handlers, frames, raised, alarm, deferred, ended, queue, flushed,
                 registry>>

Install(t) ==
  /\ Within(t, "install")
  /\ LET result == InstallAll(handlers, Op(t).signals)
     IN  handlers' = result.handlers /\ Step(t, IF result.ok THEN "open" ELSE "catch")
  /\ UNCHANGED <<work, lifeVars, clockVars, frames, mask, raised, alarm, deferred, ended, queue, flushed,
                 registry>>

\* A file that cannot be opened is no reason not to start.
OpenLock(t) ==
  /\ Within(t, "open")
  /\ IF Op(t).check /\ Op(t).fault # "open" THEN lock' = Opened(lock, "quill") /\ Step(t, "flock")
     ELSE UNCHANGED lock /\ Step(t, "spawn")
  /\ UNCHANGED <<work, manager, worker, copy, signals, failed, orphaned, time, clockVars, signalVars>>

\* A lock that the other copy holds is, another failure is not.
Flock(t) ==
  /\ Within(t, "flock")
  /\ CASE Op(t).fault = "flock" -> lock' = Closed(lock, "quill") /\ Step(t, "spawn") /\ UNCHANGED orphaned
       [] Op(t).fault # "flock" /\ LockedElsewhere(lock, "quill") ->
            lock' = Closed(lock, "quill") /\ Step(t, "catch") /\ UNCHANGED orphaned
       [] OTHER -> /\ lock' = Locked(lock, "quill") /\ Step(t, "spawn")
                   /\ orphaned' = (orphaned \/ lock.fd["quill"] # lock.path)
  /\ UNCHANGED <<work, manager, worker, copy, signals, failed, time, clockVars, signalVars>>

\* The thread is created; if that fails the lock is released.
Spawn(t) ==
  /\ Within(t, "spawn")
  /\ IF Op(t).fault = "spawn"
       THEN UNCHANGED worker /\ Step(t, IF lock.fd["quill"] # 0 THEN "unlink" ELSE "catch")
       ELSE /\ worker' = [worker EXCEPT !.pc = "init", !.options = Op(t)]
            /\ Step(t, "spawned")
  /\ UNCHANGED <<work, manager, lock, copy, signals, failed, orphaned, time, clockVars, signalVars>>

\* When the worker runs, the signal handler learns its id and signals are unblocked.
Spawned(t) ==
  /\ Within(t, "spawned") /\ worker.running
  /\ IF HasSignals(t) THEN /\ handlers' = [handlers EXCEPT !.backendId = worker.id]
                           /\ mask' = [mask EXCEPT ![t] = {}]
     ELSE UNCHANGED <<handlers, mask>>
  /\ Step(t, "finish")
  /\ UNCHANGED <<work, lifeVars, clockVars, frames, raised, alarm, deferred, ended, queue, flushed, registry>>

Finish(t) ==
  /\ Within(t, "finish")
  /\ manager' = [manager EXCEPT !.once = "done", !.atexit = TRUE]
  /\ Complete(t)
  /\ UNCHANGED <<work, worker, lock, copy, signals, failed, orphaned, time, clockVars, signalVars>>

\* Mutant: an exception leaves the signal handlers installed.
CatchKeepingHandlers(t) ==
  /\ Within(t, "catch")
  /\ mask' = [mask EXCEPT ![t] = {}]
  /\ manager' = [manager EXCEPT !.once = "fresh"]
  /\ failed' = manager.before
  /\ Complete(t)
  /\ UNCHANGED <<work, worker, lock, copy, signals, orphaned, time, clockVars, handlers, frames, raised, alarm,
                 deferred, ended, queue, flushed, registry>>

\* An exception: the handlers are what they were, and start() can be called again.
Catch(t) ==
  /\ Within(t, "catch")
  /\ IF HasSignals(t) THEN handlers' = RestoreHandlers(handlers) /\ mask' = [mask EXCEPT ![t] = {}]
     ELSE UNCHANGED <<handlers, mask>>
  /\ manager' = [manager EXCEPT !.once = "fresh"]
  /\ failed' = manager.before
  /\ Complete(t)
  /\ UNCHANGED <<work, worker, lock, copy, signals, orphaned, time, clockVars, frames, raised, alarm, deferred,
                 ended, queue, flushed, registry>>

-----------------------------------------------------------------------------
(***************************************************************************)
(* stop(), and the exit of the process, which calls it.                    *)
(***************************************************************************)

\* The ids of the threads; the worker's is 1.
IdOf(t) == 1 + Cardinality({u \in Threads : u = t \/ u = "main"})

\* stop() in the thread of the backend throws.
Stop(t) ==
  /\ Calls(t, "stop")
  /\ IF worker.id = IdOf(t) THEN Complete(t) ELSE Step(t, "lock")
  /\ UNCHANGED <<work, lifeVars, clockVars, signalVars>>

\* The exit handler, if start() got as far as to register it, before the destructors.
Exit(t) ==
  /\ Calls(t, "exit")
  /\ Step(t, IF manager.atexit THEN "lock" ELSE "destroy")
  /\ UNCHANGED <<work, lifeVars, clockVars, signalVars>>

StopLocked(t) ==
  /\ Within(t, "lock") /\ manager.stopLock = Null
  /\ manager' = [manager EXCEPT !.stopLock = t]
  /\ handlers' = [handlers EXCEPT !.backendId = 0]
  /\ Step(t, "stop")
  /\ UNCHANGED <<work, worker, lock, copy, signals, failed, orphaned, time, clockVars, frames, mask, raised,
                 alarm, deferred, ended, queue, flushed, registry>>

\* The worker is stopped by stop(), which goes on, and by its own destructor.
AfterWorkerStop(t) == IF manager.stopLock = t THEN "flag" ELSE "end"

\* A backend that does not run is not stopped.
StopWorker(t) ==
  /\ Within(t, "stop") \/ Within(t, "destroy")
  /\ worker' = [worker EXCEPT !.running = FALSE]
  /\ Step(t, IF worker.running THEN "join" ELSE AfterWorkerStop(t))
  /\ UNCHANGED <<work, manager, lock, copy, signals, failed, orphaned, time, clockVars, signalVars>>

Join(t) ==
  /\ Within(t, "join") /\ worker.pc = "exited"
  /\ worker' = [worker EXCEPT !.pc = "none", !.id = 0]
  /\ Step(t, IF lock.fd["quill"] # 0 THEN "unlink" ELSE AfterWorkerStop(t))
  /\ UNCHANGED <<work, manager, lock, copy, signals, failed, orphaned, time, clockVars, signalVars>>

\* The lock file, after a stop or a failed start.
Unlink(t) ==
  /\ Within(t, "unlink")
  /\ lock' = Unlinked(lock)
  /\ Step(t, "close")
  /\ UNCHANGED <<work, manager, worker, copy, signals, failed, orphaned, time, clockVars, signalVars>>

Close(t) ==
  /\ Within(t, "close")
  /\ lock' = Closed(lock, "quill")
  /\ Step(t, IF Op(t).op \in {"start", "simple"} THEN "catch" ELSE AfterWorkerStop(t))
  /\ UNCHANGED <<work, manager, worker, copy, signals, failed, orphaned, time, clockVars, signalVars>>

\* A new flag: the backend can be started again.
ResetFlag(t) ==
  /\ Within(t, "flag")
  /\ manager' = [manager EXCEPT !.once = "fresh"]
  /\ Step(t, "deinit")
  /\ UNCHANGED <<work, worker, lock, copy, signals, failed, orphaned, time, clockVars, signalVars>>

Deinit(t) ==
  /\ Within(t, "deinit")
  /\ handlers' = DeinitHandlers(handlers)
  /\ manager' = [manager EXCEPT !.stopLock = Null]
  /\ failed' = Null
  /\ IF Op(t).op = "exit" THEN Step(t, "destroy") ELSE Complete(t)
  /\ UNCHANGED <<work, worker, lock, copy, signals, orphaned, time, clockVars, frames, mask, raised, alarm,
                 deferred, ended, queue, flushed, registry>>

\* The destructor of the worker ends with the clock.
End(t) ==
  /\ Within(t, "end")
  /\ ended' = "end"
  /\ worker' = [worker EXCEPT !.published = FALSE]
  /\ Complete(t)
  /\ UNCHANGED <<work, manager, lock, copy, signals, failed, orphaned, time, clockVars, handlers, frames, mask,
                 raised, alarm, deferred, queue, flushed, registry>>

-----------------------------------------------------------------------------
(***************************************************************************)
(* The manual worker.                                                      *)
(***************************************************************************)

\* acquire_manual_backend_worker: the first caller gets it, others an error.
Acquire(t) ==
  /\ Calls(t, "acquire") /\ manager.once # "running"
  /\ IF manager.once = "fresh" THEN /\ manager' = [manager EXCEPT !.once = "done"]
                                    /\ worker' = [worker EXCEPT !.manual = t]
     ELSE UNCHANGED <<manager, worker>>
  /\ Complete(t)
  /\ UNCHANGED <<work, lock, copy, signals, failed, orphaned, time, clockVars, signalVars>>

\* init() keeps the options even if it throws, but no id then.
InitManual(t) ==
  /\ Calls(t, "init") /\ worker.manual = t
  /\ worker' = [worker EXCEPT !.valid = Op(t).sleepFits, !.interval = Op(t).interval,
                              !.id = IF Op(t).valid THEN IdOf(t) ELSE @,
                              !.started = Op(t).valid]
  /\ Complete(t)
  /\ UNCHANGED <<work, manager, lock, copy, signals, failed, orphaned, time, clockVars, signalVars>>

\* poll() and shutdown() begin; calls that their assertions rule out are not made.
PollManual(t) ==
  /\ \/ Calls(t, "poll") /\ worker.started /\ Step(t, "poll")
     \/ /\ Calls(t, "shutdown")
        /\ IF worker.started THEN Step(t, "drain") ELSE Complete(t)
  /\ UNCHANGED <<work, lifeVars, clockVars, signalVars>>

\* poll() returns when there is nothing left, or in time.
PollReturns(t) ==
  /\ Within(t, "poll") /\ worker.stage = "idle" /\ sync.pc = "idle"
  /\ Complete(t)
  /\ UNCHANGED <<work, lifeVars, clockVars, signalVars>>

\* _exit() and the rest of shutdown().
ShutdownReturns(t) ==
  /\ Within(t, "drain") /\ worker.stage = "idle" /\ sync.pc = "idle" /\ queue = <<>>
  /\ worker' = [worker EXCEPT !.published = FALSE, !.id = 0, !.started = FALSE]
  /\ Complete(t)
  /\ UNCHANGED <<work, manager, lock, copy, signals, failed, orphaned, time, clockVars, signalVars>>

-----------------------------------------------------------------------------
(***************************************************************************)
(* The worker thread.                                                      *)
(***************************************************************************)

InitWorker ==
  /\ ended = "no" /\ worker.pc = "init"
  /\ worker' = [worker EXCEPT !.pc = "begin", !.id = 1, !.interval = worker.options.interval,
                              !.valid = worker.options.sleepFits]
  /\ UNCHANGED <<work, threadVars, manager, lock, copy, signals, failed, orphaned, time, clockVars, signalVars>>

BeginWorker ==
  /\ ended = "no" /\ worker.pc = "begin"
  /\ worker' = [worker EXCEPT !.pc = "poll", !.running = TRUE]
  /\ UNCHANGED <<work, threadVars, manager, lock, copy, signals, failed, orphaned, time, clockVars, signalVars>>

\* The loop ends when stop() has cleared the flag; _exit() reads what is left.
LeaveLoop ==
  /\ ended = "no" /\ worker.pc = "poll" /\ ~worker.running /\ worker.stage = "idle" /\ sync.pc = "idle"
  /\ worker' = [worker EXCEPT !.pc = "exit"]
  /\ UNCHANGED <<work, threadVars, manager, lock, copy, signals, failed, orphaned, time, clockVars, signalVars>>

\* The clock is withdrawn, its memory kept.
ExitWorker ==
  /\ ended = "no" /\ worker.pc = "exit" /\ worker.stage = "idle" /\ sync.pc = "idle" /\ queue = <<>>
  /\ worker' = [worker EXCEPT !.pc = "exited", !.published = FALSE]
  /\ UNCHANGED <<work, threadVars, manager, lock, copy, signals, failed, orphaned, time, clockVars, signalVars>>

-----------------------------------------------------------------------------
(***************************************************************************)
(* Reading records and keeping the clock: steps of the worker thread, or   *)
(* of the thread that polls the manual worker.                             *)
(***************************************************************************)

Drives == /\ ended = "no"
          /\ worker.pc \in {"poll", "exit"} \/ \E t \in Threads : Runs(t) /\ pc[t] \in {"poll", "drain"}
Reads(stage) == Drives /\ queue # <<>> /\ worker.stage = stage /\ sync.pc = "idle"

\* A flush sets the flag that its frame waits for.
Answered(record) ==
  IF record.kind = "flush" THEN [flushed EXCEPT ![record.by] = @ \cup {record.frame}] ELSE flushed

ReadRecord ==
  /\ Reads("idle") /\ Head(queue).stamp = 0
  /\ queue' = Tail(queue)
  /\ flushed' = Answered(Head(queue))
  /\ UNCHANGED <<work, threadVars, lifeVars, clockVars, handlers, frames, mask, raised, alarm, deferred, ended,
                 registry>>

\* The first counter value makes or reconfigures the clock.
ConfigureClock ==
  /\ Reads("idle") /\ Head(queue).stamp # 0 /\ ~worker.published
  /\ Reconfigure(worker.interval)
  /\ worker' = [worker EXCEPT !.stage = "config", !.tries = 0, !.owner = TRUE]
  /\ UNCHANGED <<work, threadVars, manager, lock, copy, signals, failed, orphaned, time, signalVars>>

\* It is synchronised, with a second try that may take longer, and published in any case.
SynchroniseClock ==
  /\ Reads("config") /\ worker.tries < 2
  /\ \/ BeginResync(IF worker.tries = 0 THEN Lag ELSE 2 * Lag) /\ worker' = [worker EXCEPT !.tries = 2]
     \/ FailResync /\ worker' = [worker EXCEPT !.tries = @ + 1]
  /\ UNCHANGED <<work, threadVars, manager, lock, copy, signals, failed, orphaned, time, signalVars>>

PublishClock ==
  /\ Reads("config") /\ worker.tries = 2
  /\ worker' = [worker EXCEPT !.published = TRUE, !.stage = "idle"]
  /\ UNCHANGED <<work, threadVars, manager, lock, copy, signals, failed, orphaned, time, clockVars, signalVars>>

\* time_since_epoch(): a value far from the base is converted after a resync.
ResyncFirst ==
  /\ Reads("idle") /\ Head(queue).stamp # 0 /\ worker.published /\ TooFar(Head(queue).stamp)
  /\ BeginResync(Lag) \/ FailResync
  /\ worker' = [worker EXCEPT !.stage = "convert"]
  /\ UNCHANGED <<work, threadVars, manager, lock, copy, signals, failed, orphaned, time, signalVars>>

ConvertRecord ==
  /\ \/ Reads("idle") /\ Head(queue).stamp # 0 /\ worker.published /\ ~TooFar(Head(queue).stamp)
     \/ Reads("convert")
  /\ queue' = Tail(queue)
  /\ flushed' = Answered(Head(queue))
  /\ worker' = [worker EXCEPT !.stage = "idle"]
  /\ time' = [value |-> Head(queue).stamp, time |-> TimeOf(CurrentBase, Head(queue).stamp),
              synchronised |-> clock.version > 0]
  /\ UNCHANGED <<work, threadVars, manager, lock, copy, signals, failed, orphaned, clockVars, handlers, frames,
                 mask, raised, alarm, deferred, ended, registry>>

\* _resync_rdtsc_clock, when there is nothing to read and time has passed.
IdleResync ==
  /\ Drives /\ queue = <<>> /\ sync.pc = "idle" /\ worker.pc # "exit" /\ worker.published
  /\ \A t \in Threads : pc[t] # "drain"
  /\ attempts < work.idle
  /\ BeginResync(Lag) \/ FailResync
  /\ UNCHANGED <<work, threadVars, lifeVars, signalVars>>

KeepClock == Drives /\ ResyncStep /\ UNCHANGED <<work, threadVars, lifeVars, signalVars>>

Driver ==
  \/ ReadRecord \/ ConfigureClock \/ SynchroniseClock \/ PublishClock \/ ResyncFirst \/ ConvertRecord
  \/ IdleResync \/ KeepClock

-----------------------------------------------------------------------------
(***************************************************************************)
(* The other copy of the library takes and releases the lock.              *)
(***************************************************************************)

CopyOpens ==
  /\ ended = "no" /\ copy.pc = "ready" /\ copy.next <= work.copyStarts
  /\ lock' = Opened(lock, "copy") /\ copy' = [copy EXCEPT !.pc = "flock"]
  /\ UNCHANGED orphaned

CopyLocks ==
  /\ ended = "no" /\ copy.pc = "flock"
  /\ IF LockedElsewhere(lock, "copy")
       THEN /\ lock' = Closed(lock, "copy") /\ copy' = [pc |-> "ready", next |-> copy.next + 1]
            /\ UNCHANGED orphaned
       ELSE /\ lock' = Locked(lock, "copy") /\ copy' = [copy EXCEPT !.pc = "running"]
            /\ orphaned' = (orphaned \/ lock.fd["copy"] # lock.path)

CopyStops ==
  /\ ended = "no"
  /\ \/ /\ copy.pc = "running"
        /\ lock' = Unlinked(lock) /\ copy' = [copy EXCEPT !.pc = "close"]
     \/ /\ copy.pc = "close"
        /\ lock' = Closed(lock, "copy") /\ copy' = [pc |-> "ready", next |-> copy.next + 1]
  /\ UNCHANGED orphaned

OtherCopy ==
  /\ CopyOpens \/ CopyLocks \/ CopyStops
  /\ UNCHANGED <<work, threadVars, manager, worker, signals, failed, time, clockVars, signalVars>>

-----------------------------------------------------------------------------

\* A signal of the workload comes, in any thread; an alarm that another part of
\* the program set may go off too.
Deliver(t) ==
  /\ \E i \in DOMAIN signals :
       /\ signals' = RemoveAt(signals, i)
       /\ IF signals[i] = Alarm
          THEN /\ ended = "no" /\ handlers.disposition[Alarm] = "quill" /\ alarm' = TRUE
               /\ UNCHANGED <<handlers, frames, mask, raised, deferred, ended, queue, flushed, registry>>
          ELSE Interrupt(t, signals[i])
  /\ UNCHANGED <<work, threadVars, manager, worker, lock, copy, failed, orphaned, time, clockVars>>

AlarmGoesOff == \E t \in Threads : OnAlarm(t) /\ UNCHANGED <<work, threadVars, lifeVars, clockVars>>

Handles(t) ==
  HandlerStep(t, IdOf(t), work.options, counter) /\ UNCHANGED <<work, threadVars, lifeVars, clockVars>>

Program(t) ==
  \/ LogStatement(t) \/ CreateLogger(t) \/ Wait(t) \/ ConvertTime(t) \/ ConvertStep(t)
  \/ Validate(t) \/ SimpleLoggerImpl(t) \/ SimpleLogger(t) \/ CallOnce(t) \/ BlockSignals(t) \/ Install(t) \/ OpenLock(t) \/ Flock(t) \/ Spawn(t)
  \/ Spawned(t) \/ Finish(t) \/ Catch(t)
  \/ Stop(t) \/ Exit(t) \/ StopLocked(t) \/ StopWorker(t) \/ Join(t) \/ Unlink(t) \/ Close(t)
  \/ ResetFlag(t) \/ Deinit(t) \/ End(t)
  \/ Acquire(t) \/ InitManual(t) \/ PollManual(t) \/ PollReturns(t) \/ ShutdownReturns(t)

Worker == InitWorker \/ BeginWorker \/ LeaveLoop \/ ExitWorker \/ Driver

LifecycleNext ==
  \/ \E t \in Threads : Program(t) \/ Handles(t) \/ Deliver(t)
  \/ AlarmGoesOff \/ Worker \/ OtherCopy

\* A handler goes on, as the thread it interrupted would, and a set alarm goes off;
\* signals need not come.
LifecycleSpec ==
  /\ LifecycleInit /\ [][LifecycleNext]_lifecycleVars
  /\ \A t \in Threads : WF_lifecycleVars(Handles(t))
  /\ WF_lifecycleVars(AlarmGoesOff)

-----------------------------------------------------------------------------
(***************************************************************************)
(* Properties.                                                             *)
(***************************************************************************)

Quiet == ended = "no" /\ handlers.number = Null /\ \A t \in Threads : pc[t] = "ready" /\ ~Handling(t)

Stopped ==
  /\ worker.pc = "none" /\ worker.id = 0 /\ ~worker.running /\ ~worker.published /\ ~worker.started
  /\ lock.fd["quill"] = 0 /\ handlers.registered = <<>> /\ handlers.backendId = 0
  /\ \A s \in Signals : handlers.disposition[s] # "quill"

Started ==
  /\ worker.pc = "poll" /\ worker.running /\ worker.id = 1 /\ manager.atexit
  /\ handlers.registered # <<>> <=> handlers.backendId = worker.id

\* Between calls of start() and stop() the backend is either all there or all
\* gone: thread, id, lock file, signal handlers, published clock and the flag
\* that guards start(); and no thread is left with signals blocked.
WholeOrGone ==
  Quiet =>
    /\ manager.stopLock = Null /\ \A t \in Threads : mask[t] = {}
    /\ CASE manager.once = "fresh" -> Stopped
         [] manager.once = "done" -> worker.manual # Null \/ Started
         [] OTHER -> FALSE

\* A start() that threw has left the signal handlers of the program in place.
FailedStartUndone == Quiet /\ failed # Null => handlers.disposition = failed

\* Two copies of the library that took the lock both run only if one took it in
\* a file that the other had just removed.
OneBackend == copy.pc = "running" /\ worker.running /\ "quill" \in lock.held => orphaned

\* A process that ends after stop() has read what the thread that ended it logged.
ExitDrains ==
  ended = "end" /\ manager.atexit => \A i \in DOMAIN queue : queue[i].by # "main"

\* A handler that goes on after its flush, or ends the process then, has had all
\* read that its thread logged, its own statements among it.
HandlerFlushes ==
  \A t \in Threads :
    Handling(t) /\ Frame(t).found # <<>> /\ Frame(t).pc \in {"wait", "raise"} /\ Len(frames[t]) \in flushed[t] =>
      \A i \in DOMAIN queue : queue[i].by # t

\* No time is made of two bases of the clock: neither one that a thread converts
\* (time_since_epoch_safe) nor the last one of the backend (time_since_epoch),
\* which is the bare counter value as long as no resync was successful.
TimesRight ==
  /\ ConversionsRight
  /\ IF time.synchronised THEN Near(time.time, time.value) ELSE time.time = time.value

\* Between calls of start() and stop() the backend is all there or all gone, a
\* start that threw left no trace, one copy of the library runs, what the ending
\* thread logged or the thread of a signal was read, and times are right:
\* through overlapping calls, failures, signals and resyncs.
LifecycleRight ==
  /\ WholeOrGone /\ FailedStartUndone /\ OneBackend /\ ExitDrains /\ HandlerFlushes /\ TimesRight

\* A handler was interrupted by another signal after it took the lock and before
\* its alarm was set: the inner handler pauses, and nothing ends that.
InterruptedBeforeAlarm ==
  \E t \in Threads : \E i \in 1..(Len(frames[t]) - 1) : frames[t][i].pc \in {"store", "alarm"}

\* A process that has caught a signal ends, by itself or by the alarm, unless the
\* alarm is off, or comes to a thread that blocks the signal because it is handling
\* it, or was not yet set when another signal came to the thread.
CaughtSignalEnds ==
  handlers.number # Null /\ work.options.timeout # 0 ~> (ended # "no" \/ deferred \/ InterruptedBeforeAlarm)
=============================================================================
