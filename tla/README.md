# TLA+ models of logger_benchmarks

The repository measures logging libraries. Its own code is small (a latency
harness, benchmark programs, scripts that vendor the libraries and run the
benchmarks); the library it is built around, quill, is in the tree under
`src/quill/`. Both are modelled here: quill from the macro a program logs with to the files its
sinks write, and the repository's own harness and vendoring tool. Paths below are
relative to `src/`; `Q/` stands for `quill/include/quill/`.

Run a model with `tlc -config X.cfg MCX`, check the proofs with `tlapm M.tla`.

## 1. Inventory

### quill

A **frontend thread** that logs encodes the message into a queue of its own. One
**backend thread** reads all queues, sorts by timestamp, formats and writes to sinks.

| component | state | operations | what is hard | what makes it correct |
|---|---|---|---|---|
| Bounded queue `Q/core/BoundedSPSCQueue.h` | byte ring of twice the capacity, two private and two atomic positions, a cache of the other side's position on each side | prepare/finish/commit of a write and of a read | no lock; positions wrap; caches are stale; the reader publishes in batches | no byte is overwritten before it is read; only whole messages are read; a blocked writer goes on |
| Unbounded queue `Q/core/UnboundedSPSCQueue.h` | list of bounded queues | write with growth, shrink, read with a switch of node, `empty` | the consumer deletes nodes under the producer; `empty` is two loads | one FIFO queue; no use of a deleted node; "empty" is true of the whole list |
| Backend worker `Q/backend/BackendWorker.h` | cache of contexts, one transit buffer per thread, run and wake-up flags | populate up to a cut-off time, process one or a batch, flush, idle, sleep, exit | the world moves between refresh, cut-off, reading and processing | timestamp order within the grace period; what `flush_log` and `stop` promise; both return |
| Thread contexts `Q/core/ThreadContextManager.h` | list under a spinlock, new-context flag, count of invalid contexts, failure counters | register, refresh, invalidate, count, remove | flag, list, valid bit and count are separate | none is missed, freed early or kept for ever; drops are reported |
| Loggers `Q/core/LoggerManager.h` | list under a lock, valid bits, a flag that some are invalid, map of removal flags | create, log, remove, remove and wait, clean up | events in queues hold raw pointers; the removal flag lives on a stack | no event loses its logger; a blocking removal is complete and returns |
| Sinks registry `Q/core/SinkManager.h` | weak pointers sorted by id, reserved ids | reserve, construct, publish, get, sweep | construction runs user code outside the lock and may throw; destruction is outside it too | one owned sink per id, which the registry finds; every reservation ends |
| Transit event buffer `Q/backend/TransitEventBuffer.h` | growing ring, positions that wrap | back, push, pop, expand, shrink | a failed expansion; slots handed out and abandoned | events and their order survive |
| Backtrace `Q/backend/BacktraceStorage.h` | vector used as a circle | store, flush, resize | a flush that throws half way | it is "the last n events" |
| Start-up `Q/Backend.h`, `BackendManager.h`, `ManualBackendWorker.h`, `BackendWorkerLock.h` | once flag, worker thread, lock file, signal mask, exit handler | start, stop, exit, acquire, init, poll, shutdown | a start that fails half way, calls that overlap, two copies of the library | the backend is all there or all gone; a failed start leaves no trace |
| Signal handler `Q/backend/SignalHandler.h` | dispositions, alarm, logger, backend's id | install, restore, handle, time out | the signal may come to any thread at any point, twice, or to the backend | a process that caught a signal ends |
| TSC clock `Q/backend/RdtscClock.h` | two base slots and a version | resync, convert | conversions during a resync, without a lock | no time is made of two bases |
| Macros and metadata `Q/LogMacros.h`, `LogFunctions.h`, `core/MacroMetadata.h` | metadata per call site, rate limits | expand a macro, decide whether to log | levels, limits, names, runtime metadata | the statement meant is the one sent |
| Encoding `Q/core/Codec.h`, `Q/std/*`, the user codecs | cache of sizes | size, encode, decode | three passes that must agree and nothing in the queue to tell | a record takes the bytes reserved and gives back its arguments |
| Event slots and formatting `Q/backend/TransitEvent.h`, parts of `BackendWorker.h`, `PatternFormatter.h`, `StringFromTime.h`, `BackendMdcState.h` | pooled slots, cached templates, cached time text, MDC of a thread | decode, format, split named arguments, render | stale slots, stale caches, text that throws | a sink is given the statement as it was meant |
| Sinks `Q/sinks/*`, `Q/CsvWriter.h` | level, filters, buffer, size, file list, next rotation | filter, write, flush, rotate, recover | filters change under the backend; renames fail; the process is killed | no record lost or out of order; one header; rotation on its boundary |
| Metrics `Q/core/MetricManager.h`, `Q/sinks/metrics/PrometheusSink.h` | registry, families, series, keys | register, unregister, sample | registration that throws half way, late samples | the tables agree and a series has its samples |
| Bundled fmt | none shared | | text | not modelled |

### The repository's own code

| component | state | operations | what is hard | what makes it correct |
|---|---|---|---|---|
| Latency harness `benchmarks/call_site_latency/call_site_latency_bench.h` | barrier count, latencies per thread, reports | spawn, barrier, timed loop, join, report | threads without messages at the barrier; ranks of percentiles | threads are measured together; a report covers every sample and the right ranks; it ends |
| Vendoring tool `tools/update_vendor.py` | trees, manifest, patches, git index | sync, `--ref`, `--update`, capture-patch | each step may fail, the tool may be killed | the old tree is kept until the new one is whole; manifest, trees and index agree |
| Runner and tables `tools/run_all.py`, `tools/generate_tables.py` | result files | run, collect | results of two batches mixed | not modelled |
| Benchmark programs, Boost set-up, build files | none | | | not modelled |

### How they interact

`Logger::log_statement` obtains the thread's context (registering it once), takes
a timestamp and writes to the context's queue. The backend finds contexts through
the new-context flag, moves messages from queues to transit buffers and hands the
oldest to the sinks of its logger, or to the logger's backtrace. `flush_log` and
`remove_logger_blocking` send an event that carries a pointer to a flag on the
caller's stack and spin on it. Idle, the backend frees contexts of ended threads,
loggers that were removed and sinks nobody owns. The composition in the models:

    FrontendQueue <-- implemented by -- BoundedSPSCQueue
         ^  ^-------- implemented by -- UnboundedSPSCQueue (of bounded queues)
         | is the queue of each thread in
    BackendWorker (many threads: order, flush, stop)
    ThreadContextManager (its contexts, one atomic access at a time)
    LoggerManager = the loggers its events point to; SinkManager = their sinks

    EventPipeline (one thread, what happens to each event) is put together from
      Codec <- MacroMetadata <- LogMacros           what a call sends
      TransitEvent <- EventFormatting               what the backend makes of it
      TransitEventBuffer                            where the events wait
      BacktraceStorage -- implements --> LastEvents where backtraces wait
      StringFromTime <- PatternFormatter <- Sinks   what a sink writes
      PrometheusSink                                where metrics go

    FileSink <- RotatingSink                        the files behind a sink
    RdtscClock, SignalHandler <- BackendLifecycle   the backend as a whole

## 2. Modules and the code

State variables keep the names of the members they stand for (a leading
underscore is dropped); variables called history in a comment exist only for the
properties. Program counters (`wpc`, `rpc`, `tpc`, `bpc`, `spc`) say where a
thread is between two actions. `PROJECT.json` maps each definition to its lines.
A definition whose comment begins with "Mutant:" is a wrong version of the
definition below it: no specification uses it, it shows that a property notices
the mistake.

**BoundedSPSCQueue.** Each action makes at most one access to a shared word, so
the interleavings are those of release/acquire code with one writer and one reader.
Positions wrap at `Capacity * Laps`; the code's power of two is not
needed. A byte records the start, size and index it belongs to; a reader decodes
the size from its first byte, as the backend does from the header. `PrepareWriteCached`,
`PrepareWriteReload`, `PrepareWriteFull` are the three ways out of
`prepare_write`; `CommitRead` publishes in batches of `ReaderStorePercent`.

**UnboundedSPSCQueue.** A node is the bounded queue reduced to its messages and
to the bytes not yet given back. `LoadNext`, `RetryNode` and `SwitchNode` are the
consumer's look at `next`, its second try of the node and the deletion; `EmptyNode`
and `EmptyNext` the two loads of `empty`. Growth doubles until the message fits
or the maximum is reached; `LargestCapacity` is there because the constructor does
not compare the initial capacity with the maximum. Of a node's positions only two differences are
kept, `used` and `held`; that they stay within the ring is BoundedSPSCQueue's business.

**FrontendQueue** is the abstract queue both implement, with the liveness that
a published message is delivered.

**BackendWorker.** `Stamp`, `Register`, `Publish`, `QueueFull` and `FlushReturns`
are a log statement or `flush_log` of a thread; `Exit` its end. `Poll` refreshes the
cache, `Cutoff` takes the time, `ReadEvent`/`NextQueue` read one queue after the
other, `EndPopulate` decides between idling, one event and a batch;
`BatchUpdate`, `BatchCheck` and `ProcessLowest` are the batch loop. `Idle`,
`IdleCheck`, `Cleanup`, `Notified` and `SleepTimeout` are the idle path,
`ExitUpdate` and `ExitCheck` `_exit`, and `Stop`, `Notify`, `Join`, `Start` the
thread that controls the backend. Queues are FIFO sequences with a capacity in
messages, and sinks are a mark of what was flushed. `mark` and `stopMark` remember the
events that were published when `flush_log`, or `stop`, was called; a grace period of 0
switches the ordering off and promises nothing. `Without` is the erasing loop of
`_cleanup_invalidated_thread_contexts`.

**ThreadContextManager.** The same life of a context in finer steps: the flag,
the list under its lock, the valid bit and the counter are separate actions
(`RegisterPush`/`RegisterFlag`, `LoadFlag`/`ResetFlag`/`CopyContexts`,
`MarkInvalid`/`AddInvalid`, `FindInvalid`/`EraseContext`/`Decrement`/`Release`).

**LoggerManager.** `RemoveLogger` and `RemoveLoggerBlocking` start a removal that
sends its request (blocking only), marks the logger and raises the flag in
separate steps. The backend's cleanup visits loggers one by one and asks for each
invalid one whether all queues are empty (`Scan`), leaves the lock, destroys,
sweeps the sinks and notifies. `Stop` and `Start` run the cleanup of `_exit` and
forget the removal flags. As the library demands, no thread uses a logger after
its removal was called; a log statement that had already begun is one step with
its publication.

`CreateWithSink` and `CreateOrGetLogger` are the two ways of a new logger, with sinks
of its own or those of a logger that is there.

**SinkManager.** A sink object is an id and a token that tells objects of one id
apart; it has an owner while someone holds it (`Alive`) and exists until its destructor returns (`Exists`).
Who gives up the last pointer (`Drop`), or a creator whose insertion threw (`PublishThrows`), runs the destructor
without the lock, until `Destroyed`. `CreateSink` and `CreateOrGetSink` are the calls a thread begins. The sorted vector is a function from ids to the
entries of each id. `ReserveFound`, `ReserveId` and
`ReserveRetry` are the outcomes under the lock, `Construct` and `ConstructThrows`
happen outside it, `Publish` and `PublishThrows` inside again; `ReserveThrows` is the list of reserved ids that cannot grow.

**TransitEventBuffer.** `Back` hands out a slot and fills it, `PushBack` or
`Abandon` follows; `Expand` and `ExpandThrows` double or fail to. It is the buffer of
EventPipeline, which is how the run reaches it.

**Codec.** A type is a record, a value what its codec sees. `ComputeSize`, `Encode`
and `Decode` are one definition by kind of type each and recursive, as types nest,
with the cache of sizes threaded through as an argument and a result. A class that names its
members to the codec, or is found by index, is coded member by member. `Meant` says,
independently of all three, what the backend is to get.

**MacroMetadata, LogMacros.** `Expanded` makes of a call site (macro, form, limit,
text, names) the metadata and arguments the preprocessor would; `Passing` decides
with level, compile-time level and limits whether the statement goes on.

**TransitEvent, EventFormatting.** The pooled event with everything an earlier one
left in it; the template of a format string with named arguments, formatting (fmt
itself is external: fields are replaced by their arguments, and a field without one throws),
splitting of named arguments, sanitizing, the MDC and its text.

**StringFromTime, PatternFormatter.** The time text that is patched between two
recalculations, against `TimestampText`, which computes it afresh; the pattern that
is rewritten, parsed once and applied to each line, against `Rendered`, which reads the pattern from
left to right.

**Sinks, PrometheusSink.** Level, the local copy of the filters, the callback before
writing, and what each kind of sink passes on: the console with its table of colours and
whether they are shown, syslog, systemd and Android with their tables of levels, JSON with its keys
and its estimate of the size, and the flush of a stream; the exporter's tables and the library's beside them,
and the endpoint it shows, made of the address or of the server's options.

**EventPipeline.** One thread's calls (`Measure`, `Commit`, `Drop`, `Block`, `FlushLog`, `BlockFlush`, ...), a
second thread that changes levels, filters and metrics (`Admin`), and the backend:
`Populate` decodes a record into a slot, `ProcessLog` ... `ProcessMetric` begin with
the event at the front, `Dispatch`, `FormatStatement`, `NoticeFilters`,
`CopyNewFilters` and `WriteToSink` serve the sinks one by one, `Clean` and `Pop` give the slot back.
The bytes of a record are those of its arguments; the queue is a budget of bytes.
`issued` keeps, when a call is committed, the statement as it was meant, computed
from the call site and never from bytes, slots or caches.

**FileSink, RotatingSink.** A file is a sequence of records, of which the last may be
torn; what stdio or the native sink buffers is apart. Each rename is an action
(`Rename`, `RenameFails`), so is its undoing, and `Crash` may follow any. `Start` with mode
"a" recovers the list of files from their names. A record carries its size and time
stamp; a name its index and date. Which file is older is an order on names, and `OldestFirst` puts
each in the place that the number of older ones gives it.

**RdtscClock.** One access to a shared word per action on both sides; the true time is
the counter plus a constant, so every conversion can be judged. `BeginConversion` and
`EndConversion` enclose what a thread does to convert without a lock, `Reconfigure` is a new interval.
The attempts of one `resync` are one step, `BeginResync(lag)` if one of them is fast enough and `FailResync` if none is.

**SignalHandler.** A thread that runs handlers has a stack of frames, and each
statement of `on_signal` that matters is a step. `found` in a frame is the logger the
handler looked up, if there was one. `InstallOne` is one signal of `init_signal_handler`'s loop. Delivery, masks, pending signals,
`alarm` and `raise` follow POSIX (external).

**BackendLifecycle.** Programs of two threads, made of calls; each call is a sequence of
steps in the order of the code, and the steps of a start that throws are undone by `Catch`.
The worker initialises, polls, exits; the lock file has inodes, because it is
removed while another copy of the library may be opening it. Signals come at any step.
A process that ends runs the exit handler if it is registered, and then the destructor
of the worker, which stops it too: `simple_logger` returns when the backend of another
thread's start runs, which is before that start has registered the handler.

**CallSiteLatency.** The main thread spawns, joins and reports; a logging thread
arrives at the barrier, passes it, logs its share and records a latency. The
logger under test is a call that is counted. `Sorted` is `std::sort`, by ranks. Percentile ranks are exact integers;
for every sample count up to 40 000, the most the harness collects, they equal
the code's rounded doubles.

**VendorSync.** One action per step of a command that touches the disk; `Stop` is
a failure or a kill after any of them. A tree is an upstream commit and a local
change. Upstream and the developer's edits move on between commands.

## 3. Runs

State counts are of distinct states. Deadlock is checked except where a row says why not.

| run | states | what it checks |
|---|---|---|
| `bounded_queue` | 162 723 | `NoOverwrite`, `ReadsWholeMessage`, `BlockedWriterProceeds`; the ring implements `FrontendQueue`, with its liveness |
| `unbounded_queue` | 30 603 | the list implements `FrontendQueue`; `NoUseAfterDelete`, `RemovedOnlyWhenDrained`, `BlockedProducerProceeds`. An ended thread's removed queue is a final state. |
| `backend_worker` | 237 576 | two configurations, chosen by the first state: threads known beforehand, single events and batches, a stop and a start; and threads that register with their first event on a dropping queue, when every poll ends in a batch. `NothingLostOrReordered`, `OrderedWithinGrace`, `FlushCoversEarlierEvents`, `StopDrains`, `FlushReleased`, `StopReturns` |
| `backend_late_registration` | | `FlushCoversEarlierEvents` fails for threads that register late on the single-event path (section 5) |
| `thread_contexts` | 78 154 | `NoDanglingContext` (with `RemovedOnlyWhenDone`), `CountSettles`, `PublishedIsProcessed`, `ExitedIsRemoved` |
| `logger_removal` | 338 567 | `NoDanglingLogger` (with `RemovalFlagsLive`), `RemovalIsComplete`, `InvalidatedAreNoticed`, `BlockingRemovalReturns`. All bounds used up and the backend stopped is a final state. |
| `sink_registry` | 32 082 | `OneSinkPerId` (with `OneOwned`, `DestroyedOnce`, `ReservationHasOwner`, `HeldIsRegistered`), `ReservationsEnd` |
| `event_pipeline` | 76 966 | 118 workloads: `OutputsRight`, `FiltersApply`, `EventsIntact`, `MetricsRight`, `ImplementsLastEvents`. A workload ends. |
| `rotating_file` | 372 678 | ten configurations: `FilesHoldTheLog`, `SizeStaysRight`, `HeaderHeadsEachFile`, `RotatesOnTime`. All bounds used up is a final state. |
| `backend_lifecycle` | 245 265 | 24 workloads: `LifecycleRight`, `CaughtSignalEnds`. A process ends. |
| `latency_harness` | 31 868 | `MeasuredTogether`, `ReportsRight`, `BenchmarkEnds`. The program ends. |
| `vendor_sync` | 2 134 121 | `OldTreeKept`, `ManifestNamesTree` (with `StagedAgree`). The tool is not run for ever. |

`TypeOK` (under a name of its own where modules are put together) is a conjunct of the first
invariant of most modules; for the two rings it is proved instead. Three invariants have several named parts: `OutputsRight` has `RecordsFit` (size, encoder and
decoder agree), `MetadataOwned` (no slot points into another), `FailuresAccounted`
(drops are counted once) and `EnvironmentObeyed` (`QUILL_LOG_LEVEL`) beside the
comparison of every output with what was meant; `LifecycleRight` has `WholeOrGone`,
`FailedStartUndone`, `OneBackend`, `ExitDrains`, `HandlerFlushes` and `TimesRight` (the clock's `ConversionsRight` among it); `FilesHoldTheLog` has
`ListMatchesDisk`.

What `OutputsRight` compares: the meant statement goes through the sink's own last
conversion (JSON escaping, colours), so nothing is claimed of that conversion; all that
leads up to it, from the macro to the rendered line, is computed in two ways.

### Bounds, and why they are enough

* Bounded queue: capacity 4 and a position range of 8, so the positions wrap every
  second lap, read and write positions in different laps; messages of half the
  ring, three quarters, the whole ring and more than it; a reader that holds back up to three bytes.
  The run has no bound on the number of messages. The theorems of section 4 lift
  the safety part to every capacity, width, batch size and set of message sizes.
* Unbounded queue: capacities 2, 4 and 8, messages that fit, need one or two
  doublings, fill the maximum or exceed it; three nodes, so that the consumer can
  be two nodes behind and addresses are used again.
* Backend: two threads; queues of one event, so that a full queue blocks (a
  flush) or drops (a log statement); a grace period of 1 with a clock up to 1 (`Stopped`)
  or 2 (`Batch`), so that events fall before, at and after a cut-off; soft and hard limit 2
  for single events as well as batches, and 1 for batches only. In
  `Batch` one thread has two events; in `Stopped` one thread flushes
  and the other logs and exits, around one stop and one start. The reordering
  hazards involve an event that is read and one that is not, hence two threads. The
  theorems of section 4 lift the safety part to any number of threads and any options.
* Thread contexts: two threads, each with two events and a drop; the counter is modulo 16, and
  wraps on the first decrement too many.
* Loggers: two threads, two names of which one is used twice, a sink the loggers
  share, an event per thread, a stop and a start. A blocking removal needs a
  second removal or a log event to be disturbed.
* Sinks: two threads that race for two ids. An id has three tokens: one for the sink of its entry, one for a sink
  that is being destroyed and one for the next. A third thread waits exactly as the second does.
* Event pipeline: workloads of at most ten calls, each for one group of hazards (every
  kind of codec, named arguments, runtime metadata, limits, MDC, time formats, shared
  formatters, backtraces, full queues, filters, metrics, drops, the environment).
  Within one the calling thread, the second thread and the backend interleave freely. Limits of the code are scaled
  down so that they are reached: strings of 5, 2 sizes kept inline, 1000 ns in a second, paths of 20
  characters, an `INT_MAX` of 12. The buffer has capacities 1, 2, 4 and positions that
  wrap at 8 (also proved in general); a backtrace goes around its storage more than once.
* Rotating file: records of size 1 and 2 in files of 3, one or two backups, up to four
  records, one restart and one fault of any system call (two in one configuration),
  one deletion of the file, days of two ticks. A gap in the files needs one
  failed rename and one failed undo, hence the configuration with two faults.
* Life cycle: two threads, at most two signals, two starts of the other copy, a
  resync that needs up to four attempts, and at most twelve of them in all. A torn base needs
  two resyncs during one conversion.
* Latency harness: rounds of 0, 1 and 3 threads with 2 messages, so that one
  thread has none, and three iterations.
* Vendoring: two dependencies, one pinned, one new upstream commit, one local
  edit and four commands: a broken one, one that repairs or confuses, and two more.

### Fairness

* The backend thread takes steps while it runs: it is a loop of its own thread.
  Strong fairness is used once, for a read of the unbounded queue, because each
  pass of the loop reads before it asks which queues are empty.
* A thread inside a library call that spins or retries takes its next step. No
  thread has to begin a call, to log, to exit, to stop or to start.
* Time passes. That `wait_for` returns after the sleep duration is a premise of
  `FlushReleased` only; `StopReturns` does without it, so it depends on the wake-up alone.
* Ended threads run their thread-local destructors to the end.
* Life cycle: a thread that runs a signal handler takes its next step while the process
  runs, and an alarm that is set goes off; no signal has to come, and the program itself need not
  go on. POSIX guarantees both, up to how long it takes.
* Harness: all threads are scheduled. Event pipeline, rotating file and vendoring: no
  fairness, safety only.

## 4. Proofs

**LockFreeProofs, the bounded queue** (`TypeCorrectness`, `PositionsStayOrdered`,
`MessagesStayTiled`, `NeverOverwrites`, `ReadsAreWhole`), from the assumptions that
the capacity is positive, the position type holds at least two laps (what
`_validate_capacity` enforces), the percentage lies in 0..100 and sizes are positive.
`NoOverwrite` is not inductive: whether the next reservation is
safe depends on where the cached positions stand. The inductive invariant

    IInv == TypeOK /\ PositionsOrdered /\ MessagesTiled /\ BytesIntact /\ WriterInv /\ ReaderInv

adds that the bytes of each message are the ones written (`BytesIntact`), how
large a reservation may be and which bytes of it are encoded (`WriterInv`), and that a reader with a
pointer has a message before it (`ReaderInv`). `Ahead(p)`, the distance of a
position from the published read position, turns the wrapping order into a linear
one; the lemmas on `Sub` and `Add` say how it moves, and `AddressesDiffer` shows that two ranges that are apart in the order are apart
in the storage although one may run over the end of the first half. There is one
lemma per action.

`RingRefinesFrontendQueue` states `Spec => Fifo!Spec`, the safety part of `ImplementsFrontendQueue`.
The i-th published message is the start that has i - 1 others between it and the reader (`NthPublished`). The proof
works with any sequence of the published starts in the order of `Ahead` (`InOrder`), of which there is only one
(`PublishedInOrder`): a commit of the writer is a push
of the message it encoded, a finished read a pop of the oldest, and every other step, the ones that
only move a cache or a published position among them, shows nothing.

**LockFreeProofs, the clock** (`TimesAreRight`: `LifecycleSpec => []TimesRight`), in the whole
of BackendLifecycle, for every program, lag, gap and interval. `ClockIInv` says that a base that
was written whole pairs a counter value with its time up to the lag (`GoodBase`; the average of two readings at most
twice the lag apart is as near, so the second try of `reconfigure` is covered); that the slot in use is
such a base, or was never written as long as the version is 0, while the other one may be half written, and which half
(`ResyncRight`); and that what a reader has loaded is that of the slot in use unless the version has
moved on (`ReadingRight`), which is what its second look at the version finds out.

**LockFreeProofs, the signal handler** (`HandlersFlush`: `LifecycleSpec => []HandlerFlushes`), for
every program, however deep handlers interrupt each other. That a handler whose flush was answered has
nothing left in the queue is not inductive, for the backend answers by setting a flag in the
handler's frame, and another handler may have interrupted this one in between and logged. `FlushIInv`
says what may be behind a flush in the queue: only records of handlers that interrupted the one that waits
for it (`FlushRight`); and that an answered handler has none until another with a
logger interrupts it (`AnsweredRight`). A handler goes on only when the ones above it have ended.

**TransitEventBufferProofs** (`TypeCorrectness`, `SizeStaysRight`,
`EventsStayIntact`, `BacktraceRemembersLast`), from the assumption that each capacity is positive, smaller
than the position range and divides it. `TypeOK /\ SizeIsRight /\ EventsIntact`
is inductive as it stands. The arithmetic lemmas show that positions less
than a capacity apart fall on different slots, and that the wrapped difference of
the positions counts pushes and pops.

`BacktraceRemembersLast` states that the backtrace storage by itself implements `LastEvents`, for every
capacity and sequence of its operations: what `process` would visit is what the promise
remembers. `TraceInv` has the fact that is easily broken: a vector that is not full is visited
from its front (`index = 0`), so that it may append.

**UnboundedSPSCQueueProofs** (`NodesStayLive`, `RemovedWhenDrained`, `RefinesFrontendQueue`), from
the assumptions that message sizes are positive, that there are finitely many addresses and that
the powers of two are closed under doubling up to the first that holds every message.
`NoUseAfterDelete` needs to know which node `SwitchNode` deletes: `Linked` says that the live nodes
have one successor each, that only the producer's has none and that nothing leads to the
consumer's; `SeenByConsumer` that what the consumer loaded before is still true when it acts. That
is enough for the nodes but not for the messages. The refinement maps the list to the
concatenation of what its nodes hold, and the concatenation is defined along a path: the
invariant states that there *is* a sequence of distinct live nodes from the consumer's to the
producer's, each the successor of the one before, and a sequence of prefixes whose last is the
whole contents. A publication extends the last prefix, a read shortens all of them, a switch
drops the first node, a growth adds one. That a path ends is a
pigeonhole argument on its length, and what holds along it follows from the least position at which it
would fail. `RefinesFrontendQueue` states `Spec => Fifo!Spec`, the safety part of the
property `ImplementsFrontendQueue`, whose liveness only TLC checks.

**ThreadContextManagerProofs** (`TypeCorrectness`, `ContextsDoNotDangle`, `CountIsRight`), for
every number of threads and every width of the counter that is larger. The invariant adds who
holds the spinlock (`LockHeld`), what the backend knows of the context it removes (`FoundIsDone`) and
where threads are (`ThreadsPlaced`). For the counter, `CountIsDifference`: a context may be removed, and counted down,
before its thread has counted it, so the counter is the difference of those counted and those
discounted only up to whole laps of its width. When nobody is between two steps the
difference is the number of invalid contexts, and too small to be off by a lap.

**SinkManagerProofs** (`OneSinkForEachId`), for every number of threads and ids. `OneSinkPerId`
speaks of sinks with an owner; the invariant also says who is creating one (`OneCreator`), that a
sink one thread creates or destroys is no other's and held by nobody, and in no entry before it is published (`MadeIsPrivate`), that nobody holds a sink of an id that is
being created (`CreatedAnew`) and that an id has one entry (`EntriesRight`).

The second part of this module is about the files behind a sink (`AlwaysRotatesOnTime`:
`RotatingSpec => []RotatesOnTime`), for every configuration, with every system call failing, the process
killed at any step, files deleted and sinks started again on what is there. `RotatesOnTime` speaks of the
records of one file; `RotatingIInv` has to follow them through all of them:

* `FileInv` says of which records the files, the current one and the buffer are made. The sets are
  named by pairs of id and time stamp: those that may have been written (`Known`), those
  that may be in the current file (`InFile`: while nothing fails, of the last period or of an
  earlier run) and those that may be buffered although nothing was written (`Unwritten`: headers).
  Each operation of the file is a lemma about such sets, whatever they are.
* A rename replaces what has the new name, so the current file would come to hold old records if a
  rename could end at its name, and a file would be lost if two ended at one. `InOrder` says that the files of
  one date are listed in the order of their indices, `DoneInv` which renames are done and that their targets
  exist; together, new names are distinct, and none of them is that of a file still to be renamed.
* While nothing fails, the files of the list are on disk (`Kept`) and renames cannot stop half way.
* `Boundary`: the next rotation lies on a boundary, at most a period ahead of the clock. It is moved after a
  rotation only, by whole intervals, so a record appended after it is of the last period.
* A file of size 0 is not rotated; that it has no records (`NoBytes`) needs that none is of size 0.

Two more theorems rest on `RotatingIInv`, each with an invariant of its own about what the files hold.

`AlwaysHeadsEachFile` (`RotatingSpec => []HeaderHeadsEachFile`). `HeaderInv` says that, while nothing fails, every
file that is not empty begins with its header and has no other, the current file together with the buffer
(`Content`). What has to be known at each step is whether that file is empty: between calls a header is
due exactly then, within a call the record being written is a header exactly then, and the renames of a start, and
no others, leave a file that is new (`fresh`). `RotatingIInv` adds that when all renames are done the current
name is free, so the file opened next is empty.

`AlwaysSizedRight` (`RotatingSpec => []SizeStaysRight`). `SizeInv` has two parts:

* `Counted`, whatever fails: while the file is open and nothing in it is torn, `_file_size` is the size of what the
  file and the buffer hold, or all of it but the notifier's header. One lemma for each operation of the file.
* `LimitInv`, until something fails or is deleted. `FilesInLimit` bounds every *prefix* of the current file, not just
  the file, because a prefix is what a kill leaves for the next start; `CallFits` says that a record fits or
  comes first in its file, `FirstIsHeader` when a header does. The case that makes it hard is a sink that may not rotate
  any more, as its backups are full and overwriting is off: its file grows without limit, and a later run finds it. `WouldRefuse`
  says that such a run is refused rotation too, because it finds the same rotated files (`Kept`, and no two
  entries of the list have one name).

**LoggerManagerProofs** (`LoggersDoNotDangle`, `RemovalCompletes`, `InvalidatedStayNoticed`), for
every number of threads, names and sinks. The invariant follows a removal through its places:
the thread inside it (`RemovalsRight`), its request in the queue or its flag in the map, once (`RequestsOnce`, `FlagsRight`),
the loop under the lock and what it found (`RegistryRight`, `CleanupPhases`), the sinks that lose their owner (`SinksOwned`)
and the removal that is complete (`CompletedAreGone`). `EventsRegistered`, the heart of
`NoDanglingLogger`, is preserved by the scan because no thread logs to a logger after its
removal was called, so that empty queues stay empty of it. `InvalidatedAreNoticed` is inductive
only together with the others.

**BackendWorkerProofs** (`NothingIsLost`, `StopHasDrained`, `OrderHolds`, `FlushCovers`), for every
number of threads and every configuration: all limits, capacities, grace periods, dropping or
blocking queues, any stops and starts. `Invariance` is the inductive invariant

    IInv == /\ StructureInv /\ Drains /\ AllContextsCached
            /\ Grace > 0 => CutoffRight
            /\ Grace > 0 /\ ContextsKnown => Ordered /\ FlushesRight

* `StructureInv`: types and limits; which modes of backend and stopping thread go together; a
  context with events is registered, and cached or about to be (`ContextsCached`); the events of a thread
  that wait carry the last numbers (`Numbered`) and the others were processed in order
  (`ProcessedInOrder`); timestamps grow with the numbers. `NothingLostOrReordered` follows.
* `Drains`: what was published when stop was called waits in no context the last look of
  `_exit` misses, and is flushed once the backend ends. Events published during the look are new, because their number is.
* `CutoffRight`: what is buffered is older than the grace period (`OldEnough`); a context the pass has
  been through either has something buffered or no event that should come before the cut-off
  (`SeenNow`); in a batch this holds of every context and every buffered event (`Seen`). An
  event published afterwards cannot disturb it: it is published at a time by which everything buffered is old.
* `Ordered`: what waits was not overtaken by anything processed. It needs `Seen` of *all* contexts
  when an event is taken. A batch refreshes the cache, so it holds there unconditionally; a poll that takes a single event
  does not, and the proof fails at exactly the step that `backend_late_registration` exhibits. Hence the
  premise `ContextsKnown`: all threads called `Frontend::preallocate` before, or the soft limit is 1, so that there are no such polls.
  It is constant, and both configurations of `backend_worker` satisfy it, one in each way.
* `FlushesRight`: all that `flush_log` has to cover has an earlier timestamp and was published by
  the time of its own, so with a grace period the event of the flush cannot be processed before it;
  at most one flush event of a thread waits, and its flag is not set before.

**ToolProofs, the vendoring tool** (`TreesMatchManifest`, `OldTreesKept`), for any dependencies, selections, local
changes, histories and number of commands, with every step failing or killed. Neither
property is inductive: the invariant adds where a command can be (`PlacesRight`); that its copy of the
manifest is the one on disk except while it is being written, and names the commit it resolved unless it is to be moved (`CopyRight`);
that from the patches on the staging copy is whole, and patched (`ReplacementReady`); that a
dependency between the removal of its tree and the write of its ref is not settled, and that the
copy being written agrees with all that are (`SettledRight`); and that refs not moved
unstaged are right in the manifest too, not only in the index, because `stage_dependency` adds the manifest
with all its refs (`StagedRight`). `OldTreesKept` then says that of the four steps that change a tree only
`BeginRemove` gives one up. `MarkersAssumption` says that "absent" and "half done" are no tree, patch or manifest.

**ToolProofs, the latency harness** (`AllMeasuredTogether`, `AllReportsRight`), for any list of thread
counts, iterations, messages and latencies. The barrier is right because the count of arrivals *is* the number
of threads that have arrived (`CountRight`), so a thread that passes has seen all of the round, and none of an
earlier round is left. `CompleteInv` adds what each thread has logged (`WorkRight`, `LoggedRight`): the shares of
the threads, whole division and remainder, add up to the messages (`SharesAddUp`), threads whose share is 0
record nothing, and the latencies put together are as many as iterations times active threads (`SamplesCounted`).
That each percentile is the nearest rank (`PercentilesRight`) rests on `SmallestExists`, that a finite sequence has an i-th smallest value,
and on `SortedRight`, that sorting puts it at place i.

*Induction.* The library's induction theorems cannot be instantiated. Where a proof needs
induction over a number it takes the least counterexample instead, from a set
(`UpTo`, `LeastNumber`; `WFMin` of the well-founded order on the naturals is the source). This
carries sums, walks along a path and the like, whose definitions are recursive functions.

Every theorem rests on the named assumptions of its module only, which TLC evaluates in the runs;
none is assumed for the proof alone. Positive grace and `ContextsKnown` are premises of the
theorems and part of their statements.

Only model-checked:

* Liveness (`BlockedWriterProceeds`, `BlockedProducerProceeds`, `PublishedIsProcessed`, `ExitedIsRemoved`, `BlockingRemovalReturns`,
  `ReservationsEnd`, `FlushReleased`, `StopReturns`, `BenchmarkEnds`, `CaughtSignalEnds`, and delivery in
  `FrontendQueue`): it needs fairness and ENABLED, which are beyond the prover.
* EventPipeline and what it is made of (`OutputsRight`, `FiltersApply`, `MetricsRight`), StringFromTime, Codec,
  PatternFormatter: they compare recursive definitions over nested data, which are RECURSIVE operators, and the
  prover cannot use a module with one. For the same reason the pipeline's `ImplementsLastEvents` is checked,
  and proved of the storage alone.
* `FilesHoldTheLog` of RotatingSink. It relates the concatenation of all files, in the order of their names, to
  a history; `RotatingIInv` has what it needs of names, `HeaderInv` and `SizeInv` of each file, but neither has the
  order of the records across files.
* Of `LifecycleRight` the parts `WholeOrGone`, `FailedStartUndone`, `OneBackend` and `ExitDrains`: they do not hold of all programs, because
  starts and stops of different threads that overlap are not supported, but of those whose calls do not overlap,
  and that is a property of the workloads.

## 5. Where code and words disagree

* **flush_log and a thread that registers late** (run `backend_late_registration`).
  `_poll` refreshes the contexts (`BackendWorker.h:520`) before the cut-off is taken
  (698-706) and the single-event path does not refresh again. A thread that
  registers and publishes in between is not seen, and a later `flush_log` of
  another thread returns before that message is written. `Logger.h:532`: "Blocks
  the calling thread until all log messages up to the current timestamp are
  flushed." The same gap breaks the order `BackendOptions.h:146` promises. It
  needs a first message: preallocated threads and polls that end in a batch, the two
  configurations of `backend_worker`, are not affected.

Five more are stated in the modules and do not hold; each is seen by adding the
definition as an `INVARIANT` to the configuration named.

* `CountDoesNotUnderflow` (`MCThreadContextManager.cfg`). A thread marks its context invalid
  (`ThreadContextManager.h:388`) before it is counted (391); the backend, there
  because of another thread, may remove it in between. The assertion at 332-334
  excludes that. In a release build the count wraps and is put right by the
  thread's own increment: `CountSettles` and `ExitedIsRemoved` hold.
* `DropsDoNotDisappear` (`MCThreadContextManager.cfg`). A context is removed with its
  failure counter unread (`BackendWorker.h:1964`); `Logger.h:768-769` wants drops
  not to disappear silently.
* `OneExists` (`MCSinkManager.cfg`). Two sinks of one id may exist. A sink whose insertion throws is a local variable of
  `_create_reserved_sink` (`SinkManager.h:209-224`): `_publish_created_sink` gives up the reservation under the lock
  (251) and the sink is destroyed when the exception has left it, so another thread may reserve the id
  and open the same file before the first one is closed. The last shared pointer is given up without the lock as well: an id whose
  sink still flushes in its destructor is free. Only one of the two ever has an owner or is
  found (`OneOwned`, `DestroyedOnce`). The message at 193-195 ("already exists ... Use
  `create_or_get_sink()`") does not speak of a sink that is going away.
* `NamesAreUnique` (as a `PROPERTY` of `MCRotatingSink.cfg`). The comment at
  `RotatingSink.h:646-650` says that names with date and time "are unique across runs and cannot
  collide". A sink in mode "w" that starts in the second in which an earlier one
  rotated replaces the earlier file when it rotates itself.
* `UpdateAppliesPatches` (`MCVendorSync.cfg`). The help text of `--update`
  (`tools/update_vendor.py:460`) says the patches are applied, the code (412)
  does not apply them, and the repository's README agrees with the code.

What `ManifestNamesTree` leaves out on purpose: after an `--update` that was
killed between the tree and the manifest, `capture-patch` records upstream's own
change as a local patch. A manifest that was half written stops the tool; restoring it is
git's business and not modelled. `capture-patch` deletes the recorded patches
before it writes the new one and does not look at the exit status of the
`git diff`; nothing promises otherwise, so no property is violated. It asks only that the
directory exists, so of a tree that was half removed it records what is missing as deleted (`Captured`).

Where a property has a premise because the code does not do what one might expect:

* *Signals.* An alarm that comes to the very thread that is handling the signal is
  only left pending, for the signal is blocked there; a handler that hangs then hangs for
  ever, although the alarm is there to "ensure that the process will terminate" (`SignalHandler.h:60-66`).
  `CaughtSignalEnds` excludes this with `deferred`. A second signal that comes to the thread
  after it took the handler's lock (`SignalHandler.h:266`) and before it set the alarm (290) finds the lock taken and pauses for
  ever, in the very thread that would have set the alarm; `CaughtSignalEnds` excludes this with `InterruptedBeforeAlarm`. An alarm is not cancelled when the handler returns
  without raising the signal again, so the process is killed later.
* *Clock.* Until a resync was successful the backend's times are bare counter values (`RdtscClock.h:173-190` with a base of 0),
  and those of other threads 0; the code warns of it (159). `TimesRight` says so.
* *Lock file.* A copy of the library that opened the file before the other removed it, and
  locks it after the other closed it, holds a lock nobody else sees, and two backends
  run (`BackendWorkerLock.h:41` "Ensures that only one instance"). `OneBackend` excludes this with `orphaned`.
* *Manual worker.* `Backend::stop` resets the once flag, so `acquire_manual_backend_worker` succeeds
  again after it (the message at `Backend.h:337` says "can only be called once per process").
* *Rotation.* A late record whose date lies before that of the file breaks the order in
  which files are recovered by name. A CSV file opened again after a failed rotation
  gets a second header; two writers of one new file each write one, because the
  first is still buffered when the second looks (`CsvWriter.h:282`). The header a notifier writes
  is not counted in the size. After a failed opening that followed a successful rename, records
  are dropped until one causes a rotation. The native flush that fails after writing a part
  writes that part again.
* *Named arguments.* After `{a:{w}} {b}` the values are shifted: `b` is given `w`'s value. A
  name `_1` of the user's may be that made up for an argument without a name (`BackendWorker.h:2231`).
* *Metrics.* When adding a series throws, an empty family is left behind; the comment at
  `PrometheusSink.h:584-586` only speaks of the alias check.
* *Drops.* A report with the text of one made in the same second is withheld after
  the counter was reset; `FailuresAccounted` counts it as `withheld`.
* *Flush.* A flush reaches the sinks of valid loggers only (`BackendWorker.h:1800`); those of a
  logger being removed are flushed when it is destroyed, which may be after `flush_log` returned.

## 6. Not modelled

* Memory layout, prefetching, huge pages, weak memory orders beyond what
  release/acquire with one writer gives (RdtscClock is sequentially consistent), wraps of the clock's
  32-bit version and of the rotation index.
* The bundled fmt and the vendored competitors (third-party code), of which the first is a large
  part of the lines under `Q/`; how values look as text.
* Windows: wide strings, its signal and exception handlers, its lock. The native file sink is modelled.
* Pipeline: several frontend threads (that is BackendWorker), control calls made on the
  backend thread, user clocks, poll hooks, the flush interval of idle polls, a backtrace
  of a second logger.
* Files: stdio writing a full buffer by itself, daylight saving in rotation times (UTC
  only), a notifier that throws after opening.
* Life cycle: start and stop of different threads that overlap (unsupported by the
  library), thread names and affinity, calibration of the counter, a failure to restore the signal mask
  or to install the handler of the alarm.
* Sinks: the process-wide state of `openlog`.
* Registries: `remove_all_loggers`, look-ups that change nothing, a logger creation
  that throws and leaves an expired sink entry until the next sweep.
* Benchmark programs (straight-line set-up), runner and tables (sequential scripts), downloads and
  builds; in the vendoring tool line endings, `list` and `resolve`.

## 7. Plan

Written first, because everything rests on them: the two queues, the backend
worker, the context registry. Then the logger and sink registries, the two rings of the backend,
the repository's own harness and vendoring tool. Then the way of a statement from
macro to sink, the files, and the life of the backend with signals and clock. To come:

1. Proofs, beside those of section 4: `FilesHoldTheLog` of RotatingSink, from `RotatingIInv` and an invariant on the
   order of records across files; `OneBackend`, from a condition on programs that says that calls do not overlap.
2. *BackendWorker with LoggerManager*: flushes beside loggers that are being removed.
3. *Runner and tables*: a batch that stopped early among the files of an earlier one.
