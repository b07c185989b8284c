---------------------------- MODULE EventPipeline ----------------------------
(***************************************************************************)
(* The way of a statement from the call to the sinks, for one frontend     *)
(* thread: Logger.h turns calls into records of a queue, the backend       *)
(* decodes and formats them into slots of a transit event buffer, and      *)
(* processes the slots one by one: it dispatches to the sinks of the       *)
(* logger, keeps backtraces, answers flushes and passes metrics on.        *)
(* Meanwhile another thread of the program changes levels, filters and     *)
(* registered metrics.                                                     *)
(*                                                                         *)
(* A workload says what the program does: its loggers and sinks, the calls *)
(* of the thread, what the other thread does, and the options.             *)
(***************************************************************************)
EXTENDS TransitEventBuffer, EventFormatting, LogMacros, Sinks, PrometheusSink

CONSTANTS Workloads,  \* a sequence
          MaxCalls,   \* calls of a workload, at most
          Literals    \* the strings in static memory; a pointer is a position in it

ASSUME WorkloadsAssumption == \A i \in DOMAIN Workloads : Len(Workloads[i].calls) <= MaxCalls

VARIABLES
  work,        \* the workload
  front,       \* the calling thread: next call, phase, size and cache of sizes, limits, calls since a flush
  queue,       \* the records committed and not read
  written,     \* bytes written to the queue so far
  failures,    \* _failure_counter, and as history the failures ever counted
  flushed,     \* the flag flush_log() waits for
  levels,      \* of the loggers
  env,         \* _env_log_level and _env_log_level_parsed
  flushLevels, \* _backtrace_flush_level of the loggers
  sinks,
  metrics,     \* the frontend's registry of metrics
  exporter,    \* the Prometheus sink
  admin,       \* the steps the other thread has taken
  backend,     \* phase and data of the backend, see Idle
  formatters,  \* pattern formatters by their options; loggers with the same options share one
  overrides,   \* the formatters of sinks with options of their own
  traceCreated, traceCapacity, traceIndex, traceStored, traceOutput,  \* the backtrace of logger 1
  issued,      \* history: the statements that were queued, as they were meant
  context,     \* history: the MDC of the calling thread, as it was meant
  handled,     \* history: for each sink what became of the events dispatched to it
  samples      \* history: the samples of registered metrics that came to the exporter

bufferVars == <<capacity, storage, readerPos, writerPos, shrinkRequested, filled, pending, content>>
frontVars == <<front, queue, written, failures, flushLevels, issued, context>>
traceVars == <<traceCreated, traceCapacity, traceIndex, traceStored, traceOutput>>
adminVars == <<levels, env, metrics, admin>>
pipelineVars == <<work, frontVars, flushed, adminVars, sinks, exporter, backend, formatters, overrides,
                  traceVars, handled, samples, bufferVars>>

Backtrace == INSTANCE BacktraceStorage WITH
  created <- traceCreated, capacity <- traceCapacity, index <- traceIndex, stored <- traceStored,
  output <- traceOutput

\* phase: idle, report (of failures), push (a slot was filled), sinks, filters (of one sink),
\* write, clean or pop.
\* jobs are the events to dispatch, sink the position in the sinks of the logger.
Idle == [phase |-> "idle", keep |-> FALSE, jobs |-> <<>>, sink |-> 1, statement |-> <<>>, text |-> <<>>,
         known |-> <<>>, checkTrace |-> FALSE, flag |-> FALSE, lastOutput |-> 0, mdc |-> Null,
         templates |-> <<>>, late |-> FALSE, reports |-> [last |-> 0, told |-> 0, withheld |-> 0]]

Emptied(b, phase) == [b EXCEPT !.phase = phase, !.jobs = <<>>, !.statement = <<>>, !.text = <<>>,
                               !.known = <<>>, !.sink = 1]

\* The backend runs: it does not start with an MDC pattern that is not valid.
PipelineInit ==
  /\ Init
  /\ \E i \in DOMAIN Workloads : work = Workloads[i]
  /\ ValidMdcPattern(work.mdcPattern)
  /\ front = [next |-> 1, phase |-> "ready", cache |-> EmptyCache, size |-> 0, limits |-> <<>>, count |-> 0]
  /\ queue = <<>> /\ written = 0 /\ failures = [counter |-> 0, total |-> 0] /\ flushed = FALSE
  /\ levels = [l \in DOMAIN work.loggers |-> work.loggers[l].level]
  /\ env = [parsed |-> \A i \in DOMAIN work.calls : work.calls[i].op # "create", level |-> Null]
  /\ flushLevels = [l \in DOMAIN work.loggers |-> Level("None")]
  /\ sinks = [s \in DOMAIN work.sinks |-> NewSink(work.sinks[s])]
  /\ metrics = <<>> /\ exporter = NewPrometheusSink(work.exposer) /\ admin = 0
  /\ backend = Idle
  /\ formatters = <<>> /\ overrides = [s \in DOMAIN work.sinks |-> Null]
  /\ Backtrace!Init
  /\ issued = <<>> /\ context = Null
  /\ handled = [s \in DOMAIN work.sinks |-> <<>>] /\ samples = <<>>

-----------------------------------------------------------------------------
(***************************************************************************)
(* The calls.                                                              *)
(***************************************************************************)

HeaderSize == 32

Call == work.calls[front.next]
Runtime(call) == call.op = "runtime"
Logs(call) == call.op \in {"log", "runtime"}

LimitOf(call) ==
  IF call.op = "log" /\ call.site.location \in DOMAIN front.limits
  THEN front.limits[call.site.location] ELSE NoLimit

\* The calls that control the backend: the metadata they are made with.  They
\* are tried again until they are queued.
ControlCall(event) == [NoMetadata EXCEPT !.event = event, !.level = Level("Critical")]
SetMdcCall == ControlCall("MdcSet")
EraseMdcCall == ControlCall("MdcErase")
ClearMdcCall == ControlCall("MdcClear")
FlushBacktraceCall == ControlCall("FlushBacktrace")
FlushCall == ControlCall("Flush")
InitBacktraceCall == [ControlCall("InitBacktrace") EXCEPT !.format = <<OpenBrace, CloseBrace>>]
ControlCalls == {SetMdcCall, EraseMdcCall, ClearMdcCall, FlushBacktraceCall, FlushCall, InitBacktraceCall}
Retries(metadata) == metadata \in ControlCalls

\* The metadata of a call: that of its macro, or of the control event.
StaticMetadata(call) ==
  CASE Logs(call) -> Expanded(call.site).metadata
    [] call.op = "metric" -> Expanded(call.site).metadata @@ [metric |-> call.metric]
    [] OTHER -> CHOOSE m \in ControlCalls : m.event = call.event

LevelOf(call, metadata) == IF Runtime(call) THEN FunctionLevel(call.site) ELSE metadata.level

SetLogLevel(old, new) == IF new = Level("Backtrace") THEN old ELSE new

\* QUILL_LOG_LEVEL names the level of new loggers; empty is not set.  Only a
\* value that was accepted is kept, so that the next attempt reads it again.
ParseLogLevelFromEnv(e, value) ==
  IF value = "" THEN [e EXCEPT !.parsed = TRUE]
  ELSE LET level == LoglevelFromString(value)
       IN  IF level \in {Null, Level("Backtrace")} THEN e ELSE [parsed |-> TRUE, level |-> level]
EnsureEnvLogLevelParsed(e, value) == IF e.parsed THEN e ELSE ParseLogLevelFromEnv(e, value)

\* A statement below the level it was compiled for, or the level of its logger,
\* is nothing; a backtrace of no capacity throws.
LoggedAs(call, expanded) ==
  expanded.compiled /\ LevelOf(call, expanded.metadata) >= levels[call.logger]
Enabled(call) ==
  /\ Logs(call) => LoggedAs(call, Expanded(call.site))
  /\ call.op = "initBacktrace" => call.capacity > 0

ArgTypes(call) ==
  CASE call.op = "log" -> TypesOf(call.site)
    [] call.op = "initBacktrace" -> <<[k |-> "arithmetic", width |-> 4]>>
    [] call.op = "flush" -> <<Uint64>>
    [] OTHER -> call.types

ArgValues(call) ==
  CASE call.op = "log" -> ArgsOf(call.site, LimitOf(call), call.args)
    [] call.op = "initBacktrace" -> <<call.capacity>>
    [] call.op = "flush" -> <<1>>
    [] OTHER -> call.args

\* The strings of runtime metadata: those of the macros or of LogFunctions.h.
RuntimeTags(site) == IF site.macro = "FUNCTION" THEN FunctionTags(site.tags)
                     ELSE IF site.tags = Null THEN Null ELSE Tags(site.tags)
RuntimeStrings(site) == <<FormatOf(site), site.file, site.function, RuntimeTags(site)>>
LineAndLevelOf(site) == <<site.line, FunctionLevel(site)>>

Address(string) == IF string = Null THEN 0 ELSE CHOOSE i \in DOMAIN Literals : Literals[i] = string

CString == [k |-> "cstring"]
Pointer == [k |-> "arithmetic", width |-> 8]
LineAndLevel == <<[k |-> "arithmetic", width |-> 4], [k |-> "enum", width |-> 1]>>
DeepTypes == <<CString, CString, CString, CString>> \o LineAndLevel
ShallowTypes == <<Pointer, Pointer, Pointer, Pointer>> \o LineAndLevel

Addresses(strings) == [i \in 1..4 |-> Address(strings[i])]

\* The hybrid copy keeps the lengths of format and tags to itself, not in the cache.
HybridLength(string) == Clamp((IF string = Null THEN 0 ELSE Len(string)) + 1)
HybridString(string) == SubSeq(SafeString(string), 1, HybridLength(string) - 1) \o <<0>>

HybridSize(strings) == HybridLength(strings[1]) + 2 * SizeOfSize + HybridLength(strings[4]) + 5
HybridBytes(strings, rest) ==
  HybridString(strings[1]) \o Word(Address(strings[2]), 8) \o Word(Address(strings[3]), 8)
  \o HybridString(strings[4]) \o Word(rest[1], 4) \o Word(rest[2], 1)

\* What is encoded before the arguments, with types for the codecs; the event says how.
PrefixTypes(event) ==
  CASE event = "Deep" -> DeepTypes [] event = "Shallow" -> ShallowTypes [] OTHER -> <<>>
Prefix(event, site) ==
  CASE event = "Deep" -> RuntimeStrings(site) \o LineAndLevelOf(site)
    [] event = "Shallow" -> Addresses(RuntimeStrings(site)) \o LineAndLevelOf(site)
    [] OTHER -> <<>>

\* log_statement, log_statement_runtime_metadata: the size of the arguments and the cache it leaves.
SizeOfCall(call, event, cache) ==
  AddSize(ArgumentsSize(PrefixTypes(event) \o ArgTypes(call), Prefix(event, call.site) \o ArgValues(call), cache),
          IF event = "Hybrid" THEN HybridSize(RuntimeStrings(call.site)) ELSE 0)

\* The bytes behind the header.
BytesOfCall(call, event, cache, base) ==
  ArgumentsEncode(PrefixTypes(event) \o ArgTypes(call), Prefix(event, call.site) \o ArgValues(call),
    [bytes |-> IF event = "Hybrid" THEN HybridBytes(RuntimeStrings(call.site), LineAndLevelOf(call.site))
               ELSE <<>>,
     cache |-> cache, index |-> 0, base |-> base]).bytes

\* publish_metric stores the value where others have the decoder, and no arguments.
MetricSize(cache) == [size |-> HeaderSize, cache |-> cache]
SizeOfRecord(call, cache) ==
  IF call.op = "metric" THEN MetricSize(cache)
  ELSE AddSize(SizeOfCall(call, StaticMetadata(call).event, cache), HeaderSize)

EncodedHeader(call, metadata, value, base) ==
  [stamp |-> call.at, metadata |-> metadata, event |-> metadata.event, logger |-> call.logger,
   value |-> value, base |-> base]
MetricRecord(call, metadata, base) ==
  EncodedHeader(call, metadata, call.value, base) @@ [types |-> <<>>, bytes |-> <<>>]
StatementRecord(call, metadata, cache, base) ==
  EncodedHeader(call, metadata, 0, base)
  @@ [types |-> ArgTypes(call), bytes |-> BytesOfCall(call, metadata.event, cache, base)]

\* The record at the address the queue has reached.
RecordOf(call, metadata, cache, base) ==
  IF call.op = "metric" THEN MetricRecord(call, metadata, base)
  ELSE StatementRecord(call, metadata, cache, base)
Record(call, cache) ==
  RecordOf(call, StaticMetadata(call), cache, (written % work.queue.capacity) + HeaderSize)

-----------------------------------------------------------------------------
(***************************************************************************)
(* What a statement means: the reference the sinks' output is compared to. *)
(***************************************************************************)

MeantArgs(call) == [i \in DOMAIN ArgTypes(call) |-> MeantArg(ArgTypes(call)[i], ArgValues(call)[i])]

MeantMetadata(call) ==
  IF ~Runtime(call) THEN Expanded(call.site).metadata
  ELSE LET s == RuntimeStrings(call.site)
       IN  Metadata(SourceLocation(s[2], call.site.line), SafeString(s[3]), s[1], SafeString(s[4]),
                    FunctionLevel(call.site), "Log", FALSE)

\* plain is the format without names, keys are the names of the arguments with
\* their specifications.
MeantWith(call, metadata, args) ==
  LET site == call.site
      user == IF site.limit = "time" THEN Front(args) ELSE args
      text == Formatted(site.plain, user)
      occurred == IF site.limit = "time" THEN Chars(<<32, 40>>) \o Last(args).text \o Chars(<<120, 41>>)
                  ELSE <<>>
      value(i) == Checked(Formatted(<<OpenBrace>> \o site.keys[i].spec \o <<CloseBrace>>, <<args[i]>>).text,
                          args, work.sanitize)
  IN  [id |-> Len(issued) + 1, timestamp |-> call.at, metadata |-> metadata,
       logger |-> call.logger, mdc |-> IF context = Null THEN <<>> ELSE context.text,
       named |-> [i \in DOMAIN site.keys |-> [name |-> site.keys[i].name, value |-> value(i)]],
       message |-> IF text.ok THEN Checked(text.text, args, work.sanitize) \o occurred
                   ELSE CouldNotFormat(metadata)]
MeantEvent(call) == MeantWith(call, MeantMetadata(call), MeantArgs(call))

MeantContext(call) ==
  IF call.op # "mdc" THEN context
  ELSE ApplyMdcEvent(context, call.event, MeantArgs(call), work.mdcPattern)

-----------------------------------------------------------------------------
(***************************************************************************)
(* Actions of the calling thread.                                          *)
(***************************************************************************)

HasRoom(size) ==
  LET used == FoldLeft(LAMBDA sum, r : sum + r.size, 0, queue)
  IN  work.queue.capacity - used >= size

NextCall(f) == [f EXCEPT !.next = @ + 1, !.phase = "ready"]

\* The limits of a call's site after it.
LimitsAfter(call) ==
  IF call.op = "log" THEN With(front.limits, call.site.location, After(call.site, LimitOf(call), call.steady))
  ELSE front.limits

Ready == front.next <= Len(work.calls) /\ front.phase = "ready" /\ Call.op \notin {"create", "shrink"}
Passing == Enabled(Call) /\ (Call.op = "log" => Passes(Call.site, LimitOf(Call), Call.steady))
Reserves == front.phase \in {"reserve", "blocked"}

\* create_logger; a value of the environment that is refused throws before there
\* is a logger.
Attempt == front.next <= Len(work.calls) /\ front.phase = "ready" /\ Call.op = "create"
CreateLogger ==
  /\ Attempt
  /\ \E e \in {EnsureEnvLogLevelParsed(env, Call.value)} :
       /\ env' = e
       /\ levels' = IF ~e.parsed THEN levels
                    ELSE [levels EXCEPT ![Call.logger] =
                            IF e.level = Null THEN Level("Info") ELSE SetLogLevel(@, e.level)]
  /\ front' = NextCall(front)
  /\ UNCHANGED <<work, queue, written, failures, flushLevels, issued, context, flushed, metrics, admin, sinks,
                 exporter, backend, formatters, overrides, traceVars, handled, samples, bufferVars>>

\* shrink_thread_local_queue: later records go to a new queue behind this one.
NodeEnd == [event |-> "End", size |-> 0, bytes |-> <<>>]
ShrinkQueue ==
  /\ front.next <= Len(work.calls) /\ front.phase = "ready" /\ Call.op = "shrink"
  /\ queue' = Append(queue, NodeEnd)
  /\ front' = NextCall(front)
  /\ UNCHANGED <<work, written, failures, flushLevels, issued, context, flushed, adminVars, sinks, exporter,
                 backend, formatters, overrides, traceVars, handled, samples, bufferVars>>

\* A call that is not logged: disabled, or suppressed by its limit.
Suppressed ==
  /\ Ready /\ ~Passing
  /\ front' = NextCall([front EXCEPT !.limits = IF Enabled(Call) THEN LimitsAfter(Call) ELSE @])
  /\ UNCHANGED <<work, queue, written, failures, flushLevels, issued, context, flushed, adminVars, sinks,
                 exporter, backend, formatters, overrides, traceVars, handled, samples, bufferVars>>

\* A call that is logged: its size is computed, the cache filled.
Measure ==
  /\ Ready /\ Passing
  /\ \E size \in {SizeOfRecord(Call, front.cache)} :
       front' = [front EXCEPT !.phase = "reserve", !.size = size.size, !.cache = size.cache]
  /\ UNCHANGED <<work, queue, written, failures, flushLevels, issued, context, flushed, adminVars, sinks,
                 exporter, backend, formatters, overrides, traceVars, handled, samples, bufferVars>>

\* _flush_after_log_statement_if_needed: whether this statement is to be flushed.
FlushesNow(call) == Logs(call) /\ work.threshold > 0 /\ front.count + 1 >= work.threshold

\* What the thread does after the commit: wait for a flush, flush, or set the level.
AfterCommit(call, f) ==
  CASE call.op = "flush" -> [f EXCEPT !.phase = "waiting"]
    [] call.op = "initBacktrace" -> [f EXCEPT !.phase = "level"]
    [] Logs(call) /\ FlushesNow(call) -> [f EXCEPT !.phase = "flush", !.count = 0]
    [] Logs(call) /\ work.threshold > 1 -> NextCall([f EXCEPT !.count = @ + 1])
    [] OTHER -> NextCall(f)

\* The rest of log_statement and of its variants, when the queue has room.
Commit ==
  /\ Reserves /\ HasRoom(front.size)
  /\ queue' = Append(queue, Record(Call, front.cache)
                            @@ [size |-> front.size, id |-> IF Logs(Call) THEN Len(issued) + 1 ELSE 0])
  /\ written' = written + front.size
  /\ issued' = IF Logs(Call) THEN Append(issued, MeantEvent(Call)) ELSE issued
  /\ context' = MeantContext(Call)
  /\ front' = AfterCommit(Call, [front EXCEPT !.limits = LimitsAfter(Call)])
  /\ UNCHANGED <<work, failures, flushLevels, flushed, adminVars, sinks, exporter, backend, formatters,
                 overrides, traceVars, handled, samples, bufferVars>>

CountFailure(f) == [counter |-> f.counter + 1, total |-> f.total + 1]

\* A dropping queue without room: the statement is counted and lost, control
\* events are tried again.
Drop ==
  /\ Reserves /\ ~HasRoom(front.size) /\ work.queue.dropping
  /\ ~Retries(StaticMetadata(Call))
  /\ failures' = CountFailure(failures)
  /\ front' = NextCall([front EXCEPT !.limits = LimitsAfter(Call)])
  /\ UNCHANGED <<work, queue, written, flushLevels, issued, context, flushed, adminVars, sinks, exporter,
                 backend, formatters, overrides, traceVars, handled, samples, bufferVars>>

\* A blocking queue without room: counted once; the thread tries again.  What
\* can never fit throws.
Block ==
  /\ front.phase = "reserve" /\ ~HasRoom(front.size) /\ ~work.queue.dropping
  /\ IF front.size > work.queue.capacity
       THEN failures' = failures /\ front' = NextCall(front)
       ELSE failures' = CountFailure(failures) /\ front' = [front EXCEPT !.phase = "blocked"]
  /\ UNCHANGED <<work, queue, written, flushLevels, issued, context, flushed, adminVars, sinks, exporter,
                 backend, formatters, overrides, traceVars, handled, samples, bufferVars>>

\* The second half of init_backtrace.
SetFlushLevel ==
  /\ front.phase = "level"
  /\ flushLevels' = [flushLevels EXCEPT ![Call.logger] = Call.level]
  /\ front' = NextCall(front)
  /\ UNCHANGED <<work, queue, written, failures, issued, context, flushed, adminVars, sinks, exporter,
                 backend, formatters, overrides, traceVars, handled, samples, bufferVars>>

\* flush_log() inside a statement.
NestedFlush == [op |-> "flush", event |-> "Flush", logger |-> Call.logger, at |-> Call.at]

FlushLog ==
  /\ front.phase \in {"flush", "flushBlocked"}
  /\ \E size \in {SizeOfRecord(NestedFlush, front.cache)} :
       /\ HasRoom(size.size)
       /\ queue' = Append(queue, Record(NestedFlush, size.cache) @@ [size |-> size.size, id |-> 0])
       /\ written' = written + size.size
       /\ front' = [front EXCEPT !.phase = "waiting", !.cache = size.cache]
  /\ UNCHANGED <<work, failures, flushLevels, issued, context, flushed, adminVars, sinks, exporter,
                 backend, formatters, overrides, traceVars, handled, samples, bufferVars>>

\* It waits for room like any statement, and throws when it can never fit; a
\* dropping queue only makes it try again.
BlockFlush ==
  /\ front.phase = "flush" /\ ~work.queue.dropping
  /\ \E size \in {SizeOfRecord(NestedFlush, front.cache)} :
       /\ ~HasRoom(size.size)
       /\ IF size.size > work.queue.capacity
            THEN failures' = failures /\ front' = NextCall([front EXCEPT !.cache = size.cache])
            ELSE failures' = CountFailure(failures) /\ front' = [front EXCEPT !.phase = "flushBlocked"]
  /\ UNCHANGED <<work, queue, written, flushLevels, issued, context, flushed, adminVars, sinks, exporter,
                 backend, formatters, overrides, traceVars, handled, samples, bufferVars>>

FlushReturns ==
  /\ front.phase = "waiting" /\ flushed
  /\ flushed' = FALSE
  /\ front' = NextCall(front)
  /\ UNCHANGED <<work, queue, written, failures, flushLevels, issued, context, adminVars, sinks, exporter,
                 backend, formatters, overrides, traceVars, handled, samples, bufferVars>>

-----------------------------------------------------------------------------
(***************************************************************************)
(* The other thread.                                                       *)
(***************************************************************************)

AdminStep(op) ==
  /\ levels' = IF op.op = "level" THEN [levels EXCEPT ![op.logger] = SetLogLevel(@, op.level)] ELSE levels
  /\ sinks' = CASE op.op = "sinkLevel" -> [sinks EXCEPT ![op.sink] = SetLogLevelFilter(@, op.level)]
                [] op.op = "filter" -> [sinks EXCEPT ![op.sink] = AddFilter(@, op.filter)]
                [] OTHER -> sinks
  /\ metrics' = CASE op.op = "create" -> CreateMetric(metrics, op.metric)
                  [] op.op = "createOrGet" -> CreateOrGetMetric(metrics, op.metric)
                  [] OTHER -> metrics
  /\ exporter' = CASE op.op = "counter" -> RegisterCounter(exporter, metrics[op.key], op.help, op.constant)
                   [] op.op = "gauge" ->
                        RegisterGauge(exporter, metrics[op.key], op.help, op.mode, op.constant)
                   [] op.op = "histogram" ->
                        RegisterHistogram(exporter, metrics[op.key], op.help, op.buckets, op.constant)
                   [] op.op = "summary" -> RegisterSummary(exporter, metrics[op.key], op.help, op.constant)
                   [] op.op = "unregister" -> UnregisterMetric(exporter, metrics[op.key])
                   [] op.op = "unregisterKey" -> UnregisterKey(exporter, op.key)
                   [] OTHER -> exporter

Admin ==
  /\ admin < Len(work.admin)
  /\ admin' = admin + 1
  /\ AdminStep(work.admin[admin + 1])
  /\ samples' = SelectSeq(samples, LAMBDA x : x.metric \in DOMAIN exporter'.metrics)
  /\ UNCHANGED <<work, env, frontVars, flushed, backend, formatters, overrides, traceVars, handled, bufferVars>>

-----------------------------------------------------------------------------
(***************************************************************************)
(* The backend: from the queue to the transit event buffer.                *)
(***************************************************************************)

\* What _populate_transit_event_from_frontend_queue writes before it decodes.
Header(r) == [At(writerPos) EXCEPT !.timestamp = r.stamp, !.static = r.metadata, !.own = FALSE,
                                   !.logger = r.logger, !.id = r.id]

Source(r) == [bytes |-> r.bytes, pos |-> 0, val |-> <<>>, base |-> r.base]

\* The metadata in front of the arguments, and the source behind it.
RuntimeTypes(event) ==
  CASE event = "Deep" -> DeepTypes
    [] event = "Shallow" -> ShallowTypes
    [] event = "Hybrid" -> <<CString, Pointer, Pointer, CString>> \o LineAndLevel
    [] OTHER -> <<>>
ReadMetadata(r) == TupleDecode([types |-> RuntimeTypes(r.event)], Source(r))

\* _apply_runtime_metadata: the event gets metadata of its own from the values read.
ApplyRuntimeMetadata(e, types, read) ==
  LET string(i) == IF types[i] = CString THEN read[i]
                   ELSE IF read[i] = 0 THEN Null ELSE Literals[read[i]]
  IN  [WithExtra(e) EXCEPT
         !.own = TRUE,
         !.runtime = SetRuntime(@, string(2), read[5], string(3), string(4), string(1), read[6])]

\* The parsed format of a statement with named arguments; that of a call site is kept.
Template(r, metadata) ==
  IF r.event \notin RuntimeEvents /\ metadata.format \in DOMAIN backend.templates
  THEN backend.templates[metadata.format] ELSE ProcessNamedArgs(metadata.format)

\* The event with its message, and its named arguments if the format has some.
FormatNamed(e, template, args) ==
  PopulateNamedArgs(PopulateMessage(e, template.format, args, work.sanitize),
                    template.keys, args, work.sanitize)
FormatEvent(e, r, args) ==
  IF MetadataOf(e).named THEN FormatNamed(e, Template(r, MetadataOf(e)), args)
  ELSE PopulateMessage(e, MetadataOf(e).format, args, work.sanitize)

\* The event in its slot, decoded and formatted, from the metadata and arguments read.
Decoded(r, e, metadata, args) ==
  CASE r.event = "Flush" -> SetPayload(e, "flag")
    [] r.event = "Metric" -> SetPayload(e, r.value)
    [] r.event \in MdcEvents -> e
    [] OTHER -> SetEventMdc(FormatEvent(IF r.event \notin RuntimeEvents THEN e
                                        ELSE ApplyRuntimeMetadata(e, RuntimeTypes(r.event), metadata),
                                        r, args), backend.mdc)

MdcAfter(r, args) ==
  IF r.event \notin MdcEvents THEN backend.mdc
  ELSE ApplyMdcEvent(backend.mdc, r.event, args, work.mdcPattern)

TemplatesAfter(r) ==
  IF r.event = "Log" /\ r.metadata.named
  THEN With(backend.templates, r.metadata.format, Template(r, r.metadata)) ELSE backend.templates

\* A report with the text of the last one, the same number in the same second, is withheld.
NotifyError(reports, count, sameSecond) ==
  IF count = reports.last /\ sameSecond THEN [reports EXCEPT !.withheld = @ + count]
  ELSE [reports EXCEPT !.last = count, !.told = @ + count]

BackendReads == backend.phase = "idle" /\ queue # <<>> /\ Head(queue) # NodeEnd

\* _read_unbounded_frontend_queue: behind the last record of a queue that was
\* shrunk the reader moves on, and has the buffer shrunk too; the user is told.
ReadUnboundedFrontendQueue ==
  /\ backend.phase = "idle" /\ queue # <<>> /\ Head(queue) = NodeEnd
  /\ RequestShrink
  /\ queue' = Tail(queue)
  /\ backend' = [backend EXCEPT !.reports = NotifyError(@, 0, FALSE)]
  /\ UNCHANGED <<work, front, written, failures, flushLevels, issued, context, flushed, adminVars, sinks,
                 exporter, formatters, overrides, traceVars, handled, samples>>

\* A record is decoded into a slot.
Populate ==
  /\ BackendReads
  /\ \E r \in {Head(queue)} : \E metadata \in {ReadMetadata(r)} :
       \E args \in {ArgumentsDecode(r.types, metadata)} :
         /\ Back(Decoded(r, Header(r), metadata.val, args.val))
         /\ backend' = [backend EXCEPT !.phase = "push", !.keep = r.event \notin MdcEvents,
                                       !.mdc = MdcAfter(r, args.val), !.templates = TemplatesAfter(r),
                                       !.late = FALSE]
  /\ queue' = Tail(queue)
  /\ UNCHANGED <<work, front, written, failures, flushLevels, issued, context, flushed, adminVars, sinks,
                 exporter, formatters, overrides, traceVars, handled, samples>>

\* With a grace period a record may be ahead of the cut-off: it stays in the
\* queue for a time (once, here), and its header in the slot.
CutOff ==
  /\ BackendReads /\ work.grace /\ ~work.loggers[Head(queue).logger].userClock /\ ~backend.late
  /\ Back(Header(Head(queue)))
  /\ backend' = [backend EXCEPT !.phase = "push", !.keep = FALSE, !.late = TRUE]
  /\ UNCHANGED <<work, frontVars, flushed, adminVars, sinks, exporter, formatters, overrides, traceVars,
                 handled, samples>>

Push ==
  /\ backend.phase = "push"
  /\ IF backend.keep THEN PushBack ELSE Abandon
  /\ backend' = [backend EXCEPT !.phase = "idle"]
  /\ UNCHANGED <<work, frontVars, flushed, adminVars, sinks, exporter, formatters, overrides, traceVars,
                 handled, samples>>

\* back() of a full buffer; when it throws, the record stays in the queue.
Grow ==
  /\ BackendReads
  /\ Expand \/ ExpandThrows
  /\ UNCHANGED <<work, frontVars, flushed, adminVars, sinks, exporter, backend, formatters, overrides,
                 traceVars, handled, samples>>

\* An idle backend shrinks buffers and reports failures.
Shrink ==
  /\ backend.phase = "idle" /\ queue = <<>> /\ TryShrink
  /\ UNCHANGED <<work, frontVars, flushed, adminVars, sinks, exporter, backend, formatters, overrides,
                 traceVars, handled, samples>>

\* _check_failure_counter: a counter that is not zero is reported and reset.
CheckFailureCounter ==
  /\ backend.phase = "idle" /\ queue = <<>> /\ readerPos = writerPos /\ failures.counter > 0
  /\ backend' = [backend EXCEPT !.phase = "report"]
  /\ UNCHANGED <<work, frontVars, flushed, adminVars, sinks, exporter, formatters, overrides, traceVars,
                 handled, samples, bufferVars>>

GetAndResetFailureCounter ==
  /\ backend.phase = "report"
  /\ failures' = [failures EXCEPT !.counter = 0]
  /\ \E sameSecond \in BOOLEAN :
       backend' = [backend EXCEPT !.phase = "idle",
                                  !.reports = NotifyError(@, failures.counter, sameSecond)]
  /\ UNCHANGED <<work, front, queue, written, flushLevels, issued, context, flushed, adminVars, sinks,
                 exporter, formatters, overrides, traceVars, handled, samples, bufferVars>>

-----------------------------------------------------------------------------
(***************************************************************************)
(* The backend: from the transit event buffer to the sinks.                *)
(***************************************************************************)

Processes == backend.phase = "idle" /\ ~filled /\ readerPos # writerPos
FrontEvent == At(readerPos)

\* The processing changes the event in its slot.
SetFront(e) ==
  /\ storage' = [storage EXCEPT ![readerPos % capacity] = e]
  /\ content' = [content EXCEPT ![1] = e]
  /\ UNCHANGED <<capacity, readerPos, writerPos, shrinkRequested, filled, pending>>

\* _ensure_monotonic_output_timestamp
Monotonic(e) ==
  IF work.monotonic /\ e.timestamp < backend.lastOutput
  THEN [e EXCEPT !.timestamp = backend.lastOutput + 1] ELSE e

LastOutput(e) == IF work.monotonic THEN Monotonic(e).timestamp ELSE backend.lastOutput

IsBacktrace(e) == MetadataOf(e).level = Level("Backtrace")
EventOf(e) == MetadataOf(e).event
HasTrace(e) == traceCreated /\ e.logger = 1

ProcessLog ==
  /\ Processes /\ EventOf(FrontEvent) = "Log" /\ ~IsBacktrace(FrontEvent)
  /\ SetFront(Monotonic(FrontEvent))
  /\ backend' = [backend EXCEPT !.phase = "dispatch", !.jobs = <<Monotonic(FrontEvent)>>,
                                !.checkTrace = TRUE, !.lastOutput = LastOutput(FrontEvent)]
  /\ UNCHANGED <<work, frontVars, flushed, adminVars, sinks, exporter, formatters, overrides, traceVars,
                 handled, samples>>

\* A copy is stored; without a storage the statement is lost with an error.
ProcessBacktrace ==
  /\ Processes /\ EventOf(FrontEvent) = "Log" /\ IsBacktrace(FrontEvent)
  /\ IF HasTrace(FrontEvent) THEN Backtrace!Store(CopyTo(FrontEvent)) ELSE UNCHANGED traceVars
  /\ backend' = [backend EXCEPT !.phase = "clean"]
  /\ UNCHANGED <<work, frontVars, flushed, adminVars, sinks, exporter, formatters, overrides, handled,
                 samples, bufferVars>>

\* The capacity comes as a formatted message.
ProcessInitBacktrace ==
  /\ Processes /\ EventOf(FrontEvent) = "InitBacktrace"
  /\ Backtrace!SetCapacity(FrontEvent.message[1][2])
  /\ backend' = [backend EXCEPT !.phase = "clean"]
  /\ UNCHANGED <<work, frontVars, flushed, adminVars, sinks, exporter, formatters, overrides, handled,
                 samples, bufferVars>>

\* process() of the storage: what it visits is dispatched.  Only the formatter of
\* the logger can throw, at the first event.
CanFormat(logger) == ValidPattern(work.loggers[logger].options)
Visits == IF CanFormat(1) THEN Len(traceStored) ELSE 0

ProcessFlushBacktrace ==
  /\ Processes /\ EventOf(FrontEvent) = "FlushBacktrace"
  /\ IF HasTrace(FrontEvent)
       THEN /\ Backtrace!Process(Visits)
            /\ backend' = [backend EXCEPT !.phase = "dispatch", !.jobs = Backtrace!Visited(Visits)]
       ELSE backend' = [backend EXCEPT !.phase = "clean"] /\ UNCHANGED traceVars
  /\ UNCHANGED <<work, frontVars, flushed, adminVars, sinks, exporter, formatters, overrides, handled,
                 samples, bufferVars>>

\* The flag is taken and the sinks of the loggers are flushed.
ActiveSinks == UNION {ToSet(work.loggers[l].sinks) : l \in DOMAIN work.loggers}
ProcessFlush ==
  /\ Processes /\ EventOf(FrontEvent) = "Flush"
  /\ SetFront(ResetPayload(FrontEvent))
  /\ sinks' = [s \in DOMAIN sinks |-> IF s \in ActiveSinks THEN FlushSink(sinks[s]) ELSE sinks[s]]
  /\ backend' = [backend EXCEPT !.phase = "clean", !.flag = TRUE]
  /\ UNCHANGED <<work, frontVars, flushed, adminVars, exporter, formatters, overrides, traceVars,
                 handled, samples>>

\* _write_metric_sample: only the exporter looks at metrics.
ProcessMetric ==
  /\ Processes /\ EventOf(FrontEvent) = "Metric"
  /\ LET e == Monotonic(FrontEvent)
         exports == \E i \in DOMAIN work.loggers[e.logger].sinks :
                      work.sinks[work.loggers[e.logger].sinks[i]].kind = "prometheus"
     IN  /\ SetFront(ResetPayload(e))
         /\ exporter' = IF exports THEN WriteMetric(exporter, e.static.metric, e.payload) ELSE exporter
         /\ samples' = IF exports /\ e.static.metric \in DOMAIN exporter.metrics
                       THEN Append(samples, [metric |-> e.static.metric, value |-> e.payload]) ELSE samples
         /\ backend' = [backend EXCEPT !.phase = "clean", !.lastOutput = LastOutput(FrontEvent)]
  /\ UNCHANGED <<work, frontVars, flushed, adminVars, sinks, formatters, overrides, traceVars, handled>>

-----------------------------------------------------------------------------

Job == Head(backend.jobs)
JobSinks == work.loggers[Job.logger].sinks
JobSink == JobSinks[backend.sink]
JobLevel == MetadataOf(Job).level
JobOptions == work.loggers[Job.logger].options

\* The event as formatters and sinks see it.
View(e) == [timestamp |-> e.timestamp, metadata |-> MetadataOf(e), logger |-> e.logger,
            named |-> GetNamedArgs(e), mdc |-> MdcOf(e), message |-> e.message]

\* _dispatch_transit_event_to_sinks: the formatter of the logger, its own or
\* that of a logger with the same options.  A pattern that is not valid throws.
Dispatch ==
  /\ backend.phase = "dispatch" /\ backend.jobs # <<>>
  /\ IF CanFormat(Job.logger)
       THEN /\ formatters' = IF JobOptions \in DOMAIN formatters THEN formatters
                             ELSE With(formatters, JobOptions, NewPatternFormatter(JobOptions))
            /\ backend' = [backend EXCEPT !.phase = "sinks", !.sink = 1, !.statement = <<>>]
       ELSE /\ backend' = [Emptied(backend, "clean") EXCEPT !.checkTrace = FALSE]
            /\ UNCHANGED formatters
  /\ UNCHANGED <<work, frontVars, flushed, adminVars, sinks, exporter, overrides, traceVars, handled,
                 samples, bufferVars>>

\* What became of the event at this sink.
Handle(outcome, text) ==
  handled' = [handled EXCEPT ![JobSink] = Append(@,
                [id |-> Job.id, timestamp |-> Job.timestamp, level |-> JobLevel, outcome |-> outcome,
                 text |-> text, known |-> backend.known, all |-> sinks[JobSink].global])]

NextSink(b) == [b EXCEPT !.phase = "sinks", !.sink = @ + 1, !.text = <<>>, !.known = <<>>]

Dispatches == backend.phase = "sinks" /\ backend.sink <= Len(JobSinks)

BelowSinkLevel ==
  /\ Dispatches /\ JobLevel < sinks[JobSink].level
  /\ Handle("level", <<>>)
  /\ backend' = NextSink(backend)
  /\ UNCHANGED <<work, frontVars, flushed, adminVars, sinks, exporter, formatters, overrides, traceVars,
                 samples, bufferVars>>

\* The statement is formatted once for the sinks without options of their own,
\* unless it is empty.
FormatStatement ==
  /\ Dispatches /\ JobLevel >= sinks[JobSink].level /\ work.sinks[JobSink].override = Null
  /\ \E result \in {IF backend.statement # <<>>
                    THEN [state |-> formatters[JobOptions], text |-> backend.statement]
                    ELSE Format(formatters[JobOptions], View(Job))} :
         /\ formatters' = [formatters EXCEPT ![JobOptions] = result.state]
         /\ backend' = [backend EXCEPT !.phase = "filters", !.statement = result.text,
                                       !.text = result.text, !.known = sinks[JobSink].global]
  /\ UNCHANGED <<work, frontVars, flushed, adminVars, sinks, exporter, overrides, traceVars, handled,
                 samples, bufferVars>>

\* A sink with options of its own has a formatter, made when it is first needed.
FormatOverride ==
  /\ Dispatches /\ JobLevel >= sinks[JobSink].level /\ work.sinks[JobSink].override # Null
  /\ LET options == work.sinks[JobSink].override
         f == IF overrides[JobSink] = Null THEN NewPatternFormatter(options) ELSE overrides[JobSink]
     IN  IF ValidPattern(options)
         THEN \E result \in {Format(f, View(Job))} :
              /\ overrides' = [overrides EXCEPT ![JobSink] = result.state]
              /\ backend' = [backend EXCEPT !.phase = "filters", !.text = result.text,
                                            !.known = sinks[JobSink].global]
              /\ UNCHANGED handled
         ELSE /\ Handle("failed", <<>>)
              /\ backend' = NextSink(backend)
              /\ UNCHANGED overrides
  /\ UNCHANGED <<work, frontVars, flushed, adminVars, sinks, exporter, formatters, traceVars, samples,
                 bufferVars>>

\* _apply_all_user_filters: new filters are noticed, then copied under the lock.
NoticeFilters ==
  /\ backend.phase = "filters"
  /\ sinks' = IF sinks[JobSink].new THEN [sinks EXCEPT ![JobSink] = TakeNewFilter(@)] ELSE sinks
  /\ backend' = [backend EXCEPT !.phase = IF sinks[JobSink].new THEN "copy" ELSE "write"]
  /\ UNCHANGED <<work, frontVars, flushed, adminVars, exporter, formatters, overrides, traceVars, handled,
                 samples, bufferVars>>

CopyNewFilters ==
  /\ backend.phase = "copy"
  /\ sinks' = [sinks EXCEPT ![JobSink] = CopyFilters(@)]
  /\ backend' = [backend EXCEPT !.phase = "write"]
  /\ UNCHANGED <<work, frontVars, flushed, adminVars, exporter, formatters, overrides, traceVars, handled,
                 samples, bufferVars>>

\* The filters are applied and the sink writes, or throws: its stream or service
\* fails, or its rotation.
Wrote(sink, outcome, text) == sinks' = [sinks EXCEPT ![JobSink] = sink] /\ Handle(outcome, text)
WriteToSink ==
  /\ backend.phase = "write"
  /\ LET sink == sinks[JobSink]
         config == work.sinks[JobSink]
         rotating(throws) == RotatingWrite(sink, View(Job), JobLevel, Job.message, backend.text, throws)
     IN  IF ~Accepts(sink.local, JobLevel) THEN Wrote(sink, "filtered", <<>>)
         ELSE IF config.throws THEN Wrote(sink, "failed", <<>>)
         ELSE IF config.rotates
              THEN \/ \E s \in {rotating(FALSE)} : Wrote(s, "written", s.out)
                   \/ Wrote(rotating(TRUE), "failed", <<>>)
         ELSE \E s \in {WriteLog(sink, View(Job), JobLevel, Job.message, backend.text)} :
                Wrote(s, "written", s.out)
  /\ backend' = NextSink(backend)
  /\ UNCHANGED <<work, frontVars, flushed, adminVars, exporter, formatters, overrides, traceVars, samples,
                 bufferVars>>

NextJob ==
  /\ backend.phase = "sinks" /\ backend.sink > Len(JobSinks)
  /\ backend' = [backend EXCEPT !.phase = "dispatch", !.jobs = Tail(@)]
  /\ UNCHANGED <<work, frontVars, flushed, adminVars, sinks, exporter, formatters, overrides, traceVars,
                 handled, samples, bufferVars>>

\* After a statement that is severe enough for its logger, the backtrace.
CheckBacktrace ==
  /\ backend.phase = "dispatch" /\ backend.jobs = <<>> /\ backend.checkTrace
  /\ IF MetadataOf(FrontEvent).level >= flushLevels[FrontEvent.logger] /\ HasTrace(FrontEvent)
       THEN /\ Backtrace!Process(Visits)
            /\ backend' = [backend EXCEPT !.checkTrace = FALSE, !.jobs = Backtrace!Visited(Visits)]
       ELSE backend' = [backend EXCEPT !.checkTrace = FALSE] /\ UNCHANGED traceVars
  /\ UNCHANGED <<work, frontVars, flushed, adminVars, sinks, exporter, formatters, overrides, handled,
                 samples, bufferVars>>

Dispatched ==
  /\ backend.phase = "dispatch" /\ backend.jobs = <<>> /\ ~backend.checkTrace
  /\ backend' = Emptied(backend, "clean")
  /\ UNCHANGED <<work, frontVars, flushed, adminVars, sinks, exporter, formatters, overrides, traceVars,
                 handled, samples, bufferVars>>

\* The end of _process_lowest_timestamp_transit_event.
Clean ==
  /\ backend.phase = "clean"
  /\ SetFront(CleanUp(FrontEvent))
  /\ backend' = [backend EXCEPT !.phase = "pop"]
  /\ UNCHANGED <<work, frontVars, flushed, adminVars, sinks, exporter, formatters, overrides, traceVars,
                 handled, samples>>

Pop ==
  /\ backend.phase = "pop"
  /\ PopFront
  /\ backend' = [backend EXCEPT !.phase = "idle", !.flag = FALSE]
  /\ flushed' = (flushed \/ backend.flag)
  /\ UNCHANGED <<work, frontVars, adminVars, sinks, exporter, formatters, overrides, traceVars, handled,
                 samples>>

PipelineNext ==
  \/ CreateLogger \/ ShrinkQueue \/ Suppressed \/ Measure \/ Commit \/ Drop \/ Block
  \/ SetFlushLevel \/ FlushLog \/ BlockFlush \/ FlushReturns
  \/ Admin
  \/ ReadUnboundedFrontendQueue \/ Populate \/ CutOff \/ Push \/ Grow \/ Shrink
  \/ CheckFailureCounter \/ GetAndResetFailureCounter
  \/ ProcessLog \/ ProcessBacktrace \/ ProcessInitBacktrace \/ ProcessFlushBacktrace
  \/ ProcessFlush \/ ProcessMetric
  \/ Dispatch \/ BelowSinkLevel \/ FormatStatement \/ FormatOverride \/ NoticeFilters \/ CopyNewFilters
  \/ WriteToSink \/ NextJob \/ CheckBacktrace \/ Dispatched \/ Clean \/ Pop

PipelineSpec == PipelineInit /\ [][PipelineNext]_pipelineVars

-----------------------------------------------------------------------------
(***************************************************************************)
(* Properties.                                                             *)
(***************************************************************************)

\* Size, encoder and decoder of a statement agree: a record that was just queued
\* has as many bytes as were reserved for it, and reading it takes as many
\* (Logger.h asserts the first; the second moves the reader position).
Consumed(r) == ArgumentsDecode(r.types, ReadMetadata(r)).pos
RecordsFit ==
  queue # <<>> /\ Last(queue) # NodeEnd =>
    LET r == Last(queue) IN r.size = HeaderSize + Len(r.bytes) /\ Consumed(r) = Len(r.bytes)

\* Events in the buffer and in the backtrace point to their own runtime metadata
\* if they have some, and to that of a call site if not, however often their
\* slot was used, moved or copied.
Own(e) == e.own = e.runtime.has
MetadataOwned ==
  /\ backend.phase # "pop" => \A i \in DOMAIN content : Own(content[i])
  /\ \A i \in DOMAIN traceStored : Own(traceStored[i])

\* The statement a sink should be given for a meant event: its pattern read from
\* left to right, once for each line.
MeantStatement(options, m) ==
  LET newline == options.suffix = Newline
      whole == IF newline /\ m.message # <<>> /\ Last(m.message) = Newline THEN Front(m.message) ELSE m.message
      lines == IF options.multiline /\ m.named = <<>> /\ m.message # <<>>
               THEN Lines(m.message, ~newline) ELSE <<whole>>
  IN  IF options.pattern = <<>> THEN <<>>
      ELSE FlattenSeq([i \in DOMAIN lines |-> Rendered(options, m, lines[i])])

MeantText(s, entry) ==
  LET config == work.sinks[s]
      m == [issued[entry.id] EXCEPT !.timestamp = entry.timestamp]
      options == IF config.override = Null THEN work.loggers[m.logger].options ELSE config.override
  IN  WriteLog(NewSink(config), m, entry.level, m.message, MeantStatement(options, m)).out

Ids(entries) == [i \in DOMAIN entries |-> entries[i].id]
Plain(entries) == SelectSeq(entries, LAMBDA x : x.level # Level("Backtrace"))
Traced(entries) == SelectSeq(entries, LAMBDA x : x.level = Level("Backtrace"))

\* The statements a sink is to see.
ForSink(s) ==
  Ids(SelectSeq(issued, LAMBDA m : /\ s \in ToSet(work.loggers[m.logger].sinks)
                                   /\ m.metadata.level # Level("Backtrace") /\ CanFormat(m.logger)))

Done == front.next > Len(work.calls) /\ queue = <<>> /\ content = <<>> /\ backend.phase = "idle"

\* Each failure that was counted is still in the counter, was reported or was
\* withheld with a report like the last.
FailuresAccounted == failures.total = failures.counter + backend.reports.told + backend.reports.withheld

\* A created logger logs what the first value accepted asks for.
Attempts ==
  SelectSeq(work.calls, LAMBDA c : c.op = "create"
                                   /\ (c.value = "" \/ c.value \in DOMAIN LevelsByName \ {"backtrace"}))
EnvironmentObeyed ==
  Done /\ Attempts # <<>> =>
    LET wanted == IF Attempts[1].value = "" THEN Level("Info") ELSE Level(LevelsByName[Attempts[1].value])
    IN  \A i \in DOMAIN work.calls :
          Logs(work.calls[i]) =>
            (\E m \in ToSet(issued) : m.timestamp = work.calls[i].at)
            = (Expanded(work.calls[i].site).metadata.level >= wanted)

\* Whatever way a statement takes, through macros, limits, codecs, pooled slots,
\* named arguments, MDC, caches of formatted times and shared formatters, each
\* sink of its logger sees it once and in order, and what it writes is the
\* statement as it was meant; none is missing when the pipeline is empty, what was
\* lost on the way was counted, and when flush_log() may return nothing is left
\* in a stream.
OutputsRight ==
  /\ Done => \A s \in DOMAIN handled : Ids(Plain(handled[s])) = ForSink(s)
  /\ backend.phase = "sinks" /\ backend.sink > 1 =>   \* a sink has just been served
       LET s == JobSinks[backend.sink - 1]
           x == Last(handled[s])
       IN  /\ IF x.level = Level("Backtrace") THEN IsPrefix(Ids(Traced(handled[s])), Ids(traceOutput))
              ELSE IsPrefix(Ids(Plain(handled[s])), ForSink(s))
           /\ IF work.monotonic THEN x.timestamp >= issued[x.id].timestamp
              ELSE x.timestamp = issued[x.id].timestamp
           /\ x.level = issued[x.id].metadata.level
           /\ x.outcome = "written" => x.text = MeantText(s, x)
  /\ flushed => \A s \in DOMAIN sinks : ~sinks[s].occurred \/ work.sinks[s].flushFails
  /\ RecordsFit /\ MetadataOwned /\ FailuresAccounted /\ EnvironmentObeyed

\* A sink writes no statement that a filter rejects which it had when the
\* statement came to it, and withholds none that all its filters accept,
\* while filters are being added.
FiltersApply ==
  \A s \in DOMAIN handled : \A i \in DOMAIN handled[s] :
    LET x == handled[s][i]
    IN  /\ x.outcome = "written" => Accepts(x.known, x.level)
        /\ x.outcome = "filtered" => ~Accepts(x.all, x.level)

Promise == INSTANCE LastEvents WITH
  Event <- 1..MaxCalls, n <- traceCapacity,
  recent <- Ids(Backtrace!Visited(Len(traceStored))), output <- Ids(traceOutput)

\* The backtrace hands out the last statements it was given, oldest first and
\* once, through changes of its capacity and a formatter that throws.
ImplementsLastEvents == Promise!Spec

\* The tables of the Prometheus sink agree with each other, and a time series
\* has the samples of its metric since it was registered, however registering,
\* unregistering and late samples follow each other; and what the sink shows as
\* its endpoint has the port that the server got.
MetricsRight ==
  /\ TablesAgree(exporter) /\ EndpointServed(exporter, work.exposer)
  /\ \A m \in DOMAIN exporter.metrics :
       LET registered == exporter.metrics[m]
           values == exporter.series[<<registered.family, ToSet(m.labels)>>]
           taken == SelectSeq(samples, LAMBDA x : x.metric = m)
           given == [i \in DOMAIN taken |-> IF registered.mode = "Sub" THEN -taken[i].value ELSE taken[i].value]
       IN  values = IF registered.mode = "Set" /\ given # <<>> THEN <<Last(given)>> ELSE given
=============================================================================
