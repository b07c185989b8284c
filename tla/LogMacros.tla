------------------------------ MODULE LogMacros ------------------------------
(***************************************************************************)
(* The macros and functions a program logs with (LogMacros.h and           *)
(* LogFunctions.h).  A call site says which of them it uses:               *)
(*   macro  its level's macros, or RuntimeMetadata, Function or Metric     *)
(*   form   LOG, LOGV (values with their names) or LOGJ (named arguments)  *)
(*   limit  none, time (LIMIT, with n ns) or every (LIMIT_EVERY_N, with n) *)
(* with its text, tags, argument names and types; of a function which one  *)
(* is called.                                                              *)
(***************************************************************************)
EXTENDS MacroMetadata

CONSTANT CompileActiveLevel  \* QUILL_COMPILE_ACTIVE_LOG_LEVEL

Joined(parts, separator) ==
  FlattenSeq([i \in DOMAIN parts |-> IF i = 1 THEN parts[i] ELSE separator \o parts[i]])

Blank == 32
Comma == 44

\* QUILL_GENERATE_FORMAT_STRING: text [x: {}, y: {}]
GenerateFormatString(text, names) ==
  LET part(name) == name \o <<Colon, Blank, OpenBrace, CloseBrace>>
  IN  IF names = <<>> THEN text
      ELSE text \o <<Blank, 91>> \o Joined([i \in DOMAIN names |-> part(names[i])], <<Comma, Blank>>)
           \o <<93>>

\* QUILL_GENERATE_NAMED_FORMAT_STRING: text {x}, {y}
GenerateNamedFormatString(text, names) ==
  LET part(name) == <<OpenBrace>> \o name \o <<CloseBrace>>
  IN  IF names = <<>> THEN text
      ELSE text \o <<Blank>> \o Joined([i \in DOMAIN names |-> part(names[i])], <<Comma, Blank>>)

FormatOf(site) ==
  CASE site.form = "LOG"  -> site.text
    [] site.form = "LOGV" -> GenerateFormatString(site.text, site.names)
    [] site.form = "LOGJ" -> GenerateNamedFormatString(site.text, site.names)

\* QUILL_TAGS: a hash before and a blank after each.
Hash == 35
Tags(tags) == FlattenSeq([i \in DOMAIN tags |-> <<Hash>> \o tags[i] \o <<Blank>>])

\* The function interface leaves out tags that are null.
FunctionTags(tags) == Tags(SelectSeq(tags, LAMBDA t : t # Null))

-----------------------------------------------------------------------------
(***************************************************************************)
(* What the macros of one level expand to: metadata, and whether the       *)
(* statement is compiled at all.  Backtrace is never compiled out.         *)
(***************************************************************************)

Expansion(site, level) ==
  [compiled |-> CompileActiveLevel <= level,
   metadata |-> Metadata(site.location, site.function, FormatOf(site), Tags(site.tags), level,
                         "Log", site.limit = "time")]

LogTraceL3(site) == Expansion(site, Level("TraceL3"))
LogTraceL2(site) == Expansion(site, Level("TraceL2"))
LogTraceL1(site) == Expansion(site, Level("TraceL1"))
LogDebug(site) == Expansion(site, Level("Debug"))
LogInfo(site) == Expansion(site, Level("Info"))
LogNotice(site) == Expansion(site, Level("Notice"))
LogWarning(site) == Expansion(site, Level("Warning"))
LogError(site) == Expansion(site, Level("Error"))
LogCritical(site) == Expansion(site, Level("Critical"))
LogBacktrace(site) == [Expansion(site, Level("Backtrace")) EXCEPT !.compiled = TRUE]

\* Runtime metadata: only the event is static, the rest travels with the arguments.
RuntimeExpansion(event) ==
  [compiled |-> TRUE,
   metadata |-> [NoMetadata EXCEPT !.event = event]]

\* QUILL_LOG_RUNTIME_METADATA_CALL; LOG_DYNAMIC passes its literals as pointers.
LogRuntimeMetadata(site) == RuntimeExpansion(site.copy)
LogDynamic(site) == RuntimeExpansion("Shallow")

\* quill::detail::log
LogFunction(site) == RuntimeExpansion("Hybrid")

MetricExpansion(site) == [compiled |-> TRUE, metadata |-> [NoMetadata EXCEPT !.event = "Metric"]]

Expanded(site) ==
  CASE site.macro = "TRACE_L3"  -> LogTraceL3(site)
    [] site.macro = "TRACE_L2"  -> LogTraceL2(site)
    [] site.macro = "TRACE_L1"  -> LogTraceL1(site)
    [] site.macro = "DEBUG"     -> LogDebug(site)
    [] site.macro = "INFO"      -> LogInfo(site)
    [] site.macro = "NOTICE"    -> LogNotice(site)
    [] site.macro = "WARNING"   -> LogWarning(site)
    [] site.macro = "ERROR"     -> LogError(site)
    [] site.macro = "CRITICAL"  -> LogCritical(site)
    [] site.macro = "BACKTRACE" -> LogBacktrace(site)
    [] site.macro = "RUNTIME"   -> LogRuntimeMetadata(site)
    [] site.macro = "DYNAMIC"   -> LogDynamic(site)
    [] site.macro = "FUNCTION"  -> LogFunction(site)
    [] site.macro = "METRIC"    -> MetricExpansion(site)

-----------------------------------------------------------------------------
(***************************************************************************)
(* The functions of LogFunctions.h, by the level they stand for.           *)
(***************************************************************************)

FunctionNames == [tracel3 |-> "TraceL3", tracel2 |-> "TraceL2", tracel1 |-> "TraceL1",
                  debug |-> "Debug", info |-> "Info", notice |-> "Notice", warning |-> "Warning",
                  error |-> "Error", critical |-> "Critical", backtrace |-> "Backtrace"]

\* log(logger, level, ...) is given its level.
FunctionLevel(site) ==
  IF site.called \in DOMAIN FunctionNames THEN Level(FunctionNames[site.called]) ELSE site.level

-----------------------------------------------------------------------------
(***************************************************************************)
(* The two limits.  A thread keeps two numbers for each site.              *)
(***************************************************************************)

NoLimit == [nextTime |-> 0, suppressed |-> 0, count |-> 0, nextAt |-> 0]

\* Whether the statement is logged at time now.
Passes(site, l, now) ==
  CASE site.limit = "none"  -> TRUE
    [] site.limit = "time"  -> now >= l.nextTime
    [] site.limit = "every" -> l.count = l.nextAt

\* The numbers after the call, whether the queue took the statement or not.
After(site, l, now) ==
  CASE site.limit = "none"  -> l
    [] site.limit = "time"  -> IF now < l.nextTime THEN [l EXCEPT !.suppressed = @ + 1]
                               ELSE [l EXCEPT !.nextTime = now + site.n, !.suppressed = 0]
    [] site.limit = "every" -> [l EXCEPT !.count = @ + 1,
                                         !.nextAt = IF l.count = l.nextAt THEN @ + site.n ELSE @]

\* A statement limited in time has one argument more: how often it was called.
Uint64 == [k |-> "arithmetic", width |-> 8]
TypesOf(site) == IF site.limit = "time" THEN Append(site.types, Uint64) ELSE site.types
ArgsOf(site, l, args) == IF site.limit = "time" THEN Append(args, l.suppressed + 1) ELSE args
=============================================================================
