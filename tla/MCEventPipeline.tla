-------------------------- MODULE MCEventPipeline --------------------------
(***************************************************************************)
(* EventPipeline for TLC: one small program for each kind of argument, and *)
(* one or more for each feature a statement can meet on its way.           *)
(***************************************************************************)
EXTENDS EventPipeline

MCDigits == [ms |-> 1, us |-> 2, ns |-> 3]

-----------------------------------------------------------------------------
(***************************************************************************)
(* Texts, as codes.                                                        *)
(***************************************************************************)

Field == <<OpenBrace, CloseBrace>>
Fields(n) == FlattenSeq([i \in 1..n |-> Field])
x == <<120>>
y == <<121>>
occurred == <<111, 99, 99, 117, 114, 114, 101, 100>>
Named(name) == <<OpenBrace>> \o name \o <<CloseBrace>>
Key(name) == [name |-> name, spec |-> <<>>]
Width5 == <<Colon, 53>>
Here == <<100, Slash, 102, Colon, 55>>
There == <<46, 46, Slash, 101, Colon, 49, 50>>

MCLiterals == << <<97>> \o Field, <<112, Slash, 113>>, <<103>>, <<35, 116, 32>>, <<98>> \o Named(x), <<>>, <<97>> >>

-----------------------------------------------------------------------------
(***************************************************************************)
(* Programs.                                                               *)
(***************************************************************************)

Utc == [local |-> FALSE, change |-> 0, before |-> 0, after |-> 0]
Summer == [local |-> TRUE, change |-> 7200, before |-> 3600, after |-> 7200]

Attr(name) == <<"attr", name, 0>>

Default ==
  [pattern |-> <<Attr("time"), Char(32), <<"attr", "log_level", 3>>, Attr("logger"), Attr("short_source_location"),
                 Char(32), Attr("message")>>,
   suffix |-> Newline, time |-> <<"%H", ":", "%M", ":", "%S", ".", "%Qns">>, zone |-> Utc,
   multiline |-> TRUE, relative |-> FALSE, strip |-> <<>>]

Everything ==
  [Default EXCEPT !.pattern = <<Open, Open, Attr("file_name"), Attr("caller_function"), Attr("log_level_short_code"),
                                Attr("line_number"), Close, Attr("full_path"), Attr("source_location"),
                                Attr("message"), Open, Attr("mdc"), Attr("tags"), Attr("named_args"),
                                Attr("thread_id"), Attr("thread_name"), Attr("process_id")>>,
                  !.suffix = NoSuffix, !.relative = TRUE]

Stream == [kind |-> "stream", override |-> Null, before |-> FALSE, open |-> TRUE, throws |-> FALSE,
           rotates |-> FALSE, flushFails |-> FALSE]
Logger(options, sinkList) ==
  [level |-> Level("TraceL3"), options |-> options, sinks |-> sinkList, userClock |-> FALSE]

Site == [macro |-> "INFO", form |-> "LOG", limit |-> "none", n |-> 0, text |-> <<97>>, names |-> <<>>,
         tags |-> <<>>, types |-> <<>>, location |-> Here, function |-> <<103>>, copy |-> "Deep",
         plain |-> <<97>>, keys |-> <<>>, called |-> "log", level |-> Level("Info"), file |-> Null, line |-> 0]

Fmt(macro, text, types) == [Site EXCEPT !.macro = macro, !.text = text, !.plain = text, !.types = types]

Says(site, args, time) ==
  [op |-> "log", site |-> site, args |-> args, logger |-> 1, at |-> time, steady |-> time]
Info(time) == Says(Site, <<>>, time)
By(logger, call) == [call EXCEPT !.logger = logger]
RunsWith(site, types, args, time) ==
  [op |-> "runtime", site |-> site, args |-> args, types |-> types, logger |-> 1, at |-> time]
Mdc(event, args) ==
  [op |-> "mdc", event |-> event, args |-> args, types |-> [i \in DOMAIN args |-> [k |-> "string"]],
   logger |-> 1, at |-> 1]
Control(op, event) == [op |-> op, event |-> event, logger |-> 1, at |-> 1, args |-> <<>>, types |-> <<>>]
InitBacktrace(size, level) ==
  [op |-> "initBacktrace", event |-> "InitBacktrace", logger |-> 1, at |-> 1, capacity |-> size, level |-> Level(level)]
Sample(m, value) ==
  [op |-> "metric", site |-> [Site EXCEPT !.macro = "METRIC"], metric |-> m, value |-> value, logger |-> 1, at |-> 1]

Program ==
  [loggers |-> <<Logger(Default, <<1>>)>>, sinks |-> <<Stream>>, calls |-> <<>>, admin |-> <<>>,
   queue |-> [capacity |-> 512, dropping |-> FALSE], threshold |-> 0, sanitize |-> FALSE,
   monotonic |-> FALSE, grace |-> FALSE, exposer |-> Null, mdcPattern |-> <<32, 91>> \o Field \o <<58>> \o Field \o <<44, 32, 93>>]

-----------------------------------------------------------------------------
(***************************************************************************)
(* Arguments: types with a value.                                          *)
(***************************************************************************)

Int4 == [k |-> "arithmetic", width |-> 4]
Byte == [k |-> "arithmetic", width |-> 1]
Str == [k |-> "string"]
CStr == [k |-> "cstring"]
Of(kind, elem) == [k |-> kind, elem |-> elem]
Two(kind, a, b) == [k |-> kind, first |-> a, second |-> b]
Object(memcpy, align, throws) ==
  [k |-> "object", width |-> 4, align |-> align, memcpy |-> memcpy, throws |-> throws]
Variant(stored) == [k |-> "variant", types |-> <<Int4, Str, [k |-> "monostate"]>>, stored |-> stored]

Values ==
  << <<Int4, 70000>>, <<[k |-> "enum", width |-> 1], 3>>, <<CStr, <<104, 105>> >>, <<CStr, Null>>,
     <<CStr, <<97, 98, 99, 100, 101, 102>> >>, <<Str, <<104, 0, 105>> >>, <<Str, <<97, 98, 99, 100, 101, 102>> >>,
     <<[k |-> "chars", n |-> 3], <<97, 0, 98>> >>, <<[k |-> "chars", n |-> 3], <<97, 98, 99>> >>,
     <<[k |-> "array", elem |-> Byte, n |-> 2], <<1, 2>> >>, <<[k |-> "array", elem |-> Str, n |-> 1], << <<97>> >> >>,
     <<[k |-> "stdarray", elem |-> Byte, n |-> 2], <<1, 2>> >>, <<[k |-> "stdarray", elem |-> CStr, n |-> 0], <<>> >>,
     <<Of("vector", Int4), <<1, 2>> >>, <<Of("vector", CStr), << <<97>>, Null>> >>, <<Of("vector", Of("vector", Byte)), << <<1>>, <<>> >> >>,
     <<Of("deque", Str), << <<97>>, <<>> >> >>, <<Of("list", Byte), <<3>> >>, <<Of("forwardlist", Byte), <<3, 4>> >>,
     <<Of("forwardlist", CStr), << <<97>> >> >>, <<Of("set", Byte), <<1, 2>> >>, <<Of("hashset", Byte), <<2, 1>> >>,
     <<Two("map", Byte, Byte), << <<1, 2>> >> >>, <<Two("map", Str, CStr), << << <<97>>, <<98>> >> >> >>,
     <<Two("hashmap", Byte, Str), << <<2, <<97>> >> >> >>, <<Two("pair", CStr, Int4), << <<97>>, 5>> >>,
     <<[k |-> "tuple", types |-> <<CStr, Byte, Str>>], << <<97>>, 1, <<98>> >> >>,
     <<[k |-> "members", types |-> <<Byte, CStr, Of("vector", Byte)>>], <<1, <<97>>, <<2, 3>> >> >>,
     <<Of("complex", Int4), <<1, 2>> >>, <<Of("optional", CStr), Null>>, <<Of("optional", CStr), << <<97>> >> >>,
     <<[k |-> "bitset", n |-> 9], {0, 8}>>, <<Object(TRUE, 1, FALSE), 9>>, <<Object(FALSE, 8, FALSE), 9>>,
     <<Object(FALSE, 4, TRUE), 9>>, <<Variant(Null), <<1, <<97>> >> >>, <<Variant(Null), <<2, Null>> >>, <<Variant(Null), Null>>,
     <<Variant(Object(FALSE, 4, FALSE)), Null>>, <<[k |-> "direct"], <<97, 98, 99, 100, 101>> >>,
     <<[k |-> "binary"], <<1, 200>> >>, <<[k |-> "binary"], Null>>, <<[k |-> "stringref"], [data |-> 7, size |-> 2]>>,
     <<[k |-> "path"], <<112>> >>,
     <<[k |-> "errorcode"], [value |-> 2, category |-> <<99>>, message |-> <<110, 111, 116, 32, 111>>]>> >>

\* The value by itself, and behind values that leave it at an odd address and
\* with a place in the cache of sizes; a statement that needs no cache comes last.
Argument(v) ==
  [Program EXCEPT !.threshold = 1, !.calls =
     <<Says(Fmt("INFO", Fields(1), <<v[1]>>), <<v[2]>>, 1),
       Says(Fmt("DEBUG", Fields(4), <<CStr, Byte, v[1], CStr>>), << <<97, 98>>, 1, v[2], <<99>> >>, 2)>>]

-----------------------------------------------------------------------------
(***************************************************************************)
(* Features.                                                               *)
(***************************************************************************)

Limited10 == [Fmt("WARNING", Field, <<Byte>>) EXCEPT !.limit = "time", !.n = 10]
Every2 == [Fmt("ERROR", Field, <<CStr>>) EXCEPT !.limit = "every", !.n = 2, !.location = There]
Limits ==
  [Program EXCEPT !.calls =
     <<Says(Limited10, <<1>>, 1), Says(Limited10, <<2>>, 5), Says(Limited10, <<3>>, 9), Says(Every2, << <<97>> >>, 10),
       Says(Limited10, <<4>>, 12), Says(Every2, << <<98>> >>, 13), Says(Every2, << <<99>> >>, 14),
       Says(Limited10, <<5>>, 30)>>]

\* Names, in a macro that lists them and in a text; one twice, one with a width,
\* more arguments than names, and a number of occurrences.
Json == [Stream EXCEPT !.kind = "json"]
Listed == [Site EXCEPT !.form = "LOGJ", !.names = <<x, y>>, !.types = <<Byte, CStr>>,
                       !.plain = <<97, 32>> \o Field \o <<44, 32>> \o Field, !.keys = <<Key(x), Key(y)>>]
Twice == [Site EXCEPT !.text = Named(x) \o Named(x \o Width5) \o <<OpenBrace, OpenBrace>>, !.types = <<Byte, Byte, CStr>>,
                      !.plain = Field \o <<OpenBrace>> \o Width5 \o <<CloseBrace>> \o <<OpenBrace, OpenBrace>>,
                      !.keys = <<Key(x), [name |-> x \o <<95, 49>>, spec |-> Width5], Key(<<95, 50>>)>>]
Counted == [Site EXCEPT !.text = Named(occurred), !.types = <<Byte>>, !.limit = "time", !.n = 5,
                        !.plain = Field, !.keys = <<Key(occurred), Key(occurred \o <<95, 49>>)>>]
Reserved == [Site EXCEPT !.text = Named(<<108, 105, 110, 101>>), !.types = <<CStr>>, !.plain = Field,
                         !.keys = <<Key(<<108, 105, 110, 101>>)>>]
NamedArgs ==
  [Program EXCEPT !.loggers = <<Logger(Everything, <<1, 2>>)>>, !.sinks = <<Stream, Json>>, !.sanitize = TRUE,
     !.calls = <<Says(Listed, <<1, <<1, 34>> >>, 1), Says(Twice, <<1, 2, <<98>> >>, 2), Info(3),
                 Says(Listed, <<2, <<10, 98>> >>, 4)>>]
NamedLimits ==
  [NamedArgs EXCEPT !.calls = <<Says(Counted, <<1>>, 1), Says(Counted, <<2>>, 2), Says(Counted, <<3>>, 9),
                                Says(Reserved, << <<226, 128, 168, 92>> >>, 10)>>]
Shown == [Site EXCEPT !.form = "LOGV", !.names = <<x>>, !.types = <<Byte>>, !.macro = "NOTICE", !.tags = << <<116>>, <<117>> >>,
                      !.plain = <<97, 32, 91>> \o x \o <<58, 32>> \o Field \o <<93>>]
TwoLines == Fmt("TRACE_L2", <<97, 10, 98, 10>>, <<>>)
Texts ==
  [Program EXCEPT !.loggers = <<Logger(Default, <<1>>), Logger(Everything, <<1>>)>>,
     !.calls = <<Says(Shown, <<1>>, 1), Says(Fmt("TRACE_L3", <<OpenBrace>>, <<>>), <<>>, 2),
                 Says(TwoLines, <<>>, 3), By(2, Says(TwoLines, <<>>, 4)), Says(Fmt("CRITICAL", <<>>, <<>>), <<>>, 5),
                 Says(Fmt("TRACE_L1", <<10>>, <<>>), <<>>, 5)>>]

\* Metadata at run time, in turns with metadata of call sites.
Runtime1(copy) ==
  [Site EXCEPT !.macro = "RUNTIME", !.copy = copy, !.text = <<97>> \o Field, !.plain = <<97>> \o Field,
               !.file = <<112, Slash, 113>>, !.line = 12, !.tags = << <<116>> >>]
Runtime2(copy) ==
  [Site EXCEPT !.macro = "RUNTIME", !.copy = copy, !.text = <<98>> \o Named(x), !.plain = <<98>> \o Field, !.keys = <<Key(x)>>,
               !.tags = Null, !.level = Level("Warning")]
Function(name) ==
  [Runtime1("Hybrid") EXCEPT !.macro = "FUNCTION", !.called = name, !.tags = << <<116>>, Null>>]
RuntimeMetadata(copy) ==
  [Program EXCEPT !.loggers = <<Logger(Everything, <<1>>)>>,
     !.calls = <<RunsWith(Runtime1(copy), <<Byte>>, <<1>>, 1), Says(Twice, <<1, 2, <<98>> >>, 2),
                 RunsWith(Runtime2(copy), <<CStr>>, << <<97>> >>, 3), RunsWith(Runtime1(copy), <<Byte>>, <<2>>, 4), Info(5)>>]
Functions1 ==
  [RuntimeMetadata("Deep") EXCEPT
     !.calls = <<RunsWith(Function("error"), <<CStr>>, << <<97>> >>, 1), Info(2), RunsWith(Function("log"), <<Byte>>, <<1>>, 3),
                 RunsWith([Runtime1("Shallow") EXCEPT !.macro = "DYNAMIC", !.level = Level("Debug")], <<Byte>>, <<1>>, 4)>>]

Contexts ==
  [Program EXCEPT !.loggers = <<Logger(Everything, <<1>>)>>,
     !.calls = <<Mdc("MdcSet", <<y, <<98>>, x, <<97>> >>), Info(1), Mdc("MdcErase", <<y>>), Info(2), Mdc("MdcSet", <<x, <<99>> >>),
                 Mdc("MdcErase", <<x>>), Info(3), Mdc("MdcClear", <<>>), Info(4)>>]

Trace(i) == Says(Fmt("BACKTRACE", Field, <<Byte>>), <<i>>, i)
Severe == Says(Fmt("ERROR", <<98>>, <<>>), <<>>, 9)
Flushes == Control("flushBacktrace", "FlushBacktrace")
Backtraces ==
  << [Program EXCEPT !.calls = <<Trace(1), Flushes, InitBacktrace(2, "Error"), Trace(2), Trace(3), Trace(4), Severe, Trace(5), Flushes, Flushes>>],
     [Program EXCEPT !.calls = <<InitBacktrace(3, "None"), Trace(2), Trace(3), InitBacktrace(3, "Info"), Trace(4), Trace(5), Info(6)>>],
     [Program EXCEPT !.calls = <<InitBacktrace(1, "Info"), Trace(2), InitBacktrace(0, "Info"), Trace(3), InitBacktrace(2, "Error"), Trace(3), Flushes>>],
     [Program EXCEPT !.calls = <<InitBacktrace(2, "Info"), Trace(2), RunsWith([Runtime1("Deep") EXCEPT !.level = Level("Backtrace")], <<Byte>>, <<1>>, 3),
                                 Trace(4), Info(5)>>, !.loggers = <<Logger(Everything, <<1>>)>>],
     [Program EXCEPT !.loggers = <<Logger([Default EXCEPT !.pattern = <<Attr("message"), Attr("message")>>], <<1>>), Logger(Default, <<1>>)>>,
                     !.calls = <<InitBacktrace(2, "Info"), Trace(2), Info(3), Flushes, By(2, Info(4))>>] >>

\* QUILL_LOG_LEVEL, corrected after an attempt to create the logger was refused.
Creates(value) == [op |-> "create", value |-> value, logger |-> 1]
Created(values) ==
  [Program EXCEPT !.calls = [i \in DOMAIN values |-> Creates(values[i])]
                            \o <<Info(1), Says(Fmt("DEBUG", <<98>>, <<>>), <<>>, 2), Says(Fmt("WARNING", <<98>>, <<>>), <<>>, 3),
                                 Severe>>]
Environments ==
  <<Created(<<"verbose", "backtrace", "warn", "debug">>), Created(<<"">>), Created(<<"backtrace", "trace_l1">>),
    Created(<<"none">>)>>

Flush == Control("flush", "Flush")
Flushing ==
  << [Program EXCEPT !.threshold = 2, !.calls = <<Info(1), Info(2), Info(3)>>],
     [Program EXCEPT !.threshold = 1, !.calls = <<Info(1), Says(Fmt("INFO", Field, <<CStr>>), << <<97>> >>, 2)>>, !.queue.capacity = 64],
     [Program EXCEPT !.threshold = 1, !.calls = <<Info(1), Info(2)>>, !.queue.capacity = 36],
     [Program EXCEPT !.calls = <<Info(1), Flush, Info(2)>>, !.grace = TRUE] >>

Long == Says(Fmt("INFO", Field, <<Str>>), << <<97, 98, 99, 100, 101, 102>> >>, 2)
Queues ==
  << [Program EXCEPT !.queue = [capacity |-> 64, dropping |-> FALSE], !.calls = <<Info(1), Long, Info(3)>>],
     [Program EXCEPT !.queue = [capacity |-> 64, dropping |-> TRUE], !.calls = <<Info(1), Long, Flush, Long, Info(3)>>],
     [Program EXCEPT !.queue = [capacity |-> 36, dropping |-> FALSE], !.calls = <<Info(1), Long, Info(3)>>],
     [Program EXCEPT !.grace = TRUE, !.calls = <<RunsWith(Runtime1("Deep"), <<Byte>>, <<1>>, 1), Info(2),
                                                 RunsWith(Runtime1("Deep"), <<Byte>>, <<1>>, 3), [op |-> "shrink"], Info(4),
                                                 Info(5)>>] >>

Only(name, accepted) == [name |-> name, accepts |-> {Level(l) : l \in accepted}]
Filters ==
  << [Program EXCEPT !.calls = <<Info(1), Severe, Info(3)>>,
        !.admin = <<[op |-> "filter", sink |-> 1, filter |-> Only("f", {"Info", "Error"})],
                    [op |-> "filter", sink |-> 1, filter |-> Only("f", {})],
                    [op |-> "filter", sink |-> 1, filter |-> Only("g", {"Error"})]>>],
     [Program EXCEPT !.calls = <<Info(1), Severe, Info(3)>>, !.loggers = <<Logger(Default, <<1, 2>>)>>,
        !.sinks = <<Stream, [Stream EXCEPT !.throws = TRUE]>>,
        !.admin = <<[op |-> "level", logger |-> 1, level |-> Level("Error")],
                    [op |-> "level", logger |-> 1, level |-> Level("Backtrace")],
                    [op |-> "sinkLevel", sink |-> 1, level |-> Level("Critical")],
                    [op |-> "level", logger |-> 1, level |-> Level("Info")]>>] >>

\* Times: over noon, back in time, over a change of local time, through second
\* counts of different lengths.
Clock(format, zone) == [Default EXCEPT !.time = format, !.zone = zone]
Seconds(times) == [i \in DOMAIN times |-> Info(times[i] * 1000 + i)]
Step == [Program EXCEPT !.threshold = 1]
Times ==
  << [Step EXCEPT !.loggers = <<Logger(Clock(<<"%d", " ", "%r", "%Qms">>, Utc), <<1>>)>>,
        !.calls = Seconds(<<43199, 43200, 43199, 46861, 46862>>)],
     [Step EXCEPT !.loggers = <<Logger(Clock(<<"%T", " ", "%k", "%l", "%Qus", "%R", "%S">>, Utc), <<1>>)>>,
        !.calls = Seconds(<<3599, 3600, 86399, 86400>>)],
     [Step EXCEPT !.loggers = <<Logger(Clock(<<"%H", "%M", "%I", " ", "%d", "%p">>, Summer), <<1>>)>>,
        !.calls = Seconds(<<7199, 7200, 7260, 7259>>)],
     [Step EXCEPT !.loggers = <<Logger(Clock(<<"%s", "%Qns", "%M">>, Utc), <<1>>)>>, !.calls = Seconds(<<99, 100, 101>>)],
     [Program EXCEPT !.loggers = <<Logger(Clock(<<"%Y">>, Utc), <<1>>), Logger(Clock(<<"%Y">>, Utc), <<2, 1>>)>>,
        !.sinks = <<Stream, [Stream EXCEPT !.override = Clock(<<"%X">>, Utc)]>>,
        !.calls = <<Info(1), By(2, Info(2)), Info(3)>>],
     [Program EXCEPT !.loggers = <<[Logger(Default, <<1>>) EXCEPT !.userClock = TRUE]>>, !.monotonic = TRUE, !.grace = TRUE,
        !.calls = <<Info(5000), Info(4000), Info(5001), Trace(3), Info(9000)>>] >>

Console(mode, terminal, term, palette) ==
  [kind |-> "console", mode |-> mode, terminal |-> terminal, term |-> term, palette |-> palette] @@ Stream
Own7 == <<[level |-> Level("Error"), colour |-> "blue"]>>
Service(kind, format, levels_) ==
  [kind |-> kind, format |-> format, levels |-> levels_, identifier |-> Null, tag |-> "quill"] @@ Stream
Kinds ==
  << Stream, [Stream EXCEPT !.before = TRUE], [Stream EXCEPT !.open = FALSE], Json, [Json EXCEPT !.rotates = TRUE],
     [Stream EXCEPT !.kind = "null"],
     Console("Automatic", TRUE, {"xterm", "color"}, <<>>), Console("Automatic", TRUE, {}, <<>>),
     Console("Automatic", TRUE, Null, <<>>), Console("Never", TRUE, {"linux"}, Own7),
     [Console("Always", FALSE, Null, Own7) EXCEPT !.before = TRUE],
     [Console("Always", FALSE, Null, <<>>) EXCEPT !.open = FALSE],
     Service("syslog", TRUE, SyslogLevels), Service("syslog", FALSE, Reverse(SyslogLevels)),
     Service("systemd", FALSE, SystemdLevels), [Service("systemd", TRUE, SystemdLevels) EXCEPT !.identifier = "program"],
     Service("android", FALSE, AndroidLevels), Service("android", TRUE, AndroidLevels),
     [Stream EXCEPT !.override = [Everything EXCEPT !.strip = <<101>>], !.flushFails = TRUE],
     [Stream EXCEPT !.override = [Default EXCEPT !.pattern = <<>>]],
     [Stream EXCEPT !.override = [Default EXCEPT !.pattern = <<Attr("no")>>]] >>
SinkKind(config) ==
  [Program EXCEPT !.threshold = 1, !.sinks = <<config>>, !.calls = <<Says([Limited10 EXCEPT !.location = There], <<1>>, 1), Severe>>]

-----------------------------------------------------------------------------
(***************************************************************************)
(* Metrics.                                                                *)
(***************************************************************************)

Metric(key, name, labels) == [key |-> key, name |-> name, labels |-> labels]
ma == Metric("a", "m", << <<"l", "1">> >>)
mb == Metric("b", "m", << <<"l", "2">> >>)
mc == Metric("c", "m", << <<"l", "1">> >>)
md == Metric("d", "n", << <<"l", "1">>, <<"l", "2">> >>)
Create(m) == [op |-> "create", metric |-> m]
Register(op, key, help) == [op |-> op, key |-> key, help |-> help, constant |-> << <<"k", "v">> >>,
                            mode |-> "Sub", buckets |-> LinearBuckets(1, 2, 3)]
Exported(calls, steps) ==
  [Program EXCEPT !.sinks = <<[Stream EXCEPT !.kind = "prometheus"]>>, !.calls = calls, !.admin = steps]
Metrics ==
  << Exported(<<Sample(ma, 1), Sample(mb, 2), Sample(ma, 3)>>,
              <<Create(ma), Register("counter", "a", "h"), [op |-> "createOrGet", metric |-> mb], Register("counter", "b", "h"),
                [op |-> "unregisterKey", key |-> "a"], Register("counter", "a", "h")>>),
     Exported(<<Sample(ma, 1), Info(2), Sample(ma, 3)>>,
              <<Create(ma), Create(mc), Register("gauge", "a", "h"), Register("gauge", "c", "h"), Register("gauge", "c", "other"),
                [op |-> "unregister", key |-> "a"], [Register("gauge", "a", "h") EXCEPT !.mode = "Set"]>>),
     Exported(<<Sample(ma, 1), Sample(mb, 3)>>,
              <<Create(ma), Create(mb), Create(md), Register("counter", "d", "h"),
                [Register("histogram", "a", "h") EXCEPT !.buckets = <<2, 1>>],
                [Register("histogram", "b", "h") EXCEPT !.buckets = ExponentialBuckets(1, 2, 3)],
                Register("summary", "a", "h"), [op |-> "unregisterKey", key |-> "b"], [op |-> "unregisterKey", key |-> "b"]>>),
     Exported(<<Sample(ma, 1)>>, <<Create(ma), Register("summary", "a", "h"), Create([ma EXCEPT !.name = ""])>>) >>

\* Exposers, by address and by options: a port, any port, any port that the server does
\* not tell, a port alone, no port, a secure port, two ports, no option for it, an odd number
\* of options, and two configurations that are refused.
Host == <<104, Colon>>
Exposer(address, options, ports) ==
  [address |-> address, options |-> options, uri |-> <<Slash, 109>>, ports |-> ports]
ByOptions(value, ports) == Exposer(<<>>, <<"num_threads", <<50>>, "listening_ports", value>>, ports)
Exposers ==
  <<Exposer(Host \o <<56, 48>>, <<>>, <<80>>), Exposer(Host \o <<48, 48>>, <<>>, <<4001>>), Exposer(Host \o <<48>>, <<>>, <<>>),
    Exposer(<<56, 48>>, <<>>, <<80>>), Exposer(<<104>>, <<>>, <<>>), Exposer(Host, <<>>, <<>>),
    ByOptions(<<91, 58, 58, 49, 93, 58, 48>>, <<4001>>), ByOptions(Host \o <<56, 115>>, <<8>>),
    ByOptions(Host \o <<48, Comma>> \o Host \o <<56>>, <<4001, 8>>), ByOptions(<<Colon, 48>>, <<4001>>),
    Exposer(<<>>, <<"num_threads", <<50>> >>, <<>>), Exposer(<<>>, <<"num_threads", <<50>>, "listening_ports">>, <<>>),
    Exposer(<<>>, <<>>, <<>>), [Exposer(Host \o <<56>>, <<>>, <<8>>) EXCEPT !.uri = <<>>]>>

MCWorkloads ==
  [i \in DOMAIN Values |-> Argument(Values[i])]
  \o <<Limits, NamedArgs, NamedLimits, Texts, RuntimeMetadata("Deep"), RuntimeMetadata("Shallow"), RuntimeMetadata("Hybrid"),
       Functions1, Contexts>>
  \o Backtraces \o Environments \o Flushing \o Queues \o Filters \o Times
  \o [i \in DOMAIN Kinds |-> SinkKind(Kinds[i])] \o Metrics
  \o [i \in DOMAIN Exposers |-> [Metrics[1] EXCEPT !.exposer = Exposers[i], !.calls = <<Sample(ma, 1)>>, !.admin = SubSeq(@, 1, 2)]]
=============================================================================
