-------------------------------- MODULE Sinks --------------------------------
(***************************************************************************)
(* What every sink has, a level and filters (sinks/Sink.h, filters/        *)
(* Filter.h), and what the sinks make of a statement: streams and files,   *)
(* JSON, the console, syslog, systemd, Android and the null sink, on       *)
(* systems other than Windows.                                             *)
(*                                                                         *)
(* A sink is its configuration and its state.  out is what the last call   *)
(* of write_log handed to the stream or to the logging service of the      *)
(* system.  The size of the file is counted in module FileSink.            *)
(***************************************************************************)
EXTENDS PatternFormatter

CONSTANT IntMax  \* INT_MAX in the code

-----------------------------------------------------------------------------
(***************************************************************************)
(* Colours of the console: a table by level, whether they are wanted and   *)
(* whether the output shows them.                                          *)
(***************************************************************************)

AssignColour(colours, level, colour) ==
  [colours EXCEPT !.table[level] = colour, !.enabled = TRUE]

DefaultColours ==
  LET default == <<"white", "white", "white", "cyan", "green", "white_bold", "yellow_bold", "red_bold",
                   "bold_on_red", "magenta">>
  IN  FoldLeftDomain(LAMBDA c, i : AssignColour(c, i - 1, default[i]),
                     [table |-> [l \in 0..10 |-> ""], enabled |-> TRUE, supported |-> FALSE], default)

SetColoursEnabled(colours, value) == [colours EXCEPT !.enabled = value]
ColoursEnabled(colours) == colours.supported /\ colours.enabled

\* _supports_colour_output: TERM is set and contains the name of a terminal with
\* colours; term is the set of names of terminals in it.
Terms == {"ansi", "color", "console", "cygwin", "gnome", "konsole", "kterm", "linux", "msys", "putty", "rxvt",
          "screen", "vt100", "xterm", "tmux", "terminator", "alacritty", "gnome-terminal", "xfce4-terminal",
          "lxterminal", "mate-terminal", "uxterm", "eterm", "tilix", "rxvt-unicode", "kde-konsole"}
SupportsColourOutput(term) == term # Null /\ term \cap Terms # {}

ConfigureColourSupport(colours, config) ==
  [colours EXCEPT !.supported =
     CASE config.mode = "Always" -> TRUE
       [] config.mode = "Automatic" -> config.terminal /\ SupportsColourOutput(config.term)
       [] OTHER -> FALSE]

\* The constructor of ConsoleSink, with the colours the program assigned.  (A
\* stream that is not stdout or stderr throws: there is no sink then.)
ConsoleColours(config) ==
  LET assigned == FoldLeft(LAMBDA c, a : AssignColour(c, a.level, a.colour), DefaultColours, config.palette)
  IN  IF config.mode = "Never" THEN SetColoursEnabled(assigned, FALSE)
      ELSE SetColoursEnabled(ConfigureColourSupport(assigned, config), TRUE)

NewSink(config) ==
  [config |-> config, level |-> Level("TraceL3"), local |-> <<>>, global |-> <<>>, new |-> FALSE,
   colours |-> IF config.kind = "console" THEN ConsoleColours(config) ELSE DefaultColours,
   out |-> <<>>, occurred |-> FALSE, estimate |-> Null]

-----------------------------------------------------------------------------
(***************************************************************************)
(* Filters.  A filter has a name and accepts some levels.                  *)
(***************************************************************************)

SetLogLevelFilter(sink, level) == [sink EXCEPT !.level = level]

\* Mutant: the backend is not told of the filter.
AddFilterUnannounced(sink, filter) ==
  IF \E i \in DOMAIN sink.global : sink.global[i].name = filter.name THEN sink
  ELSE [sink EXCEPT !.global = Append(@, filter)]

\* add_filter, under the lock; a second filter of the same name throws (as does no
\* filter at all, before the lock).
AddFilter(sink, filter) ==
  IF \E i \in DOMAIN sink.global : sink.global[i].name = filter.name THEN sink
  ELSE [sink EXCEPT !.global = Append(@, filter), !.new = TRUE]

\* The first half of _apply_all_user_filters: the flag is taken back and the
\* local filters are dropped, before the lock.
TakeNewFilter(sink) == [sink EXCEPT !.new = FALSE, !.local = <<>>]

\* Under the lock: the filters as they are now.
CopyFilters(sink) == [sink EXCEPT !.local = sink.global]

Accepts(filters, level) == \A i \in DOMAIN filters : level \in filters[i].accepts

-----------------------------------------------------------------------------
(***************************************************************************)
(* Streams and files.  A sink that has no file writes nothing: "/dev/null" *)
(* is not opened, and a file that was deleted may not open again.          *)
(***************************************************************************)

\* safe_fwrite: goes on after a part was written; an error throws (see Write).
SafeFwrite(sink, text) == [sink EXCEPT !.out = @ \o text]
WriteStatement(sink, statement) == [SafeFwrite(sink, statement) EXCEPT !.occurred = TRUE]

\* The before_write callback: here one that marks the statement.
BeforeWrite(config, statement) ==
  IF config.before THEN << <<"text", "before">> >> \o statement ELSE statement

StreamWrite(sink, statement) ==
  IF ~sink.config.open THEN sink ELSE WriteStatement(sink, BeforeWrite(sink.config, statement))

\* flush: an interrupted fflush is repeated, a failing one throws and leaves the flag.
FlushStream(sink) == IF sink.config.flushFails THEN sink ELSE [sink EXCEPT !.occurred = FALSE]

\* flush_sink: nothing to do if nothing was written.  The sinks of the system's
\* services have nothing to flush.
FlushSink(sink) == IF ~sink.occurred \/ ~sink.config.open THEN sink ELSE FlushStream(sink)

\* The colour ends before the newline, which is looked for after the callback.
ConsoleWrite(sink, level, statement) ==
  LET line == BeforeWrite(sink.config, statement)
      newline == line # <<>> /\ Last(line) = Newline
      coloured == SafeFwrite(sink, << <<"colour", sink.colours.table[level]>> >>)
      written == WriteStatement(coloured, IF newline THEN Front(line) ELSE line)
      reset == SafeFwrite(written, << <<"colour", "reset">> >>)
  IN  IF ~sink.config.open THEN sink
      ELSE IF ~ColoursEnabled(sink.colours) THEN StreamWrite(sink, statement)
      ELSE IF newline THEN SafeFwrite(reset, <<Newline>>) ELSE reset

-----------------------------------------------------------------------------
(***************************************************************************)
(* The logging services of the system.  Their parameters are the calls of  *)
(* syslog, sd_journal_send and __android_log_print.  config.levels maps    *)
(* levels, by default as below.  What openlog keeps for the process is not *)
(* modelled.                                                               *)
(***************************************************************************)

SyslogLevels == <<"DEBUG", "DEBUG", "DEBUG", "DEBUG", "INFO", "NOTICE", "WARNING", "ERR", "CRIT",
                  "INFO", "INFO">>
SystemdLevels == SyslogLevels
AndroidLevels == <<"VERBOSE", "VERBOSE", "VERBOSE", "DEBUG", "INFO", "INFO", "WARN", "ERROR", "FATAL",
                   "INFO", "INFO">>
Priority(config, level) == <<"priority", config.levels[level + 1]>>

\* The message or the statement, at most as long as an int can say.
Limited(config, message, statement) ==
  LET text == IF config.format THEN statement ELSE message
  IN  SubSeq(text, 1, IF Len(text) > IntMax THEN IntMax ELSE Len(text))

SyslogWrite(sink, level, message, statement) ==
  LET config == sink.config
  IN  [sink EXCEPT !.out = <<Priority(config, level)>> \o Limited(config, message, statement)]

SystemdWrite(sink, e, level, message, statement) ==
  LET config == sink.config
      identifier == IF config.identifier = Null THEN e.logger ELSE config.identifier
  IN  [sink EXCEPT !.out =
         Limited(config, message, statement)
         \o <<Priority(config, level), <<"thread_id">>, <<"identifier", identifier>>,
              <<"file", FileName(e.metadata.location)>>, <<"line", LineOf(e.metadata.location)>>,
              <<"function", e.metadata.function>> >>]

AndroidWrite(sink, level, message, statement) ==
  LET config == sink.config
  IN  [sink EXCEPT !.out = <<Priority(config, level), <<"tag", config.tag>> >> \o Limited(config, message, statement)]

NullWrite(sink) == sink

-----------------------------------------------------------------------------
(***************************************************************************)
(* JSON.                                                                   *)
(***************************************************************************)

\* timestamp, file_name, line, thread_id, logger, log_level, message
ReservedKeys ==
  {<<116, 105, 109, 101, 115, 116, 97, 109, 112>>, <<102, 105, 108, 101, 95, 110, 97, 109, 101>>,
   <<108, 105, 110, 101>>, <<116, 104, 114, 101, 97, 100, 95, 105, 100>>,
   <<108, 111, 103, 103, 101, 114>>, <<108, 111, 103, 95, 108, 101, 118, 101, 108>>,
   <<109, 101, 115, 115, 97, 103, 101>>}

\* _append_json_escaped: quotes, backslashes, control characters, each with an
\* escape of its own, and two line separators, which are three bytes each.
JsonEscaped(text) ==
  LET code(i) == IF i \in DOMAIN text /\ text[i][1] = "char" THEN text[i][2] ELSE -1
      separator(i) == code(i) = 226 /\ code(i + 1) = 128 /\ code(i + 2) \in {168, 169}
      escape(i) ==
        CASE separator(i) -> << <<"escaped", code(i + 2)>> >>
          [] separator(i - 1) \/ separator(i - 2) -> <<>>
          [] code(i) \in 0..31 \cup {34, 92} -> << <<"escaped", code(i)>> >>
          [] OTHER -> <<text[i]>>
  IN  FlattenSeq([i \in DOMAIN text |-> escape(i)])

\* "occurred"
Occurred == <<111, 99, 99, 117, 114, 114, 101, 100>>

\* _normalized_message_format: the format on one line, with the occurrences of
\* a rate-limited statement.  It is handed on as a C string.
NormalizedFormat(e, message) ==
  LET m == e.metadata
      key == IF e.named = <<>> THEN Occurred ELSE Last(e.named).name
      text == IF ~m.rateLimited THEN Chars(m.format)
              ELSE IF ~m.named THEN message
              ELSE Chars(m.format) \o Chars(<<32, 40, OpenBrace>> \o key \o <<CloseBrace, 120, 41>>)
      nul == SelectInSeq(text, LAMBDA c : c = Char(0))
      line == IF nul = 0 THEN text ELSE SubSeq(text, 1, nul - 1)
  IN  [i \in DOMAIN line |-> IF line[i] = Newline THEN Char(32) ELSE line[i]]

\* The key of a named argument: one of the reserved gets the first number that
\* makes it unique.
JsonKey(key, named) ==
  LET taken == {named[i].name : i \in DOMAIN named}
      suffixed(n) == key \o <<95>> \o [i \in 1..Width(n) |-> 48 + Decimal(n)[i][2]]
      free == {n \in 1..Len(named) + 1 : suffixed(n) \notin taken}
  IN  IF key \notin ReservedKeys THEN key ELSE suffixed(CHOOSE n \in free : \A m \in free : n <= m)

\* generate_json_message, and the end of the line.  The time, the thread, the
\* logger and the level are tokens.
GenerateJson(e, level, message) ==
  << <<"timestamp", e.timestamp>>, <<"file_name">> >> \o JsonEscaped(Chars(FileName(e.metadata.location)))
  \o << <<"line">> >> \o JsonEscaped(Chars(LineOf(e.metadata.location)))
  \o << <<"thread_id">>, <<"logger", e.logger>>, <<"log_level", level>>, <<"message">> >>
  \o JsonEscaped(NormalizedFormat(e, message))
  \o FlattenSeq([i \in DOMAIN e.named |->
                   << <<"key">> >> \o JsonEscaped(Chars(JsonKey(e.named[i].name, e.named)))
                   \o << <<"value">> >> \o JsonEscaped(e.named[i].value)])
  \o << <<"text", "}">>, Newline>>

\* A sink that rotates asks for the size first; the message is made then, and kept.
EstimateWriteSize(sink, e, level, message) == [sink EXCEPT !.estimate = GenerateJson(e, level, message)]

DiscardWriteEstimate(sink) == [sink EXCEPT !.estimate = Null]

JsonWrite(sink, e, level, message) ==
  StreamWrite([sink EXCEPT !.estimate = Null],
              IF sink.estimate # Null THEN sink.estimate ELSE GenerateJson(e, level, message))

-----------------------------------------------------------------------------

\* write_log of a sink.
WriteLog(sink, e, level, message, statement) ==
  LET s == [sink EXCEPT !.out = <<>>]
  IN  CASE s.config.kind = "stream"  -> StreamWrite(s, statement)
        [] s.config.kind = "console" -> ConsoleWrite(s, level, statement)
        [] s.config.kind = "json"    -> JsonWrite(s, e, level, message)
        [] s.config.kind = "syslog"  -> SyslogWrite(s, level, message, statement)
        [] s.config.kind = "systemd" -> SystemdWrite(s, e, level, message, statement)
        [] s.config.kind = "android" -> AndroidWrite(s, level, message, statement)
        [] s.config.kind \in {"null", "prometheus"} -> NullWrite(s)

\* write_log of a sink that rotates by size: the rotation (see RotatingSink) may
\* throw, and the write is given up.
RotatingWrite(sink, e, level, message, statement, throws) ==
  LET estimated == EstimateWriteSize(sink, e, level, message)
  IN  IF throws THEN DiscardWriteEstimate(estimated) ELSE WriteLog(estimated, e, level, message, statement)
=============================================================================
