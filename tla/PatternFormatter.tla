-------------------------- MODULE PatternFormatter --------------------------
(***************************************************************************)
(* How an event becomes the line a sink writes (backend/PatternFormatter.h *)
(* and core/PatternFormatterOptions.h).  The pattern is rewritten as a     *)
(* format string of the fmt library and parsed once; a line is put         *)
(* together from its parts and the attributes the pattern names.           *)
(*                                                                         *)
(* A text is a sequence of tokens <<kind, ...>>: <<"char", code>>, numbers  *)
(* and other values, and in a pattern also <<"text", s>> for a literal and *)
(* <<"attr", name, width>>, which becomes <<"field", width>> for fmt.      *)
(***************************************************************************)
EXTENDS StringFromTime, MacroMetadata

Newline == Char(10)
Open == Char(OpenBrace)
Close == Char(CloseBrace)
NoSuffix == <<"text", "none">>

Attributes == {"time", "file_name", "caller_function", "log_level", "log_level_short_code",
               "line_number", "logger", "full_path", "thread_id", "thread_name", "process_id",
               "source_location", "short_source_location", "message", "mdc", "tags", "named_args"}

-----------------------------------------------------------------------------
(***************************************************************************)
(* The pattern.                                                            *)
(***************************************************************************)

\* A brace that is not doubled is doubled, so that fmt takes it literally.
EscapeBraces(pattern) ==
  LET step(acc, i) ==
        IF acc.skip THEN [acc EXCEPT !.out = Append(@, pattern[i]), !.skip = FALSE]
        ELSE IF pattern[i] \notin {Open, Close} THEN [acc EXCEPT !.out = Append(@, pattern[i])]
        ELSE IF i < Len(pattern) /\ pattern[i + 1] = pattern[i]
             THEN [acc EXCEPT !.out = Append(@, pattern[i]), !.skip = TRUE]
        ELSE [acc EXCEPT !.out = @ \o <<pattern[i], pattern[i]>>]
  IN  FoldLeftDomain(step, [out |-> <<>>, skip |-> FALSE], pattern).out

\* _generate_fmt_format_string: attributes become fields; order[i] is the attribute of field i.
GenerateFormat(options) ==
  LET suffix == IF options.suffix = NoSuffix THEN <<>> ELSE <<options.suffix>>
      escaped == EscapeBraces(options.pattern \o suffix)
      isAttr(token) == token[1] = "attr"
  IN  [format |-> [i \in DOMAIN escaped |->
                     IF isAttr(escaped[i]) THEN <<"field", escaped[i][3]>> ELSE escaped[i]],
       order |-> [i \in DOMAIN SelectSeq(escaped, isAttr) |-> SelectSeq(escaped, isAttr)[i][2]]]

\* A pattern with an unknown attribute, or one used twice, throws.
KnownOnce(order) == ToSet(order) \subseteq Attributes /\ Cardinality(ToSet(order)) = Len(order)
ValidPattern(options) == KnownOnce(GenerateFormat(options).order) /\ Accepted(options.time)

\* _set_pattern: fmt's parser calls back with literals and fields; doubled
\* braces arrive as one.
SetPattern(format, order) ==
  LET step(acc, token) ==
        IF acc.skip THEN [acc EXCEPT !.skip = FALSE]
        ELSE IF token[1] = "field"
             THEN [acc EXCEPT !.literal = <<>>,
                              !.parts = Append(@, [literal |-> acc.literal, width |-> token[2],
                                                   attr |-> order[Len(acc.parts) + 1]])]
        ELSE [acc EXCEPT !.literal = Append(@, token), !.skip = token \in {Open, Close}]
  IN  FoldLeft(step, [parts |-> <<>>, literal |-> <<>>, skip |-> FALSE], format)

\* The constructor.
WithPattern(options, pattern) ==
  [options |-> options, parts |-> pattern.parts, trailing |-> pattern.literal,
   inPattern |-> {pattern.parts[i].attr : i \in DOMAIN pattern.parts},
   values |-> [a \in Attributes |-> <<>>], time |-> NewTimestampFormatter(options.time, options.zone)]
NewPatternFormatter(options) ==
  WithPattern(options, SetPattern(GenerateFormat(options).format, GenerateFormat(options).order))

-----------------------------------------------------------------------------
(***************************************************************************)
(* The line.                                                               *)
(***************************************************************************)

\* _process_source_location_path
ProcessPath(path, options) ==
  LET up == LastOccurrence(path, <<46, 46, Slash>>)
      result == IF options.relative /\ up # 0 THEN SubSeq(path, up + 3, Len(path)) ELSE path
      prefix == IF options.strip = <<>> THEN 0 ELSE LastOccurrence(result, options.strip)
      after == prefix + Len(options.strip)
  IN  IF prefix = 0 THEN result
      ELSE IF after <= Len(result) /\ result[after] = Slash THEN SubSeq(result, after + 1, Len(result))
      ELSE SubSeq(result, after, Len(result))

\* Name, colon and value of each, with commas between them.
NamedArgsText(named) ==
  FlattenSeq([i \in DOMAIN named |->
                Chars(named[i].name) \o << <<"text", ": ">> >> \o named[i].value \o
                (IF i < Len(named) THEN << <<"text", ", ">> >> ELSE <<>>)])

\* The value of an attribute for event e and message msg.  Of the thread and the
\* process there is one.
Attribute(a, e, msg, time, options) ==
  CASE a = "time" -> time
    [] a = "file_name" -> Chars(FileName(e.metadata.location))
    [] a = "caller_function" -> Chars(e.metadata.function)
    [] a \in {"log_level", "log_level_short_code"} -> << <<a, e.metadata.level>> >>
    [] a = "line_number" -> Chars(LineOf(e.metadata.location))
    [] a = "logger" -> << <<a, e.logger>> >>
    [] a = "full_path" -> Chars(FullPath(e.metadata.location))
    [] a = "source_location" -> Chars(ProcessPath(e.metadata.location, options))
    [] a = "short_source_location" -> Chars(ShortLocation(e.metadata.location))
    [] a = "named_args" -> NamedArgsText(e.named)
    [] a = "mdc" -> e.mdc
    [] a = "tags" -> Chars(e.metadata.tags)
    [] a = "message" -> msg
    [] OTHER -> << <<a>> >>

\* fmt's width of a string: spaces on the right.
Pad(text, width) == text \o [i \in 1..(width - Len(text)) |-> <<"text", " ">>]

\* _format: only the attributes of the pattern are evaluated, the message
\* always; the line is appended to the buffer.
Joining(f, buffer) ==
  LET part(p) == p.literal \o Pad(f.values[p.attr], p.width)
  IN  [state |-> f,
       text |-> buffer \o FlattenSeq([i \in DOMAIN f.parts |-> part(f.parts[i])]) \o f.trailing]

Evaluated(f, e, msg, time) ==
  [f EXCEPT !.time = time.state,
            !.values = [a \in Attributes |->
                          IF a \in f.inPattern \cup {"message"}
                          THEN Attribute(a, e, msg, time.text, f.options) ELSE f.values[a]]]

FormatLine(f, e, msg, buffer) ==
  Joining(Evaluated(f, e, msg, IF "time" \in f.inPattern THEN FormatTimestamp(f.time, e.timestamp)
                               ELSE [state |-> f.time, text |-> <<>>]), buffer)

\* The lines of a message; the newline belongs to its line unless the suffix is one.
Lines(msg, keepNewline) ==
  LET step(acc, i) ==
        IF msg[i] # Newline THEN [acc EXCEPT !.line = Append(@, msg[i])]
        ELSE [lines |-> Append(acc.lines, IF keepNewline THEN Append(acc.line, Newline) ELSE acc.line),
              line |-> <<>>]
      split == FoldLeftDomain(step, [lines |-> <<>>, line |-> <<>>], msg)
  IN  IF split.line = <<>> THEN split.lines ELSE Append(split.lines, split.line)

\* format: the state and the text of the whole statement.
Format(f, e) ==
  LET msg == e.message
      multiple == f.options.multiline /\ e.named = <<>>
      whole == IF f.options.suffix = Newline /\ Last(msg) = Newline THEN Front(msg) ELSE msg
      lines == CASE f.options.pattern = <<>> -> <<>>
                 [] f.options.pattern # <<>> /\ msg = <<>> -> <<msg>>
                 [] OTHER -> IF multiple THEN Lines(msg, f.options.suffix # Newline) ELSE <<whole>>
  IN  FoldLeft(LAMBDA acc, line : FormatLine(acc.state, e, line, acc.text),
               [state |-> f, text |-> <<>>], lines)

-----------------------------------------------------------------------------
(***************************************************************************)
(* What a line should be: the pattern read from left to right.             *)
(***************************************************************************)

Rendered(options, e, msg) ==
  LET token(t) ==
        IF t[1] # "attr" THEN <<t>>
        ELSE Pad(Attribute(t[2], e, msg, TimestampText(options.time, options.zone, e.timestamp), options), t[3])
      single == SelectSeq([i \in DOMAIN options.pattern |-> i],
                          LAMBDA i : ~(options.pattern[i] \in {Open, Close} /\ i > 1
                                       /\ options.pattern[i - 1] = options.pattern[i]))
  IN  FlattenSeq([j \in DOMAIN single |-> token(options.pattern[single[j]])])
      \o (IF options.suffix = NoSuffix THEN <<>> ELSE <<options.suffix>>)
=============================================================================
