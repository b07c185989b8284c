--------------------------- MODULE EventFormatting ---------------------------
(***************************************************************************)
(* How the backend makes a message of a format string and the decoded      *)
(* arguments: the parts of BackendWorker.h that parse named arguments,     *)
(* format, split and sanitize, and backend/BackendMdcState.h.              *)
(* A text is a sequence of tokens, most of them characters.                *)
(***************************************************************************)
EXTENDS TransitEvent

-----------------------------------------------------------------------------
(***************************************************************************)
(* fmt: automatic fields with an optional specification, which may refer   *)
(* to arguments itself, and doubled braces.  The result may be an error.   *)
(***************************************************************************)

At0(s, pos) == IF pos <= Len(s) THEN s[pos] ELSE -1

\* The end of a field that starts at pos, and how many fields are nested in it.
RECURSIVE FieldEnd(_, _, _, _)
FieldEnd(fmt, pos, depth, nested) ==
  CASE At0(fmt, pos) = -1 -> [pos |-> 0, nested |-> nested]
    [] At0(fmt, pos) = OpenBrace -> FieldEnd(fmt, pos + 1, depth + 1, nested + 1)
    [] At0(fmt, pos) = CloseBrace /\ depth = 0 -> [pos |-> pos, nested |-> nested]
    [] At0(fmt, pos) = CloseBrace -> FieldEnd(fmt, pos + 1, depth - 1, nested)
    [] OTHER -> FieldEnd(fmt, pos + 1, depth, nested)

\* What a field prints: its argument, after a mark for its specification.
FieldText(spec, used) ==
  (IF spec = <<>> THEN <<>>
   ELSE << <<"spec", spec, [i \in 1..(Len(used) - 1) |-> used[i + 1].text]>> >>) \o used[1].text

RECURSIVE Vformat(_, _, _, _)
Vformat(fmt, pos, args, out) ==
  LET c == At0(fmt, pos)
      doubled == At0(fmt, pos + 1) = c
      end == FieldEnd(fmt, pos + 1, 0, 0)
      spec == SubSeq(fmt, pos + 1, end.pos - 1)
      uses == end.nested + 1
  IN  CASE c = -1 -> [ok |-> TRUE, text |-> out]
        [] c \notin {OpenBrace, CloseBrace} -> Vformat(fmt, pos + 1, args, Append(out, Char(c)))
        [] c \in {OpenBrace, CloseBrace} /\ doubled -> Vformat(fmt, pos + 2, args, Append(out, Char(c)))
        [] OTHER ->
             IF c = CloseBrace \/ end.pos = 0 \/ (spec # <<>> /\ Head(spec) # Colon) \/ Len(args) < uses
             THEN [ok |-> FALSE, text |-> out]
             ELSE Vformat(fmt, end.pos + 1, SubSeq(args, uses + 1, Len(args)),
                          out \o FieldText(spec, SubSeq(args, 1, uses)))

\* fmtquill::vformat_to
Formatted(fmt, args) == Vformat(fmt, 1, args, <<>>)

-----------------------------------------------------------------------------
(***************************************************************************)
(* Named arguments.                                                        *)
(***************************************************************************)

\* _find_placeholder_closing_brace; 0 when there is none.
RECURSIVE ClosingBrace(_, _, _)
ClosingBrace(text, pos, nested) ==
  CASE At0(text, pos) = -1 -> 0
    [] At0(text, pos) = OpenBrace ->
         IF At0(text, pos + 1) = OpenBrace THEN ClosingBrace(text, pos + 2, nested)
         ELSE ClosingBrace(text, pos + 1, nested + 1)
    [] At0(text, pos) = CloseBrace ->
         IF nested = 0 THEN pos ELSE ClosingBrace(text, pos + 1, nested - 1)
    [] OTHER -> ClosingBrace(text, pos + 1, nested)

\* _normalize_named_arg_syntax: nested names are taken out.
RECURSIVE NormalizeFrom(_, _, _)
NormalizeFrom(syntax, pos, out) ==
  LET end == ClosingBrace(syntax, pos + 1, 0)
  IN  CASE At0(syntax, pos) = -1 -> out
        [] At0(syntax, pos) # OpenBrace -> NormalizeFrom(syntax, pos + 1, Append(out, syntax[pos]))
        [] At0(syntax, pos) = OpenBrace /\ At0(syntax, pos + 1) = OpenBrace ->
             NormalizeFrom(syntax, pos + 2, out \o <<OpenBrace, OpenBrace>>)
        [] OTHER -> IF end = 0 THEN out \o SubSeq(syntax, pos, Len(syntax))
                    ELSE NormalizeFrom(syntax, end + 1, out \o <<OpenBrace, CloseBrace>>)

NormalizeSyntax(syntax) == NormalizeFrom(syntax, 1, <<>>)

\* _make_unique_named_arg_key: name, name_1, name_2 ...
UniqueKey(keys, name) ==
  LET taken == {keys[i].name : i \in DOMAIN keys}
      key(n) == IF n = 0 THEN name ELSE name \o <<95>> \o DecimalCodes(n)
      free == {n \in 0..Len(keys) : key(n) \notin taken}
  IN  key(CHOOSE n \in free : \A m \in free : n <= m)

\* _process_named_args_format_message: the format without the names, and names
\* with their syntax.
RECURSIVE ProcessNamedFrom(_, _, _, _)
ProcessNamedFrom(fmt, pos, out, keys) ==
  LET end == ClosingBrace(fmt, pos + 1, 0)
      inside == SubSeq(fmt, pos + 1, end - 1)
      colons == {i \in DOMAIN inside : inside[i] = Colon}
      at == IF colons = {} THEN Len(inside) + 1 ELSE CHOOSE i \in colons : \A j \in colons : i <= j
      syntax == NormalizeSyntax(SubSeq(inside, at, Len(inside)))
  IN  CASE At0(fmt, pos) = -1 -> [format |-> out, keys |-> keys]
        [] At0(fmt, pos) # OpenBrace -> ProcessNamedFrom(fmt, pos + 1, Append(out, fmt[pos]), keys)
        [] At0(fmt, pos) = OpenBrace /\ At0(fmt, pos + 1) = OpenBrace ->
             ProcessNamedFrom(fmt, pos + 2, out \o <<OpenBrace, OpenBrace>>, keys)
        [] OTHER ->
             IF end = 0 THEN [format |-> out \o SubSeq(fmt, pos, Len(fmt)), keys |-> keys]
             ELSE ProcessNamedFrom(fmt, end + 1, out \o <<OpenBrace>> \o syntax \o <<CloseBrace>>,
                                   Append(keys, [name |-> UniqueKey(keys, SubSeq(inside, 1, at - 1)),
                                                 syntax |-> syntax]))

ProcessNamedArgs(fmt) == ProcessNamedFrom(fmt, 1, <<>>, <<>>)

-----------------------------------------------------------------------------
(***************************************************************************)
(* Messages.                                                               *)
(***************************************************************************)

\* check_printable_char of BackendOptions.
Printable(token) == token[1] # "char" \/ token[2] \in 32..126 \cup {9, 10, 13}

HexDigit(n) == IF n < 10 THEN 48 + n ELSE 55 + n

\* sanitize_non_printable_chars: \xHH for a byte.
Sanitize(text) ==
  LET hex(token) == IF Printable(token) THEN <<token>>
                    ELSE Chars(<<92, 120, HexDigit(token[2] \div 16), HexDigit(token[2] % 16)>>)
  IN  FlattenSeq([i \in DOMAIN text |-> hex(text[i])])

HasStringRelated(args) == \E i \in DOMAIN args : args[i].stringRelated

Checked(text, args, sanitize) == IF sanitize /\ HasStringRelated(args) THEN Sanitize(text) ELSE text

\* The arguments of the user: the count of a rate-limited statement comes last.
UserArgs(metadata, args) == IF metadata.rateLimited THEN Front(args) ELSE args

CouldNotFormat(metadata) ==
  << <<"text", "could not format">> >> \o Chars(metadata.format) \o Chars(ShortLocation(metadata.location))

\* _populate_formatted_log_message
PopulateMessage(e, fmt, args, sanitize) ==
  LET metadata == MetadataOf(e)
      result == Formatted(fmt, UserArgs(metadata, args))
      occurred == IF metadata.rateLimited
                  THEN Chars(<<32, 40>>) \o Last(args).text \o Chars(<<120, 41>>) ELSE <<>>
  IN  [e EXCEPT !.message = IF result.ok THEN Checked(result.text, args, sanitize) \o occurred
                            ELSE CouldNotFormat(metadata)]

\* _format_and_split_arguments: each value from the arguments that begin with
\* its own; the first error ends it.
SplitArguments(keys, names, args, sanitize) ==
  LET fmt(i) == <<OpenBrace>> \o (IF i <= Len(keys) THEN keys[i].syntax ELSE <<>>) \o <<CloseBrace>>
      value(i) == Formatted(fmt(i), SubSeq(args, i, Len(args)))
      done(i) == i <= Len(args) /\ \A j \in 1..i : value(j).ok
  IN  [i \in DOMAIN names |->
         [name |-> names[i],
          value |-> IF done(i) THEN Checked(value(i).text, args, sanitize) ELSE <<>>]]

\* _populate_formatted_named_args: arguments without a name are called _i, the
\* count of a rate-limited statement occurred.
PopulateNamedArgs(e, keys, args, sanitize) ==
  LET user == Len(UserArgs(MetadataOf(e), args))
      named == [i \in DOMAIN keys |-> keys[i].name]
      unnamed == [i \in 1..(user - Len(keys)) |-> <<95>> \o DecimalCodes(Len(keys) + i - 1)]
      occurred == IF MetadataOf(e).rateLimited
                  THEN <<UniqueKey(keys, <<111, 99, 99, 117, 114, 114, 101, 100>>)>> ELSE <<>>
      names == named \o unnamed \o occurred
  IN  [WithExtra(e) EXCEPT
         !.named = IF keys = <<>> THEN <<>> ELSE SplitArguments(keys, names, args, sanitize)]

-----------------------------------------------------------------------------
(***************************************************************************)
(* The mapped diagnostic context of a thread: keys and values, sorted by   *)
(* key, and their text; Null when there is none.                           *)
(***************************************************************************)

Occurrences(s, t) == {i \in 1..(Len(s) - Len(t) + 1) : SubSeq(s, i, i + Len(t) - 1) = t}

\* _set_from_pattern: the parts around the two placeholders; the last
\* character is the suffix.
FormatParts(pattern) ==
  LET at == Occurrences(pattern, <<OpenBrace, CloseBrace>>)
      first == CHOOSE i \in at : \A j \in at : i <= j
      second == CHOOSE i \in at : i # first
  IN  [prefix |-> SubSeq(pattern, 1, first - 1), keySeparator |-> SubSeq(pattern, first + 2, second - 1),
       fieldSeparator |-> SubSeq(pattern, second + 2, Len(pattern) - 1),
       suffix |-> <<pattern[Len(pattern)]>>]

ValidMdcPattern(pattern) ==
  LET at == Occurrences(pattern, <<OpenBrace, CloseBrace>>)
  IN  Cardinality(at) = 2 /\ \A i \in at : i + 1 < Len(pattern)

\* Keys are compared by their text; the ones here are single characters.
KeyOrder(fields) == SetToSortSeq(DOMAIN fields, LAMBDA k, l : k[1][2] < l[1][2])

\* rebuild_formatted_mdc
RebuildMdc(fields, pattern) ==
  LET parts == FormatParts(pattern)
      keys == KeyOrder(fields)
      field(i) == keys[i] \o Chars(parts.keySeparator) \o fields[keys[i]]
                  \o (IF i < Len(keys) THEN Chars(parts.fieldSeparator) ELSE <<>>)
  IN  IF keys = <<>> THEN <<>>
      ELSE Chars(parts.prefix) \o FlattenSeq([i \in DOMAIN keys |-> field(i)]) \o Chars(parts.suffix)

\* The MDC with the text of its fields.
Rebuilt(fields, pattern) == [fields |-> fields, text |-> RebuildMdc(fields, pattern)]

\* _apply_mdc_event; of a key that is set twice the last value counts.
SetMdc(mdc, args, pattern) ==
  LET keys == {args[2 * i - 1].text : i \in 1..(Len(args) \div 2)}
      lastOf(k) == CHOOSE i \in 1..(Len(args) \div 2) :
                     args[2 * i - 1].text = k
                     /\ \A j \in (i + 1)..(Len(args) \div 2) : args[2 * j - 1].text # k
      old == IF mdc = Null THEN <<>> ELSE mdc.fields
  IN  Rebuilt([k \in DOMAIN old \cup keys |->
                 IF k \in keys THEN args[2 * lastOf(k)].text ELSE old[k]], pattern)

EraseMdc(mdc, args, pattern) ==
  LET left == DOMAIN mdc.fields \ {args[i].text : i \in DOMAIN args}
  IN  IF mdc = Null \/ left = {} THEN Null
      ELSE Rebuilt([k \in left |-> mdc.fields[k]], pattern)

ApplyMdcEvent(mdc, event, args, pattern) ==
  CASE event = "MdcSet"   -> SetMdc(mdc, args, pattern)
    [] event = "MdcErase" -> EraseMdc(mdc, args, pattern)
    [] event = "MdcClear" -> Null

\* _set_transit_event_mdc
SetEventMdc(e, mdc) == IF mdc = Null THEN e ELSE [WithExtra(e) EXCEPT !.mdc = mdc.text]
=============================================================================
