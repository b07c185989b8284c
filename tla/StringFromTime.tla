--------------------------- MODULE StringFromTime ---------------------------
(***************************************************************************)
(* The text of a time stamp (backend/StringFromTime.h and                  *)
(* backend/TimestampFormatter.h).  strftime is called only when a date can *)
(* have changed; between two such calls the digits of hours, minutes and   *)
(* seconds are overwritten in the text of the call before.                 *)
(*                                                                         *)
(* A format is a sequence of specifiers and literals, a text a sequence of *)
(* digits and of what strftime makes of a specifier.  The state of a       *)
(* formatter is a record, a timestamp a number of ns.                      *)
(***************************************************************************)
EXTENDS Integers, SequencesExt

CONSTANTS NsPerSecond,  \* 10^9 in the code
          Digits        \* digits of ms, us and ns: 3, 6 and 9 in the code

ASSUME TimeAssumption == NsPerSecond = 10^Digits["ns"]

-----------------------------------------------------------------------------
(***************************************************************************)
(* The C library: broken-down time and strftime.  A zone is GMT, or a      *)
(* local time with an offset that may change once.                         *)
(***************************************************************************)

Day == 86400

Offset(zone, t) ==
  IF ~zone.local THEN 0 ELSE IF t < zone.change THEN zone.before ELSE zone.after

SecondsOfDay(zone, t) == (t + Offset(zone, t)) % Day

Hour(seconds) == seconds \div 3600
Minute(seconds) == (seconds \div 60) % 60
Second(seconds) == seconds % 60

\* {:02} and {:2}: a space is not a digit.
Padded(n, fill) == << IF n < 10 THEN fill ELSE <<"digit", n \div 10>>, <<"digit", n % 10>> >>
Zero == <<"digit", 0>>
Space == <<"space", 0>>

Hour12(h) == IF h = 0 THEN 12 ELSE IF h > 12 THEN h - 12 ELSE h

\* std::to_string of a time_t that is not negative.
Width(n) == CHOOSE w \in 1..10 : n < 10^w /\ (w = 1 \/ n >= 10^(w - 1))
Decimal(n) == [i \in 1..Width(n) |-> <<"digit", (n \div 10^(Width(n) - i)) % 10>>]

\* What one specifier stands for at time t, which is s seconds into a day.
Strftime(spec, t, day, s) ==
  CASE spec = "%H" -> Padded(Hour(s), Zero)
    [] spec = "%M" -> Padded(Minute(s), Zero)
    [] spec = "%S" -> Padded(Second(s), Zero)
    [] spec = "%I" -> Padded(Hour12(Hour(s)), Zero)
    [] spec = "%k" -> Padded(Hour(s), Space)
    [] spec = "%l" -> Padded(Hour12(Hour(s)), Space)
    [] spec = "%s" -> Decimal(t)
    [] spec = "%p" -> << <<"%p", Hour(s) \div 12>> >>
    [] spec = "%d" -> << <<"%d", day>> >>
    [] OTHER       -> << <<spec, 0>> >>

\* The whole format, as strftime and to_string would give it.
Text(format, zone, t) ==
  FlattenSeq([i \in DOMAIN format |->
                Strftime(format[i], t, (t + Offset(zone, t)) \div Day, SecondsOfDay(zone, t))])

-----------------------------------------------------------------------------
(***************************************************************************)
(* StringFromTime.                                                         *)
(***************************************************************************)

Unsupported == {"%X", "%EX", "%c", "%Ec", "%OH", "%OI", "%OM", "%OS"}

Modifiers == {"%H", "%M", "%S", "%I", "%k", "%l", "%s"}

\* %r, %R and %T are written out.
Replaced(format) ==
  LET long(spec) ==
        CASE spec = "%r" -> <<"%I", ":", "%M", ":", "%S", " ", "%p">>
          [] spec = "%R" -> <<"%H", ":", "%M">>
          [] spec = "%T" -> <<"%H", ":", "%M", ":", "%S">>
          [] OTHER       -> <<spec>>
  IN  FlattenSeq([i \in DOMAIN format |-> long(format[i])])

\* _split_timestamp_format_once: what is before the first modifier, the modifier,
\* and the rest.
SplitOnce(format) ==
  LET found == {i \in DOMAIN format : format[i] \in Modifiers}
      first == Min(found)
  IN  IF found = {} THEN [before |-> <<>>, modifier |-> <<>>, rest |-> format]
      ELSE [before |-> SubSeq(format, 1, first - 1), modifier |-> <<format[first]>>,
            rest |-> SubSeq(format, first + 1, Len(format))]

\* The parts: every modifier by itself, and what is between two of them.
InitialParts(format) ==
  LET split(a, spec) ==
        LET s == SplitOnce(a.rest)
        IN  [parts |-> a.parts \o SelectSeq(<<s.before, s.modifier>>, LAMBDA part : part # <<>>),
             rest |-> s.rest]
      all == FoldLeft(split, [parts |-> <<>>, rest |-> format], format)
  IN  all.parts \o SelectSeq(<<all.rest>>, LAMBDA part : part # <<>>)

\* init; an unsupported specifier throws.
NewString(format, zone) ==
  [parts |-> InitialParts(Replaced(format)), zone |-> zone, text |-> <<>>, indexes |-> <<>>,
   next |-> 0, cached |-> 0, seconds |-> 0, hour |-> 0, minute |-> 0, second |-> 0, width |-> 0]

\* The next time at which the date, or morning and afternoon, can change.
NextQuarterHour(t) == (t \div 900) * 900 + 900

NextNoonOrMidnight(t) == (t \div (Day \div 2) + 1) * (Day \div 2)

\* _populate_pre_formatted_string_and_cached_indexes: where the modifiers are.
PopulatedWith(f, t, formatted, seconds) ==
  LET before(i) == Len(FlattenSeq(SubSeq(formatted, 1, i - 1)))
      modifiers == SelectSeq([i \in DOMAIN f.parts |-> i], LAMBDA i : f.parts[i][1] \in Modifiers)
  IN  [f EXCEPT !.text = FlattenSeq(formatted),
                !.indexes = [j \in DOMAIN modifiers |->
                               <<before(modifiers[j]), f.parts[modifiers[j]][1]>>],
                !.cached = t, !.seconds = seconds, !.hour = Hour(seconds),
                !.minute = Minute(seconds), !.second = Second(seconds),
                !.width = IF <<"%s">> \in ToSet(f.parts) THEN Width(t) ELSE @]

Populated(f, t) ==
  PopulatedWith(f, t, [i \in DOMAIN f.parts |-> Text(f.parts[i], f.zone, t)], SecondsOfDay(f.zone, t))

Recalculated(f, t) ==
  [Populated(f, t) EXCEPT
     !.next = IF f.zone.local THEN NextQuarterHour(t) ELSE NextNoonOrMidnight(t)]

\* Digits written over the text, at an index.
Overwrite(text, index, digits) ==
  [i \in DOMAIN text |-> IF i - index \in DOMAIN digits THEN digits[i - index] ELSE text[i]]

\* A digit group is written when its number has changed.
Updated(f, t, seconds) ==
  LET hours == Hour(seconds) # f.hour
      minutes == Minute(seconds) # f.minute
      update(text, index) ==
        CASE index[2] \in {"%H", "%I", "%k", "%l"} /\ ~hours -> text
          [] index[2] = "%M" /\ ~minutes -> text
          [] index[2] = "%H" -> Overwrite(text, index[1], Padded(Hour(seconds), Zero))
          [] index[2] = "%I" -> Overwrite(text, index[1], Padded(Hour12(Hour(seconds)), Zero))
          [] index[2] = "%k" -> Overwrite(text, index[1], Padded(Hour(seconds), Space))
          [] index[2] = "%l" -> Overwrite(text, index[1], Padded(Hour12(Hour(seconds)), Space))
          [] index[2] = "%M" -> Overwrite(text, index[1], Padded(Minute(seconds), Zero))
          [] index[2] = "%S" -> IF Second(seconds) = f.second THEN text
                                ELSE Overwrite(text, index[1], Padded(Second(seconds), Zero))
          [] index[2] = "%s" -> Overwrite(text, index[1], Decimal(t))
  IN  [f EXCEPT !.text = FoldLeft(update, @, f.indexes), !.cached = t, !.seconds = seconds,
                !.hour = Hour(seconds), !.minute = Minute(seconds), !.second = Second(seconds)]

\* format_timestamp of a time that is not earlier than the last one; the text
\* is that of the formatter it leaves.
Overwritten(f, t, seconds) ==
  IF f.indexes = <<>> \/ f.cached = t THEN f
  ELSE IF (f.width # 0 /\ Width(t) # f.width) \/ seconds >= Day THEN Recalculated(f, t)
  ELSE Updated(f, t, seconds)

Advanced(f, t) ==
  IF t >= f.next THEN Recalculated(f, t) ELSE Overwritten(f, t, f.seconds + t - f.cached)

\* format_timestamp: a time before the last one is formatted from nothing.
AndText(f) == [state |-> f, text |-> f.text]

FormatTime(f, t) ==
  IF t < f.cached
  THEN [state |-> f, text |-> Text(FlattenSeq(f.parts), f.zone, t)]
  ELSE AndText(Advanced(f, t))

-----------------------------------------------------------------------------
(***************************************************************************)
(* TimestampFormatter: a StringFromTime before and one after the fraction. *)
(***************************************************************************)

Fractions == [spec \in {"%Qms", "%Qus", "%Qns"} |->
                CASE spec = "%Qms" -> "ms" [] spec = "%Qus" -> "us" [] spec = "%Qns" -> "ns"]

\* The constructor: the first fraction splits the format.
NewTimestampFormatter(format, zone) ==
  LET at == {i \in DOMAIN format : format[i] \in DOMAIN Fractions}
      i == CHOOSE i \in at : \A j \in at : i <= j
  IN  IF at = {}
      THEN [part1 |-> NewString(format, zone), fraction |-> "none", part2 |-> NewString(<<>>, zone)]
      ELSE [part1 |-> NewString(SubSeq(format, 1, i - 1), zone), fraction |-> Fractions[format[i]],
            part2 |-> NewString(SubSeq(format, i + 1, Len(format)), zone)]

\* Two different fractions, as an unsupported specifier, throw.
Accepted(format) ==
  /\ \A i \in DOMAIN format : format[i] \notin Unsupported
  /\ \A i, j \in DOMAIN format :
       {format[i], format[j]} \subseteq DOMAIN Fractions => format[i] = format[j]

\* _write_fractional_seconds: the zeros are overwritten from the right.
FractionDigits(fraction, ns) ==
  IF fraction = "none" THEN <<>>
  ELSE LET n == ns \div 10^(Digits["ns"] - Digits[fraction])
       IN  [i \in 1..Digits[fraction] |-> <<"digit", (n \div 10^(Digits[fraction] - i)) % 10>>]

\* format_timestamp; an empty second part is not formatted.
WithFraction(f, ns, first, second) ==
  [state |-> [f EXCEPT !.part1 = first.state, !.part2 = second.state],
   text |-> first.text \o FractionDigits(f.fraction, ns) \o second.text]

FormatTimestamp(f, ns) ==
  WithFraction(f, ns % NsPerSecond, FormatTime(f.part1, ns \div NsPerSecond),
               IF f.part2.parts = <<>> THEN [state |-> f.part2, text |-> <<>>]
               ELSE FormatTime(f.part2, ns \div NsPerSecond))

\* What a time stamp should look like, from strftime alone.
TimestampText(format, zone, ns) ==
  LET secs == ns \div NsPerSecond
      text(spec) == IF spec \in DOMAIN Fractions
                    THEN FractionDigits(Fractions[spec], ns % NsPerSecond)
                    ELSE Text(Replaced(<<spec>>), zone, secs)
  IN  FlattenSeq([i \in DOMAIN format |-> text(format[i])])
=============================================================================
