---------------------------- MODULE MacroMetadata ----------------------------
(***************************************************************************)
(* What is known of a statement where it is written: levels (core/         *)
(* LogLevel.h) and metadata (core/MacroMetadata.h).  A string of the       *)
(* program is a sequence of character codes.                               *)
(***************************************************************************)
EXTENDS Codec

\* LogLevel, in its order.
LevelNames == <<"TraceL3", "TraceL2", "TraceL1", "Debug", "Info", "Notice", "Warning", "Error",
                "Critical", "Backtrace", "None">>
Level(name) == CHOOSE i \in 0..10 : LevelNames[i + 1] = name

\* The levels by the names a user writes, in lower case; another name throws.
LevelsByName ==
  [tracel3 |-> "TraceL3", trace_l3 |-> "TraceL3", tracel2 |-> "TraceL2", trace_l2 |-> "TraceL2",
   tracel1 |-> "TraceL1", trace_l1 |-> "TraceL1", debug |-> "Debug", info |-> "Info", notice |-> "Notice",
   warning |-> "Warning", warn |-> "Warning", error |-> "Error", err |-> "Error", critical |-> "Critical",
   backtrace |-> "Backtrace", none |-> "None"]
LoglevelFromString(name) == IF name \in DOMAIN LevelsByName THEN Level(LevelsByName[name]) ELSE Null

\* MacroMetadata::Event, and the events that carry metadata of their own.
RuntimeEvents == {"Deep", "Hybrid", "Shallow"}
MdcEvents == {"MdcSet", "MdcErase", "MdcClear"}

OpenBrace == 123
CloseBrace == 125
Colon == 58
Slash == 47
IsLetter(c) == c \in 97..122 \cup 65..90 \cup {95}

\* contains_named_args: a placeholder that begins with a letter.  mode is where
\* in the format the scan is: outside, after an opening brace, inside a
\* placeholder, or after a brace that may close it.
ContainsNamedArgs(fmt) ==
  LET start == [mode |-> "outside", first |-> 0, count |-> 0, found |-> FALSE]
      ended(a) == [a EXCEPT !.mode = "outside", !.found = @ \/ (a.count # 0 /\ IsLetter(a.first))]
      outside(a, c) == IF c = OpenBrace THEN [a EXCEPT !.mode = "opened"] ELSE a
      inside(a, c) == IF c = CloseBrace THEN [a EXCEPT !.mode = "closing"]
                      ELSE [a EXCEPT !.mode = "inside", !.count = @ + 1]
      step(a, c) ==
        CASE a.mode = "outside" -> outside(a, c)
          [] a.mode = "opened"  -> IF c = OpenBrace THEN [a EXCEPT !.mode = "outside"]
                                   ELSE inside([a EXCEPT !.first = c, !.count = 0], c)
          [] a.mode = "inside"  -> inside(a, c)
          [] a.mode = "closing" -> IF c = CloseBrace THEN [a EXCEPT !.mode = "inside", !.count = @ + 1]
                                   ELSE outside(ended(a), c)
      last == FoldLeft(step, start, fmt)
  IN  (IF last.mode \in {"inside", "closing"} THEN ended(last) ELSE last).found

\* Where a sequence occurs last in another; 0 when it does not.
LastOccurrence(s, t) ==
  LET at == {i \in 1..(Len(s) - Len(t) + 1) : SubSeq(s, i, i + Len(t) - 1) = t}
  IN  IF at = {} THEN 0 ELSE CHOOSE i \in at : \A j \in at : j <= i

\* The constructor.
Metadata(location, function, fmt, tags, level, event, rateLimited) ==
  [location |-> location, function |-> function, format |-> fmt, tags |-> tags, level |-> level,
   event |-> event, rateLimited |-> rateLimited, named |-> ContainsNamedArgs(fmt)]

\* A default-constructed one.
NoMetadata == Metadata(<<>>, <<>>, <<>>, <<>>, Level("None"), "None", FALSE)

\* _calc_colon_separator_pos: the characters before the last colon, or all.
ColonPos(location) ==
  LET at == LastOccurrence(location, <<Colon>>) IN IF at = 0 THEN Len(location) ELSE at - 1

FullPath(location) == SubSeq(location, 1, ColonPos(location))

\* _calc_file_name_pos: what follows the last separator of the whole location.
ShortLocation(location) ==
  SubSeq(location, LastOccurrence(location, <<Slash>>) + 1, Len(location))

FileName(location) ==
  SubSeq(location, LastOccurrence(location, <<Slash>>) + 1, ColonPos(location))

LineOf(location) == SubSeq(location, ColonPos(location) + 2, Len(location))
=============================================================================
