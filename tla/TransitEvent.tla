---------------------------- MODULE TransitEvent ----------------------------
(***************************************************************************)
(* The backend's record of one event (backend/TransitEvent.h).  Events are *)
(* pooled: a slot that is used again still holds what the event before it  *)
(* left there, and every field has to be overwritten, cleared or ignored.  *)
(*                                                                         *)
(* macro_metadata points to the metadata of a call site (static), or to    *)
(* the event's own runtime metadata (own).                                 *)
(***************************************************************************)
EXTENDS MacroMetadata

CONSTANT MaxPathLength  \* UINT16_MAX in the code

\* A default-constructed event.  id is the statement it comes from, a history field.
NewEvent ==
  [timestamp |-> 0, static |-> NoMetadata, own |-> FALSE, logger |-> 0, message |-> <<>>,
   extra |-> FALSE, named |-> <<>>, mdc |-> <<>>,
   runtime |-> [metadata |-> NoMetadata, line |-> 0, has |-> FALSE],
   payload |-> Null, id |-> 0]

MetadataOf(e) == IF e.own THEN e.runtime.metadata ELSE e.static

\* ensure_extra_data
WithExtra(e) == [e EXCEPT !.extra = TRUE]

SetPayload(e, value) == [e EXCEPT !.payload = value]
ResetPayload(e) == [e EXCEPT !.payload = Null]

-----------------------------------------------------------------------------
(***************************************************************************)
(* Runtime metadata.                                                       *)
(***************************************************************************)

\* std::to_chars
RECURSIVE DecimalCodes(_)
DecimalCodes(n) ==
  IF n < 10 THEN <<48 + n>> ELSE Append(DecimalCodes(n \div 10), 48 + (n % 10))

SafeString(value) == IF value = Null THEN <<>> ELSE value

\* The end of a path whose offsets would not fit.
PathSuffix(file) ==
  IF Len(file) <= MaxPathLength THEN file
  ELSE SubSeq(file, Len(file) - MaxPathLength + 1, Len(file))

NoLocation(file, line) == file = Null \/ (file = <<>> /\ line = 0)

SourceLocation(file, line) ==
  IF NoLocation(file, line) THEN <<>> ELSE PathSuffix(file) \o <<Colon>> \o DecimalCodes(line)

SourceLocationMatches(runtime, file, line) ==
  IF NoLocation(file, line) THEN runtime.metadata.location = <<>>
  ELSE runtime.line = line /\ FullPath(runtime.metadata.location) = PathSuffix(file)

\* RuntimeMetadata::set; a slot that holds the same metadata is not written again.
SetRuntime(runtime, file, line, function, tags, fmt, level) ==
  LET m == runtime.metadata
      same == /\ m.event = "Log" /\ m.level = level
              /\ m.format = SafeString(fmt) /\ m.function = SafeString(function)
              /\ m.tags = SafeString(tags)
              /\ SourceLocationMatches(runtime, file, line)
  IN  IF same THEN [runtime EXCEPT !.has = TRUE]
      ELSE [metadata |-> Metadata(SourceLocation(file, line), SafeString(function), SafeString(fmt),
                                  SafeString(tags), level, "Log", FALSE),
            line |-> line, has |-> TRUE]

-----------------------------------------------------------------------------

\* The move and copy_to: a copy of an event with runtime metadata points to its own.
CopyTo(e) == [e EXCEPT !.own = @ \/ (e.extra /\ e.runtime.has)]

\* get_named_args: what a slot may hold from an earlier event is not looked at.
GetNamedArgs(e) == IF e.extra /\ MetadataOf(e).named THEN e.named ELSE <<>>

MdcOf(e) == IF e.extra THEN e.mdc ELSE <<>>

\* Mutant: the flag stays set, and moving the slot's next event makes it point
\* to metadata that is not its own.
CleanUpKeepingRuntime(e) ==
  [e EXCEPT !.named = [i \in DOMAIN e.named |-> [name |-> <<>>, value |-> <<>>]], !.mdc = <<>>]

\* The end of _process_lowest_timestamp_transit_event: strings are cleared, not removed.
CleanUp(e) ==
  IF ~e.extra THEN e
  ELSE [e EXCEPT !.named = [i \in DOMAIN e.named |-> [name |-> <<>>, value |-> <<>>]],
                 !.mdc = <<>>, !.runtime.has = FALSE]
=============================================================================
