------------------------------ MODULE FileSink ------------------------------
(***************************************************************************)
(* A log file of the backend: sinks/StreamSink.h and sinks/FileSink.h,     *)
(* with the stdio file of POSIX systems and the native handle of Windows.  *)
(* The state of the sink and of the files it writes is one record, so that *)
(* the operations can be put together the way the code calls them          *)
(* (RotatingSink flushes, closes and opens in one call):                   *)
(*                                                                         *)
(*   disk     the files, from names to their records                       *)
(*   file     "closed", "open", or "unlinked": open, but somebody deleted  *)
(*            the file                                                     *)
(*   pending  what stdio, or the buffer of the native sink, holds          *)
(*   size     _file_size                                                   *)
(*   wrote    _write_occurred                                              *)
(*   fresh    is_first_rotation of the notifier of a CSV file              *)
(*   due      the logger of a CSV file has its header still to write       *)
(*   log      history: ids of the records that have to be on disk or       *)
(*            pending, oldest first                                        *)
(*                                                                         *)
(* A name is the file's base name with a date suffix and an index, either  *)
(* of them 0 when absent.  A record that fwrite could not complete leaves  *)
(* a piece behind that is not whole.  The header of a CSV file is a record *)
(* with id 0.                                                              *)
(***************************************************************************)
EXTENDS Integers, SequencesExt

CONSTANT Sizes    \* sizes of a log statement

ASSUME SizesAssumption == Sizes \subseteq Nat \ {0}

\* The options of a FileSink and of its notifier that change what is done to the
\* file: the mode it is opened with; whether a flush ends with fsync; the build,
\* with the size of the native buffer; how much before_write adds to a
\* statement; the size of the header of a CSV file, 0 if it is none.
FileSinkConfig ==
  [mode : {"a", "w"}, fsync : BOOLEAN, native : BOOLEAN, buffer : Nat, growth : Nat, header : Nat]

Name == [date : Nat, index : Nat]
Base == [date |-> 0, index |-> 0]
Record == [id : Nat, size : Nat, ts : Nat, whole : BOOLEAN]

Whole(records) ==
  LET w == SelectSeq(records, LAMBDA r : r.whole /\ r.id # 0) IN [i \in DOMAIN w |-> w[i].id]
Bytes(records) ==
  LET first[n \in 0..Len(records)] == IF n = 0 THEN 0 ELSE first[n - 1] + records[n].size
  IN  first[Len(records)]

\* _get_file_size: 0 also for a file that does not exist.
FileSize(disk, n) == IF n \in DOMAIN disk THEN Bytes(disk[n]) ELSE 0

Put(disk, n, records) == [m \in DOMAIN disk \cup {n} |-> IF m = n THEN records ELSE disk[m]]
Unlink(disk, names) == [m \in DOMAIN disk \ names |-> disk[m]]
WithoutLast(s, n) == SubSeq(s, 1, Len(s) - n)

Closed == [disk |-> [n \in {} |-> <<>>], file |-> "closed", pending |-> <<>>, size |-> 0,
           wrote |-> FALSE, fresh |-> FALSE, due |-> FALSE, log |-> <<>>]

\* What is buffered reaches the file, or the inode nobody can open any more.
Drain(f) ==
  IF f.file = "open" THEN [f EXCEPT !.disk[Base] = @ \o f.pending, !.pending = <<>>]
  ELSE [f EXCEPT !.pending = <<>>, !.log = WithoutLast(@, Len(Whole(f.pending)))]

Header(c) == [id |-> 0, size |-> c.header, ts |-> 0, whole |-> TRUE]

\* CsvWriter::_write_header to a file just opened: through stdio, or at once.
WriteHeader(f, c) ==
  IF c.native THEN [f EXCEPT !.disk[Base] = Append(@, Header(c))]
  ELSE [f EXCEPT !.pending = Append(@, Header(c))]

\* Mutant: a header also when the sink opens its first file.
HeaderAtEveryOpen(f, c) == IF c.header = 0 THEN f ELSE WriteHeader(f, c)

\* after_open of the notifier of a CSV file: no header when the sink opens its
\* first file, for the logger is not there yet.
AfterOpen(f, c) ==
  IF c.header = 0 THEN f
  ELSE IF f.fresh THEN [f EXCEPT !.fresh = FALSE] ELSE WriteHeader(f, c)

\* What the file holds once it is open: O_TRUNC or CREATE_ALWAYS in mode "w".
Opened(disk, mode) ==
  Put(disk, Base, IF mode = "w" \/ Base \notin DOMAIN disk THEN <<>> ELSE disk[Base])

\* open_file, when one of its three attempts succeeds.
StreamOpen(f, mode) == [f EXCEPT !.file = "open", !.disk = Opened(@, mode)]
NativeOpen(f, mode) == [f EXCEPT !.file = "open", !.disk = Opened(@, mode), !.pending = <<>>]
OpenFile(f, c, mode) == AfterOpen(IF c.native THEN NativeOpen(f, mode) ELSE StreamOpen(f, mode), c)

\* close_file: fclose writes what is pending, the native sink does it itself.
StreamClose(f) == IF f.file = "closed" THEN f ELSE [Drain(f) EXCEPT !.file = "closed"]
NativeClose(f) == IF f.file = "closed" THEN f ELSE [Drain(f) EXCEPT !.file = "closed", !.pending = <<>>]
CloseFile(f, c) == IF c.native THEN NativeClose(f) ELSE StreamClose(f)

\* Mutant: the size is not read again for the file that was opened anew.
ReopenKeepingSize(f, c) == OpenFile(CloseFile(f, c), c, c.mode)

\* The tail of flush_sink: a file that somebody deleted is opened again, and
\* _file_size is that of the new file.
Reopen(f, c) ==
  LET g == OpenFile(CloseFile(f, c), c, c.mode) IN [g EXCEPT !.size = FileSize(g.disk, Base)]

\* _write_statement counts the statement as before_write returned it.
Taken(f, c, r) ==
  [f EXCEPT !.pending = Append(@, [r EXCEPT !.size = @ + c.growth]),
            !.size = @ + r.size + c.growth, !.wrote = TRUE, !.log = @ \o Whole(<<r>>)]

Torn(r) == [r EXCEPT !.size = 1, !.whole = FALSE]

-----------------------------------------------------------------------------
\* POSIX: a FILE.

\* StreamSink::write_log: nothing happens without a file.
StreamWrite(f, c, r) == IF f.file = "closed" THEN f ELSE Taken(f, c, r)

\* safe_fwrite throws, with nothing or a part of the statement written: size
\* and _write_occurred stay.
StreamWriteThrows(f, r) ==
  IF f.file = "closed" THEN {} ELSE {f, [f EXCEPT !.pending = Append(@, Torn(r))]}

\* FileSink::flush_sink.
StreamFlush(f, c) ==
  IF ~f.wrote \/ f.file = "closed" THEN f
  ELSE LET g == [Drain(f) EXCEPT !.wrote = FALSE]
       IN  IF Base \in DOMAIN g.disk THEN g ELSE Reopen(g, c)

\* The ways flush_sink throws: fflush fails; fsync fails after it, which marks
\* the file as written to; a deleted file cannot be opened again.
StreamFlushThrows(f, c) ==
  IF ~f.wrote \/ f.file = "closed" THEN {}
  ELSE {f} \cup (IF c.fsync THEN {Drain(f)} ELSE {}) \cup
       (IF Base \in DOMAIN f.disk THEN {} ELSE {[CloseFile(f, c) EXCEPT !.wrote = FALSE]})

-----------------------------------------------------------------------------
\* Windows: a native handle and a buffer of the sink.

\* _write_to_file fails: nothing was written, or a piece of the first record.
\* The buffer keeps what it has.
NativeWriteFails(f, records) ==
  IF records = <<>> THEN {}
  ELSE {f} \cup IF f.file = "open" THEN {[f EXCEPT !.disk[Base] = Append(@, Torn(Head(records)))]} ELSE {}

Fits(f, c, r) == Bytes(f.pending) + r.size + c.growth <= c.buffer

\* write_log: what does not fit makes room first; what is larger than the
\* buffer is written at once.
NativeWrite(f, c, r) ==
  IF f.file = "closed" THEN f
  ELSE LET g == Taken(IF Fits(f, c, r) THEN f ELSE Drain(f), c, r)
       IN  IF r.size + c.growth <= c.buffer THEN g ELSE Drain(g)

\* write_log throws while it makes room, or while it writes what is too large.
NativeWriteThrows(f, c, r) ==
  IF f.file = "closed" \/ Fits(f, c, r) THEN {}
  ELSE NativeWriteFails(f, f.pending) \cup
       IF r.size + c.growth <= c.buffer THEN {} ELSE NativeWriteFails(Drain(f), <<r>>)

\* flush_sink; it does not ask whether there is a file.
NativeFlush(f, c) ==
  IF ~f.wrote THEN f
  ELSE LET g == [Drain(f) EXCEPT !.wrote = FALSE]
       IN  IF Base \in DOMAIN g.disk THEN g ELSE Reopen(g, c)

NativeFlushThrows(f, c) ==
  IF ~f.wrote THEN {}
  ELSE NativeWriteFails(f, f.pending) \cup
       (IF c.fsync /\ f.file # "closed" THEN {Drain(f)} ELSE {}) \cup
       (IF Base \in DOMAIN f.disk THEN {} ELSE {[CloseFile(f, c) EXCEPT !.wrote = FALSE]})

-----------------------------------------------------------------------------

WriteStatement(f, c, r) == IF c.native THEN NativeWrite(f, c, r) ELSE StreamWrite(f, c, r)
WriteThrows(f, c, r) == IF c.native THEN NativeWriteThrows(f, c, r) ELSE StreamWriteThrows(f, r)
FlushSink(f, c) == IF c.native THEN NativeFlush(f, c) ELSE StreamFlush(f, c)
FlushThrows(f, c) == IF c.native THEN NativeFlushThrows(f, c) ELSE StreamFlushThrows(f, c)

\* CsvWriter::_should_write_header_on_initial_file.
HeaderIsDue(f, c) == c.header # 0 /\ (c.mode = "w" \/ FileSize(f.disk, Base) = 0)

\* The constructor of a CsvWriter once it has its sink.
Constructed(f, c) == [f EXCEPT !.due = HeaderIsDue(f, c)]

\* The process dies: what is buffered is lost.
Killed(f) ==
  [f EXCEPT !.file = "closed", !.pending = <<>>, !.size = 0, !.wrote = FALSE, !.fresh = FALSE,
            !.due = FALSE, !.log = WithoutLast(@, Len(Whole(f.pending)))]

\* Somebody deletes the file that is open.
Deleted(f) ==
  LET n == Len(Whole(f.pending))
      m == Len(f.log) - n - Len(Whole(f.disk[Base]))
  IN  [f EXCEPT !.disk = Unlink(@, {Base}), !.file = "unlinked",
                !.log = SubSeq(@, 1, m) \o SubSeq(@, Len(@) - n + 1, Len(@))]

FileState(f) ==
  /\ DOMAIN f = DOMAIN Closed
  /\ \A n \in DOMAIN f.disk : n \in Name /\ \A r \in Range(f.disk[n]) : r \in Record
  /\ f.file \in {"closed", "open", "unlinked"} /\ f.size \in Nat /\ f.wrote \in BOOLEAN /\ {f.fresh, f.due} \subseteq BOOLEAN
  /\ f.file = "open" => Base \in DOMAIN f.disk
  /\ f.file = "closed" => f.pending = <<>>
=============================================================================
