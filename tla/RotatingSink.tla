---------------------------- MODULE RotatingSink ----------------------------
(***************************************************************************)
(* The rotating log file (sinks/RotatingSink.h over FileSink).  A rotation *)
(* renames the files oldest first, one system call at a time, each of      *)
(* which may fail or be the last thing the process does; a new sink in     *)
(* append mode finds the files of earlier ones by their names.             *)
(*                                                                         *)
(* Time is counted in ticks.  A rotation is caused by a record whose time  *)
(* stamp has reached the next rotation time, or that would make the file   *)
(* too large.                                                              *)
(***************************************************************************)
EXTENDS FileSink

Scheme == {"Index", "Date", "DateAndTime"}

CONSTANTS Configs,      \* the configurations of RotatingFileSinkConfig considered
          DayLength,    \* ticks per day, the granularity of the Date scheme
          Bounds,       \* by configuration: the last tick and how many records, starts of the
                        \* sink, faults and deletions of the file are considered
          Lateness      \* how far a record's time stamp may lie behind the clock, by naming scheme

ASSUME TimeAssumption == DayLength \in Nat \ {0} /\ Lateness \in [Scheme -> Nat]

\* The times of day that _parse_daily_rotation_time accepts.
DailyTime == 0..DayLength - 1

Config ==
  [file : FileSinkConfig, scheme : Scheme, maxBackup : Nat,
   overwrite : BOOLEAN, removeOld : BOOLEAN, onCreation : BOOLEAN, maxSize : Nat,
   frequency : {"disabled", "interval", "daily"}, unit : Nat \ {0}, interval : Nat, daily : DailyTime]

ASSUME BoundsAssumption ==
  Bounds \in [Configs -> [time : Nat, records : Nat, starts : Nat, faults : Nat, deletes : Nat]]

ASSUME ConfigAssumption ==
  \A c \in Configs : c \in Config /\ (c.frequency = "interval" => c.interval > 0)

VARIABLES
  cfg,           \* _config
  f,             \* the file (see FileSink)
  created,       \* _created_files, newest first, as names
  nextRotation,  \* _next_rotation_time
  opened,        \* _open_file_timestamp
  pc,            \* "down", "ready", "rotate", "rename", "undo" or "append"
  why,           \* what the current call rotates for: "start", "time", "size" or "none"
  cur,           \* the record it writes
  left,          \* how many of _created_files are still to be looked at
  done,          \* completed_renames: [from, to, at]
  now,
  spent          \* history: how much of each bound is used up

call == <<why, cur, left, done>>
rotatingVars == <<cfg, f, created, nextRotation, opened, pc, call, now, spent>>

NoRecord == [id |-> 0, size |-> 0, ts |-> 0, whole |-> FALSE]
Idle == /\ why' = "none" /\ cur' = NoRecord /\ left' = 0 /\ done' = <<>>

Enabled == created # <<>>      \* _rotation_enabled
Rotates(c) == c.frequency # "disabled"

\* format_datetime_string with the pattern of the naming scheme.
Suffix(t) ==
  CASE cfg.scheme = "Index" -> 0
    [] cfg.scheme = "Date" -> t \div DayLength + 1
    [] cfg.scheme = "DateAndTime" -> t + 1

\* The order of recovery turned round.  The file without a date is the one
\* being written.
Older(a, b) ==
  IF a.date # b.date THEN b.date = 0 \/ (a.date # 0 /\ a.date < b.date) ELSE a.index > b.index

\* A file has as many files before it as are older.
OldestFirst(names) ==
  [i \in 1..Cardinality(names) |->
     CHOOSE n \in names : Cardinality({m \in names : Older(m, n)}) = i - 1]

\* _try_parse_rotated_file: the names that are files of this sink.
Rotated(disk) == DOMAIN disk \ {Base}

\* _get_filename: a date or an index of 0 adds nothing to the name.
GetFilename(index, date) == [date |-> date, index |-> index]

\* Retention may only take the oldest records; anything else that goes missing
\* is still wanted.
Retired(log, records) ==
  LET ids == SelectSeq(Whole(records), LAMBDA i : Contains(log, i))
  IN  IF cfg.overwrite /\ IsPrefix(ids, log) THEN SubSeq(log, Len(ids) + 1, Len(log)) ELSE log

Fault == spent.faults < Bounds[cfg].faults /\ spent' = [spent EXCEPT !.faults = @ + 1]

-----------------------------------------------------------------------------

\* _calculate_next_daily_rotation_tp: the next time of that hour of the day.
NextDaily(t) ==
  LET today == (t \div DayLength) * DayLength + cfg.daily
  IN  IF today <= t THEN today + DayLength ELSE today

\* _calculate_initial_rotation_tp: the fields below the unit are cleared.
InitialRotation(t) ==
  IF cfg.frequency = "daily" THEN NextDaily(t)
  ELSE (t \div cfg.unit) * cfg.unit + cfg.interval * cfg.unit

\* Mutant: the next boundary is counted from the record.
IntervalFromRecord(previous, t) == t + cfg.interval * cfg.unit

\* _calculate_rotation_tp: whole intervals from the previous boundary.
CalculateRotation(previous, t) ==
  LET interval == cfg.interval * cfg.unit
  IN  IF cfg.frequency = "daily" THEN NextDaily(t)
      ELSE previous + ((t - previous) \div interval + 1) * interval

TimeRotation(t) == Rotates(cfg) /\ t >= nextRotation

\* _size_rotation.
SizeRotation(size) ==
  /\ cfg.maxSize # 0
  /\ f.size > cfg.maxSize \/ size > cfg.maxSize - f.size

Refused == Len(created) > cfg.maxBackup /\ ~cfg.overwrite

\* Mutant: a file that was not rotated is truncated.
ConfiguredMode == cfg.file.mode

\* _reopen_mode_after_failed_rotation: a file that was not rotated is kept.
ReopenMode == IF cfg.file.mode = "w" THEN "a" ELSE cfg.file.mode

\* What follows a rotation that returned: _time_rotation moves the boundary.
Advance == nextRotation' = IF why = "time" THEN CalculateRotation(nextRotation, cur.ts)
                           ELSE nextRotation

-----------------------------------------------------------------------------

\* write_log up to _rotate_files: no rotation, or one that is refused because
\* no file may be overwritten.
WriteLog(r) ==
  LET time == Enabled /\ TimeRotation(r.ts)
      reason == IF time THEN "time" ELSE IF Enabled /\ SizeRotation(r.size) THEN "size" ELSE "none"
  IN  /\ pc = "ready"
      /\ why' = reason /\ cur' = r
      /\ pc' = IF reason = "none" \/ Refused THEN "append" ELSE "rotate"
      /\ UNCHANGED <<cfg, created, nextRotation, opened, left, done, now>>

WriteRecord(size, t) ==
  /\ ~f.due /\ spent.records < Bounds[cfg].records
  /\ spent' = [spent EXCEPT !.records = @ + 1] /\ UNCHANGED f
  /\ WriteLog([id |-> spent.records + 1, size |-> size, ts |-> t, whole |-> TRUE])

\* The header that the constructor of a CsvWriter logs comes before its rows.
WriteFirstHeader(t) ==
  /\ f.due
  /\ f' = [f EXCEPT !.due = FALSE] /\ UNCHANGED spent
  /\ WriteLog([Header(cfg.file) EXCEPT !.ts = t])

\* _rotate_files without an open file: an earlier rotation could not open one.
RotateReopens ==
  /\ pc = "rotate" /\ f.file = "closed"
  /\ LET g == OpenFile(f, cfg.file, ReopenMode) IN f' = [g EXCEPT !.size = FileSize(g.disk, Base)]
  /\ opened' = cur.ts /\ pc' = "append"
  /\ UNCHANGED <<cfg, created, nextRotation, call, now, spent>>

\* _rotate_files: flush, fsync, and nothing more if the file is empty.
RotateEmpty ==
  /\ pc = "rotate" /\ f.file # "closed"
  /\ f' = FlushSink(f, cfg.file)
  /\ FileSize(f'.disk, Base) = 0
  /\ pc' = "append"
  /\ UNCHANGED <<cfg, created, nextRotation, opened, call, now, spent>>

RotateCloses ==
  /\ pc = "rotate" /\ f.file # "closed"
  /\ LET g == FlushSink(f, cfg.file)
     IN  FileSize(g.disk, Base) > 0 /\ f' = CloseFile(g, cfg.file)
  /\ pc' = "rename" /\ left' = Len(created) /\ done' = <<>>
  /\ UNCHANGED <<cfg, created, nextRotation, opened, why, cur, now, spent>>

\* The call throws before the renames (fflush, fsync, fclose or the opening of
\* a file); the record is given up and the rotation time stays.
RotateThrows ==
  /\ pc = "rotate" /\ Fault
  /\ f' \in IF f.file = "closed" THEN {f}
            ELSE LET g == FlushSink(f, cfg.file)
                 IN  FlushThrows(f, cfg.file) \cup {[g EXCEPT !.wrote = TRUE]} \cup
                     IF cfg.file.native THEN {} ELSE {CloseFile(g, cfg.file)}
  /\ pc' = "ready" /\ Idle
  /\ UNCHANGED <<cfg, created, nextRotation, opened, now>>

-----------------------------------------------------------------------------

\* _rotate_closed_file looks at the file created[left].
NewName(n) ==
  LET suffix == Suffix(opened)
  IN  GetFilename(IF cfg.scheme = "Index" \/ n.date = suffix THEN n.index + 1 ELSE n.index, suffix)

Renames(n) == cfg.scheme = "Index" \/ n.date = Suffix(opened) \/ n.date = 0

\* fs::rename replaces what has the new name.
Moved(disk, from, to) == Put(Unlink(disk, {from}), to, disk[from])

Rename ==
  /\ pc = "rename" /\ left > 0
  /\ LET n == created[left]
     IN  /\ Renames(n) => n \in DOMAIN f.disk
         /\ f' = IF Renames(n) THEN [f EXCEPT !.disk = Moved(@, n, NewName(n))] ELSE f
         /\ done' = IF Renames(n) THEN Append(done, [from |-> n, to |-> NewName(n), at |-> left])
                    ELSE done
  /\ left' = left - 1
  /\ UNCHANGED <<cfg, created, nextRotation, opened, pc, why, cur, now, spent>>

\* A rename fails: the file is gone, or the system refuses twice.
RenameFails ==
  /\ pc = "rename" /\ left > 0 /\ Renames(created[left])
  /\ IF created[left] \notin DOMAIN f.disk THEN UNCHANGED spent ELSE Fault
  /\ pc' = "undo"
  /\ UNCHANGED <<cfg, f, created, nextRotation, opened, call, now>>

\* Completed renames are undone, the last one first; a failure is ignored.
Undo ==
  /\ pc = "undo" /\ done # <<>>
  /\ LET d == Last(done)
     IN  \/ f' = [f EXCEPT !.disk = Moved(@, d.to, d.from)] /\ UNCHANGED spent
         \/ Fault /\ UNCHANGED f
  /\ done' = Front(done)
  /\ UNCHANGED <<cfg, created, nextRotation, opened, pc, why, cur, left, now>>

\* The sink a constructor made is handed to the CsvWriter.
Made(g) == IF why = "start" THEN Constructed(g, cfg.file) ELSE g

\* Where the call goes on after the files are in place.
AfterRotation == IF why = "start" THEN pc' = "ready" /\ Idle ELSE pc' = "append" /\ UNCHANGED call

\* ... and how it ends when a file cannot be opened: a constructor that throws
\* leaves no sink, a write gives its record up.
AfterThrow == pc' = (IF why = "start" THEN "down" ELSE "ready") /\ Idle

Abort ==
  /\ pc = "undo" /\ done = <<>>
  /\ \/ /\ LET g == OpenFile(f, cfg.file, ReopenMode) IN f' = Made([g EXCEPT !.size = FileSize(g.disk, Base)])
        /\ AfterRotation /\ UNCHANGED spent
     \/ /\ Fault /\ UNCHANGED f /\ AfterThrow
  /\ UNCHANGED <<cfg, created, nextRotation, opened, now>>

\* All renames succeeded: the list follows them.
Recorded ==
  [i \in DOMAIN created |->
     IF \E d \in Range(done) : d.at = i THEN (CHOOSE d \in Range(done) : d.at = i).to
     ELSE created[i]]

\* The oldest file goes if there are too many (a failure is ignored), and a new
\* one is opened.
Commit ==
  /\ pc = "rename" /\ left = 0
  /\ LET full == Len(Recorded) > cfg.maxBackup
         oldest == Last(Recorded)
         kept == IF full THEN Front(Recorded) ELSE Recorded
         gone == IF full /\ oldest \in DOMAIN f.disk THEN f.disk[oldest] ELSE <<>>
         log == IF full THEN Retired(f.log, gone) ELSE f.log
     IN  /\ created' = <<Base>> \o kept
         /\ \/ /\ f' = Made([OpenFile([f EXCEPT !.disk = Unlink(@, IF full THEN {oldest} ELSE {})],
                                      cfg.file, cfg.file.mode) EXCEPT !.log = log, !.size = 0])
               /\ opened' = (IF why = "start" THEN now ELSE cur.ts)
               /\ AfterRotation /\ UNCHANGED spent
            \/ /\ Fault
               /\ full
               /\ f' = Made([OpenFile(f, cfg.file, cfg.file.mode) EXCEPT !.log = log, !.size = 0])
               /\ opened' = (IF why = "start" THEN now ELSE cur.ts)
               /\ AfterRotation
            \/ /\ Fault
               /\ f' = [f EXCEPT !.disk = Unlink(@, IF full THEN {oldest} ELSE {}), !.log = log]
               /\ UNCHANGED opened /\ AfterThrow
  /\ UNCHANGED <<cfg, nextRotation, now>>

-----------------------------------------------------------------------------

\* The end of write_log: base_type::write_log.
AppendRecord ==
  /\ pc = "append"
  /\ f' = WriteStatement(f, cfg.file, cur) /\ Advance
  /\ pc' = "ready" /\ Idle
  /\ UNCHANGED <<cfg, created, opened, now, spent>>

AppendThrows ==
  /\ pc = "append" /\ Fault
  /\ f' \in WriteThrows(f, cfg.file, cur) /\ Advance
  /\ pc' = "ready" /\ Idle
  /\ UNCHANGED <<cfg, created, opened, now>>

\* The backend flushes the sink.
Flush ==
  /\ pc = "ready" /\ f.wrote /\ f.file # "closed"
  /\ \/ f' = FlushSink(f, cfg.file) /\ UNCHANGED spent
     \/ Fault /\ f' \in FlushThrows(f, cfg.file)
  /\ UNCHANGED <<cfg, created, nextRotation, opened, pc, call, now>>

-----------------------------------------------------------------------------

\* _clean_and_recover_files, when the directory can be read.  In mode "w" old
\* files are removed where their names could be used again; in mode "a" the
\* files found become _created_files, and the oldest are removed.
Cleaned(disk) ==
  IF cfg.file.mode = "a"
  THEN LET files == OldestFirst(Rotated(disk))
           excess == IF cfg.overwrite /\ Len(files) > cfg.maxBackup THEN Len(files) - cfg.maxBackup ELSE 0
       IN  Range(SubSeq(files, 1, excess))
  ELSE IF ~cfg.removeOld \/ cfg.scheme = "DateAndTime" THEN {}
  ELSE {n \in Rotated(disk) : cfg.scheme = "Index" \/ n.date = Suffix(now)}

Recovered(disk) ==
  IF cfg.file.mode = "a" THEN Reverse(OldestFirst(Rotated(disk) \ Cleaned(disk))) ELSE <<>>

\* What a start leaves of the log: with "a" all but the oldest files, with "w"
\* the files that are neither removed nor truncated.
LogAfterStart(gone, truncated) ==
  LET Read(names) == LET files == OldestFirst(names)
                     IN  FlattenSeq([i \in DOMAIN files |-> f.disk[files[i]]])
  IN  IF cfg.file.mode = "a" THEN Retired(f.log, Read(gone))
      ELSE Whole(Read(DOMAIN f.disk \ (gone \cup IF truncated THEN {Base} ELSE {})))

RotationRequested == cfg.onCreation /\ FileSize(f.disk, Base) > 0
OpenMode == IF RotationRequested THEN ReopenMode ELSE cfg.file.mode

\* The constructor, when the directory can be read; a file that cannot be
\* removed stays.
Start(removed) ==
  LET list == <<Base>> \o Recovered(f.disk)
      rotate == RotationRequested /\ (Len(list) <= cfg.maxBackup \/ cfg.overwrite)
      g == [f EXCEPT !.disk = Unlink(@, removed), !.fresh = (cfg.file.header # 0),
                     !.log = LogAfterStart(Cleaned(f.disk), OpenMode = "w")]
      started == OpenFile(g, cfg.file, OpenMode)
      kept == Cardinality(Cleaned(f.disk) \ removed)
  IN  /\ pc = "down" /\ spent.starts < Bounds[cfg].starts
      /\ removed \subseteq Cleaned(f.disk)
      /\ spent.faults + kept <= Bounds[cfg].faults
      /\ spent' = [spent EXCEPT !.starts = @ + 1, !.first = spent.records + 1, !.faults = @ + kept,
                                !.stale = IF cfg.file.mode = "w" THEN @ + kept ELSE @]
      /\ created' = list
      /\ nextRotation' = IF Rotates(cfg) THEN InitialRotation(now) ELSE 0
      /\ opened' = now
      /\ IF rotate
         THEN /\ f' = g /\ pc' = "rename" /\ why' = "start" /\ left' = Len(list)
              /\ done' = <<>> /\ cur' = NoRecord
         ELSE /\ f' = Constructed([started EXCEPT !.size = FileSize(started.disk, Base)], cfg.file)
              /\ pc' = "ready" /\ Idle
      /\ UNCHANGED <<cfg, now>>

\* The directory cannot be read: this sink does not rotate.
StartWithoutRotation ==
  /\ pc = "down" /\ spent.starts < Bounds[cfg].starts /\ spent.faults < Bounds[cfg].faults
  /\ spent' = [spent EXCEPT !.starts = @ + 1, !.first = spent.records + 1, !.faults = @ + 1]
  /\ LET g == OpenFile([f EXCEPT !.fresh = (cfg.file.header # 0)], cfg.file, OpenMode)
     IN  f' = Constructed([g EXCEPT !.size = FileSize(g.disk, Base),
                                    !.log = LogAfterStart({}, OpenMode = "w")], cfg.file)
  /\ created' = <<>> /\ nextRotation' = 0 /\ opened' = now
  /\ pc' = "ready" /\ Idle
  /\ UNCHANGED <<cfg, now>>

\* The destructor; what the logger still has to write comes first.  That the
\* last bytes cannot be written goes unnoticed.
Shutdown ==
  /\ pc = "ready" /\ ~f.due
  /\ \/ f' = Killed(CloseFile(f, cfg.file)) /\ UNCHANGED spent
     \/ Fault /\ f.pending # <<>> /\ f' = Killed(f)
  /\ pc' = "down" /\ created' = <<>> /\ nextRotation' = 0 /\ opened' = 0
  /\ UNCHANGED <<cfg, call, now>>

\* The process is killed, perhaps between two renames.
Crash ==
  /\ pc # "down" /\ spent.starts < Bounds[cfg].starts
  /\ f' = Killed(f)
  /\ pc' = "down" /\ created' = <<>> /\ nextRotation' = 0 /\ opened' = 0 /\ Idle
  /\ UNCHANGED <<cfg, now, spent>>

\* Somebody deletes the log file.
DeleteFile ==
  /\ pc = "ready" /\ f.file = "open" /\ spent.deletes < Bounds[cfg].deletes
  /\ spent' = [spent EXCEPT !.deletes = @ + 1]
  /\ f' = Deleted(f)
  /\ UNCHANGED <<cfg, created, nextRotation, opened, pc, call, now>>

Tick ==
  /\ now < Bounds[cfg].time /\ pc \in {"ready", "down"}
  /\ now' = now + 1
  /\ UNCHANGED <<cfg, f, created, nextRotation, opened, pc, call, spent>>

RotatingInit ==
  /\ cfg \in Configs
  /\ f = Closed
  /\ created = <<>> /\ nextRotation = 0 /\ opened = 0
  /\ pc = "down" /\ why = "none" /\ cur = NoRecord /\ left = 0 /\ done = <<>>
  /\ now = 0 /\ spent = [records |-> 0, starts |-> 0, faults |-> 0, deletes |-> 0, stale |-> 0, first |-> 0]

RotatingNext ==
  \/ \E late \in 0 .. Lateness[cfg.scheme] :
       late <= now /\ (WriteFirstHeader(now - late) \/ \E size \in Sizes : WriteRecord(size, now - late))
  \/ RotateReopens \/ RotateEmpty \/ RotateCloses \/ RotateThrows
  \/ Rename \/ RenameFails \/ Undo \/ Abort \/ Commit
  \/ AppendRecord \/ AppendThrows \/ Flush
  \/ \E removed \in SUBSET Cleaned(f.disk) : Start(removed)
  \/ StartWithoutRotation \/ Shutdown \/ Crash \/ DeleteFile \/ Tick

RotatingSpec == RotatingInit /\ [][RotatingNext]_rotatingVars

-----------------------------------------------------------------------------

RotatingTypeOK ==
  /\ cfg \in Configs /\ FileState(f)
  /\ Range(created) \subseteq Name /\ nextRotation \in Nat /\ opened \in Nat
  /\ pc \in {"down", "ready", "rotate", "rename", "undo", "append"}
  /\ why \in {"start", "time", "size", "none"} /\ left \in 0 .. Len(created)

OnDisk ==
  LET files == OldestFirst(DOMAIN f.disk)
  IN  Whole(FlattenSeq([i \in DOMAIN files |-> f.disk[files[i]]]))

\* While nothing fails, the list of created files is what a new sink would
\* recover from the disk, so that a restart goes on where this one stopped; and
\* there are no more backups than configured.
ListMatchesDisk ==
  pc = "ready" /\ Enabled /\ spent.faults = 0 /\ cfg.file.mode = "a"
  /\ (cfg.scheme = "Index" \/ Lateness[cfg.scheme] = 0) =>
    /\ created = <<Base>> \o Reverse(OldestFirst(Rotated(f.disk)))
    /\ Len(created) <= cfg.maxBackup + 1

\* The files of the sink, read in the order in which a new sink would recover
\* them, followed by what is still buffered, end with every record that was
\* written and not retired, in order: in the middle of a rotation, after a
\* rename that failed and one that could not be undone, and after a crash.
\* Retention only ever takes the oldest records, and none when overwriting is
\* off.  The list of created files stays that of the disk.  Not claimed for mode
\* "w" when an old file could not be removed, nor in mode "w" with names made of
\* date and time (see NamesAreUnique), nor for names with a date when a late
\* record sets the date back.
FilesHoldTheLog ==
  /\ RotatingTypeOK
  /\ /\ cfg.file.mode = "a" \/ cfg.scheme # "DateAndTime"
     /\ cfg.scheme = "Index" \/ Lateness[cfg.scheme] = 0
     /\ spent.stale = 0
     => IsSuffix(f.log, OnDisk \o Whole(f.pending))
  /\ ListMatchesDisk

Current == (IF Base \in DOMAIN f.disk THEN f.disk[Base] ELSE <<>>) \o f.pending

\* One statement and no other; a header is none.
Single(s) == \E i \in DOMAIN s : \A j \in DOMAIN s : s[j].id # 0 <=> j = i

\* The size the rotation goes by is the size of the file, after every way of
\* opening and reopening it and whatever before_write did to the statements,
\* unless a statement was torn; only the header a notifier writes may be left
\* out.  So a file exceeds the limit by one statement alone, by what before_write
\* added or by the header, as long as rotation is not refused.
SizeStaysRight ==
  pc = "ready" /\ f.file = "open" /\ (\A r \in Range(Current) : r.whole) =>
    /\ f.size \in {Bytes(Current), Bytes(Current) - cfg.file.header}
    /\ Enabled /\ cfg.maxSize # 0 /\ spent.faults = 0 /\ spent.deletes = 0 /\ ~Refused
       => \/ Bytes(Current) <= cfg.maxSize + cfg.file.growth + cfg.file.header
          \/ Single(Current)

\* Every file of a CsvWriter begins with the header and has no other, whichever
\* of the two ways of writing it, through the logger or by the notifier of the
\* sink, was its: after rotations, restarts, crashes and a deletion.  Not
\* claimed when an opening or a rename failed, for then a file that has a header
\* is opened again.
HeaderHeadsEachFile ==
  cfg.file.header # 0 /\ spent.faults = 0 /\ (cfg.file.mode = "a" \/ cfg.overwrite) =>
    \A n \in DOMAIN f.disk :
      LET records == f.disk[n] \o (IF n = Base THEN f.pending ELSE <<>>)
      IN  \A i \in DOMAIN records : records[i].id = 0 <=> i = 1

Period == IF cfg.frequency = "daily" THEN DayLength ELSE cfg.interval * cfg.unit

\* The next rotation lies ahead of every record in the file, on the boundary
\* configured, however late the rotation came; and while nothing fails, no
\* file holds records of this sink from both sides of a boundary.
RotatesOnTime ==
  pc = "ready" /\ Enabled /\ Rotates(cfg) =>
    /\ \A r \in Range(Current) : r.ts < nextRotation
    /\ IF cfg.frequency = "daily" THEN nextRotation % DayLength = cfg.daily
       ELSE nextRotation % cfg.unit = 0
    /\ spent.faults = 0 /\ ~Refused /\ Lateness[cfg.scheme] = 0
       => \A r \in Range(Current) : r.id >= spent.first => r.ts >= nextRotation - Period

\* RotatingSink.h:646 says of names with date and time that they "are unique
\* across runs and cannot collide": a rename never replaces a file.  It does
\* when a sink in mode "w" starts in the second in which an earlier one rotated.
NamesAreUnique ==
  [][pc = "rename" /\ left > 0 /\ left' = left - 1 /\ Renames(created[left])
     => NewName(created[left]) \notin DOMAIN f.disk]_rotatingVars

=============================================================================
