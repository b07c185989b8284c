--------------------------- MODULE MCRotatingSink ---------------------------
(* A small instance of RotatingSink. *)
EXTENDS RotatingSink

Plain == [file |-> [mode |-> "a", fsync |-> FALSE, native |-> FALSE, buffer |-> 4, growth |-> 1, header |-> 0], scheme |-> "Index", maxBackup |-> 2, overwrite |-> TRUE, removeOld |-> TRUE,
          onCreation |-> FALSE, maxSize |-> 3, frequency |-> "disabled", unit |-> 1, interval |-> 1,
          daily |-> 0]

MCLateness == [Index |-> 1, Date |-> 0, DateAndTime |-> 0]

Native == [Plain EXCEPT !.file.native = TRUE, !.file.fsync = TRUE, !.file.buffer = 2, !.maxBackup = 1]
Csv == [Plain EXCEPT !.file.header = 1, !.file.growth = 0, !.maxBackup = 1]

Few == [time |-> 0, records |-> 3, starts |-> 2, faults |-> 1, deletes |-> 0]

MCBounds ==
  [Plain EXCEPT !.maxBackup = 1, !.file.fsync = TRUE] :> [Few EXCEPT !.faults = 2, !.records = 4] @@
  [Plain EXCEPT !.overwrite = FALSE, !.maxBackup = 1, !.frequency = "interval"] :> [Few EXCEPT !.time = 2] @@
  [Plain EXCEPT !.onCreation = TRUE] :> [Few EXCEPT !.deletes = 1] @@
  [Plain EXCEPT !.scheme = "Date", !.maxBackup = 1, !.frequency = "interval", !.unit = 2] :> [Few EXCEPT !.time = 3] @@
  [Plain EXCEPT !.scheme = "DateAndTime", !.maxBackup = 1, !.maxSize = 0, !.frequency = "daily", !.daily = 1]
     :> [Few EXCEPT !.time = 3] @@
  [Plain EXCEPT !.file.mode = "w", !.onCreation = TRUE] :> Few @@
  [Plain EXCEPT !.file.mode = "w", !.scheme = "Date"] :> [Few EXCEPT !.time = 2] @@
  Native :> [Few EXCEPT !.deletes = 1] @@
  [Csv EXCEPT !.onCreation = TRUE] :> [Few EXCEPT !.deletes = 1] @@
  [Csv EXCEPT !.file.mode = "w", !.file.native = TRUE, !.frequency = "interval"] :> [Few EXCEPT !.time = 1]

MCConfigs == DOMAIN MCBounds
=============================================================================
