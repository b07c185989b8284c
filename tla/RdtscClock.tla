----------------------------- MODULE RdtscClock -----------------------------
(***************************************************************************)
(* The clock that turns time stamp counter values into times of day        *)
(* (backend/RdtscClock.h).  The backend resynchronises it: it writes a new *)
(* base into the slot that is not in use and then publishes the slot with  *)
(* a version.  Other threads convert values meanwhile, without a lock.     *)
(*                                                                         *)
(* A tick is a nanosecond, and the time of day is the counter plus Epoch,  *)
(* so that a right conversion is known; a base made of a time and of the      *)
(* average of two counter values at most 2 * Lag apart is accurate to Lag. *)
(* The counter advances when it is read for a resync.                      *)
(***************************************************************************)
EXTENDS Integers, Sequences

CONSTANTS Readers,     \* threads that convert
          Epoch,
          Lag,         \* resync_lag_cycles
          Gap,         \* ticks between two resyncs, more than the lag
          MaxInterval, \* the largest int64_t
          MaxResyncs   \* bound on the attempts to resync

ASSUME ClockAssumption ==
  /\ {Epoch, Lag, Gap, MaxInterval, MaxResyncs} \subseteq Nat
  /\ Epoch > 0 /\ Lag > 0 /\ Gap > 2 * Lag /\ MaxInterval > 0

VARIABLES
  counter,   \* the time stamp counter
  attempts,  \* to resync, so far
  clock,     \* version, base (two slots), interval and original interval
  sync,      \* the backend's resync: pc, and the base it writes
  reading    \* for each reader its pc, the value it converts, what it loaded and its result

clockVars == <<counter, attempts, clock, sync, reading>>

NoBase == [time |-> 0, tsc |-> 0]
NotReading == [pc |-> "none", value |-> 0, version |-> 0, base |-> NoBase, result |-> -1]

ClockInit ==
  /\ counter = 1 /\ attempts = 0
  /\ clock = [version |-> 0, base |-> [i \in 0..1 |-> NoBase], interval |-> 0, original |-> 0]
  /\ sync = [pc |-> "idle", base |-> NoBase]
  /\ reading = [r \in Readers |-> NotReading]

-----------------------------------------------------------------------------
(***************************************************************************)
(* The backend.                                                            *)
(***************************************************************************)

Slot(version) == version % 2
CurrentBase == clock.base[Slot(clock.version)]

\* base_time plus the difference, which may be negative.
TimeOf(base, value) == base.time + (value - base.tsc)

\* The interval of reconfigure, in ticks.
Ticks(interval) == IF interval >= MaxInterval THEN MaxInterval ELSE interval

\* The clock is made, or an existing one reconfigured.
Reconfigure(interval) ==
  /\ clock' = [clock EXCEPT !.interval = Ticks(interval), !.original = Ticks(interval)]
  /\ UNCHANGED <<counter, attempts, sync, reading>>

\* The counter is read before and after the time; if that took no more than
\* lag, a base is made of the time and of the average of both values.
BeginResync(lag) ==
  /\ sync.pc = "idle" /\ attempts < MaxResyncs
  /\ \E delay \in 0..lag : \E read \in 0..delay :
       LET first == counter + Gap
       IN  /\ sync' = [pc |-> "time", base |-> [time |-> Epoch + first + read, tsc |-> (2 * first + delay) \div 2]]
           /\ counter' = first + delay
  /\ attempts' = attempts + 1
  /\ UNCHANGED <<clock, reading>>

\* All attempts were too slow: the next resync is later.
FailResync ==
  /\ sync.pc = "idle" /\ attempts < MaxResyncs
  /\ counter' = counter + Gap /\ attempts' = attempts + 1
  /\ clock' = [clock EXCEPT !.interval = IF @ <= MaxInterval \div 2 THEN 2 * @ ELSE @]
  /\ UNCHANGED <<sync, reading>>

WriteTime ==
  /\ sync.pc = "time"
  /\ clock' = [clock EXCEPT !.base[Slot(clock.version + 1)].time = sync.base.time]
  /\ sync' = [sync EXCEPT !.pc = "tsc"]
  /\ UNCHANGED <<counter, attempts, reading>>

WriteTsc ==
  /\ sync.pc = "tsc"
  /\ clock' = [clock EXCEPT !.base[Slot(clock.version + 1)].tsc = sync.base.tsc]
  /\ sync' = [sync EXCEPT !.pc = "version"]
  /\ UNCHANGED <<counter, attempts, reading>>

PublishBase ==
  /\ sync.pc = "version"
  /\ clock' = [clock EXCEPT !.version = @ + 1, !.interval = clock.original]
  /\ sync' = [pc |-> "idle", base |-> NoBase]
  /\ UNCHANGED <<counter, attempts, reading>>

\* The steps of a resync that has begun.
ResyncStep == WriteTime \/ WriteTsc \/ PublishBase

\* time_since_epoch() of the backend resyncs when the value is too far from the base.
TooFar(value) == value - CurrentBase.tsc > clock.interval

-----------------------------------------------------------------------------
(***************************************************************************)
(* time_since_epoch_safe(), which any thread may call.                     *)
(***************************************************************************)

BeginConversion(r, value) ==
  /\ reading' = [reading EXCEPT ![r] = [NotReading EXCEPT !.pc = "version", !.value = value]]
  /\ UNCHANGED <<counter, attempts, clock, sync>>

LoadVersion(r) ==
  /\ reading[r].pc = "version"
  /\ reading' = [reading EXCEPT ![r].version = clock.version, ![r].pc = "tsc"]
  /\ UNCHANGED <<counter, attempts, clock, sync>>

LoadTsc(r) ==
  /\ reading[r].pc = "tsc"
  /\ reading' = [reading EXCEPT ![r].base.tsc = clock.base[Slot(reading[r].version)].tsc, ![r].pc = "time"]
  /\ UNCHANGED <<counter, attempts, clock, sync>>

LoadTime(r) ==
  /\ reading[r].pc = "time"
  /\ LET time == clock.base[Slot(reading[r].version)].time
         base == [reading[r].base EXCEPT !.time = time]
     IN  reading' = [reading EXCEPT ![r].base = base,
                                    ![r].pc = IF base = NoBase THEN "done" ELSE "check",
                                    ![r].result = IF base = NoBase THEN 0 ELSE @]
  /\ UNCHANGED <<counter, attempts, clock, sync>>

CheckVersion(r) ==
  /\ reading[r].pc = "check"
  /\ reading' = IF reading[r].version = clock.version
                THEN [reading EXCEPT ![r].pc = "done",
                                     ![r].result = TimeOf(reading[r].base, reading[r].value)]
                ELSE [reading EXCEPT ![r].pc = "version"]
  /\ UNCHANGED <<counter, attempts, clock, sync>>

EndConversion(r) ==
  /\ reading[r].pc = "done"
  /\ reading' = [reading EXCEPT ![r] = NotReading]
  /\ UNCHANGED <<counter, attempts, clock, sync>>

ReadStep(r) == LoadVersion(r) \/ LoadTsc(r) \/ LoadTime(r) \/ CheckVersion(r)

-----------------------------------------------------------------------------

\* A time that was converted is that of the counter, as exactly as the clocks
\* were read together, or 0 when the clock was never synchronised: never one
\* made of halves of two bases.
Near(time, value) == time - (Epoch + value) \in -Lag..Lag
Accurate(time, value) == time = 0 \/ Near(time, value)
ConversionsRight == \A r \in Readers : reading[r].pc = "done" => Accurate(reading[r].result, reading[r].value)
=============================================================================
