---------------------------- MODULE SignalHandler ----------------------------
(***************************************************************************)
(* The signal handler (backend/SignalHandler.h), as POSIX systems have it: *)
(* installing, restoring and removing it, and on_signal and on_alarm in    *)
(* the threads that signals interrupt.                                     *)
(*                                                                         *)
(* A thread that runs handlers has a frame for each, the innermost last.   *)
(* As the C library does it, a signal is blocked while its handler runs,   *)
(* and one that is raised while blocked is pending until the handler       *)
(* returns.                                                                *)
(***************************************************************************)
EXTENDS Naturals, Sequences, SequencesExt

CONSTANTS Threads,
          Null,
          Signals,  \* the signals of the system, SIGALRM among them
          Fixed     \* those whose handler cannot be set, as SIGKILL

Alarm == "SIGALRM"

\* Faulting instructions raise these.
IsSynchronousFaultSignal(s) == s \in {"SIGSEGV", "SIGFPE", "SIGILL", "SIGBUS", "SIGTRAP"}

\* The signals that ask a process to end.
Graceful == {"SIGINT", "SIGTERM"}

\* get_signal_description: a name for the signals that may be caught.
Described ==
  {"SIGABRT", "SIGFPE", "SIGILL", "SIGINT", "SIGSEGV", "SIGTERM", "SIGBUS", "SIGHUP", "SIGQUIT", "SIGTRAP",
   "SIGPIPE", "SIGALRM", "SIGUSR1", "SIGUSR2", "SIGXCPU", "SIGXFSZ", "SIGVTALRM", "SIGPROF"}
Description(s) == IF s \in Described THEN s ELSE "UNKNOWN"

VARIABLES
  handlers, \* dispositions of the signals, and the SignalHandlerContext
  frames,   \* the handlers each thread runs
  mask,     \* the signals each thread blocks
  raised,   \* signals pending for each thread
  alarm,    \* whether the alarm clock runs
  deferred, \* history: an alarm found its signal blocked
  ended,    \* how the process ended, or "no"
  queue,    \* records of the frontend threads, in the order of their timestamps
  flushed,  \* for each thread the depths of the frames whose flush_log() was answered
  registry  \* the LoggerManager: who holds its lock, and its loggers in the order of their names

signalVars == <<handlers, frames, mask, raised, alarm, deferred, ended, queue, flushed, registry>>

SignalInit(loggers) ==
  /\ handlers = [disposition |-> [s \in Signals |-> IF IsSynchronousFaultSignal(s) THEN "user" ELSE "default"],
                 registered |-> <<>>, previous |-> <<>>, number |-> Null, lock |-> 0, backendId |-> 0]
  /\ frames = [t \in Threads |-> <<>>]
  /\ mask = [t \in Threads |-> {}]
  /\ raised = [t \in Threads |-> {}]
  /\ alarm = FALSE /\ deferred = FALSE /\ ended = "no"
  /\ queue = <<>> /\ flushed = [t \in Threads |-> {}]
  /\ registry = [holder |-> Null, loggers |-> loggers]

-----------------------------------------------------------------------------
(***************************************************************************)
(* Installing and removing.                                                *)
(***************************************************************************)

\* restore_signal_handler_entries, the last entry first.
RestoreEntries(disposition, previous) ==
  FoldRight(LAMBDA entry, d : [d EXCEPT ![entry.signal] = entry.handler], previous, disposition)

\* std::signal, unless an earlier call failed; the old handler is kept to be restored.
SetHandler(state, signal) ==
  IF ~state.ok \/ signal \in Fixed THEN [state EXCEPT !.ok = FALSE]
  ELSE [state EXCEPT !.disposition[signal] = "quill",
                     !.previous = Append(@, [signal |-> signal, handler |-> state.disposition[signal]])]

\* SIGALRM is refused: the handler needs it for itself.
InstallOne(state, signal) ==
  IF signal = Alarm THEN [state EXCEPT !.ok = FALSE] ELSE SetHandler(state, signal)

\* init_signal_handler: the handlers after it, and whether it did not throw.
InstallAll(h, catchable) ==
  LET nothing == [ok |-> TRUE, disposition |-> h.disposition, previous |-> <<>>]
      set == SetHandler(FoldLeft(InstallOne, nothing, catchable), Alarm)
  IN  [ok |-> set.ok,
       handlers |-> IF ~set.ok THEN [h EXCEPT !.disposition = RestoreEntries(set.disposition, set.previous)]
                    ELSE [h EXCEPT !.disposition = set.disposition, !.previous = set.previous,
                                   !.registered = Append(catchable, Alarm)]]

\* deinit_signal_handler
DeinitHandlers(h) ==
  [h EXCEPT !.disposition = [s \in Signals |-> IF s \in ToSet(h.registered) THEN "default" ELSE @[s]],
            !.registered = <<>>, !.previous = <<>>]

\* restore_signal_handlers
RestoreHandlers(h) ==
  [h EXCEPT !.disposition = RestoreEntries(@, h.previous), !.registered = <<>>, !.previous = <<>>]

-----------------------------------------------------------------------------
(***************************************************************************)
(* The handlers at work.                                                   *)
(***************************************************************************)

Handling(t) == frames[t] # <<>>
Frame(t) == Last(frames[t])
At(t, pc) == ended = "no" /\ Handling(t) /\ Frame(t).pc = pc
SetFrame(t, frame) == frames' = [frames EXCEPT ![t] = Append(Front(@), frame)]
Goto(t, pc) == SetFrame(t, [Frame(t) EXCEPT !.pc = pc])

\* A handler that paused goes on when one inside it has returned.
Resumed(fs) ==
  IF fs # <<>> /\ Last(fs).pc = "pause" THEN Front(fs) \o <<[Last(fs) EXCEPT !.pc = "store"]>> ELSE fs

\* A signal interrupts a thread; a fault that is blocked ends the process.
Interrupt(t, s) ==
  /\ ended = "no" /\ (s \notin mask[t] \/ IsSynchronousFaultSignal(s))
  /\ CASE s \in mask[t] -> ended' = s /\ UNCHANGED <<frames, mask>>
       [] s \notin mask[t] /\ handlers.disposition[s] = "quill" ->
            /\ frames' = [frames EXCEPT ![t] = Append(@, [signal |-> s, pc |-> "enter", mask |-> mask[t],
                                                          reraise |-> TRUE, found |-> <<>>])]
            /\ mask' = [mask EXCEPT ![t] = @ \cup {s}]
            /\ UNCHANGED ended
       [] s \notin mask[t] /\ handlers.disposition[s] = "default" -> ended' = s /\ UNCHANGED <<frames, mask>>
       [] OTHER -> frames' = [frames EXCEPT ![t] = Resumed(@)] /\ UNCHANGED <<mask, ended>>
  /\ UNCHANGED <<handlers, raised, alarm, deferred, queue, flushed, registry>>

\* Only the first thread gets past the lock; others pause until a handler has
\* run in their thread, and then go on.
Enter(t) ==
  /\ At(t, "enter")
  /\ handlers' = [handlers EXCEPT !.lock = @ + 1]
  /\ Goto(t, IF handlers.lock = 0 THEN "store" ELSE "pause")
  /\ UNCHANGED <<mask, raised, alarm, deferred, ended, queue, flushed, registry>>

\* Mutant: no alarm is set.
StoreWithoutAlarm(t, timeout) ==
  /\ At(t, "store")
  /\ handlers' = [handlers EXCEPT !.number = Frame(t).signal]
  /\ Goto(t, "alarm")
  /\ UNCHANGED <<mask, raised, alarm, deferred, ended, queue, flushed, registry>>

\* The number for the alarm, and then the alarm; a timeout of 0 clears it.
Store(t, timeout) ==
  /\ \/ /\ At(t, "store") /\ Goto(t, "alarm")
        /\ handlers' = [handlers EXCEPT !.number = Frame(t).signal] /\ UNCHANGED alarm
     \/ /\ At(t, "alarm") /\ Goto(t, "backend")
        /\ alarm' = (timeout # 0) /\ UNCHANGED handlers
  /\ UNCHANGED <<mask, raised, deferred, ended, queue, flushed, registry>>

\* _Exit(EXIT_SUCCESS)
ExitSuccess == ended' = "success" /\ UNCHANGED frames

\* No backend runs, or it runs in this thread: nothing can be logged.
FindBackend(t, id, reraise) ==
  /\ At(t, "backend")
  /\ LET alone == handlers.backendId \in {0, id}
     IN  IF alone /\ Frame(t).signal \in Graceful THEN ExitSuccess
         ELSE /\ SetFrame(t, [Frame(t) EXCEPT !.pc = IF alone THEN "raise" ELSE "logger", !.reraise = reraise])
              /\ UNCHANGED ended
  /\ UNCHANGED <<handlers, mask, raised, alarm, deferred, queue, flushed, registry>>

\* LoggerManager::get_logger: the valid logger of that name.
NamedLogger(loggers, name) == SelectSeq(loggers, LAMBDA l : l.name = name /\ l.valid)

\* get_valid_logger: valid loggers, but not those whose name has a word in it that
\* is excluded, as the loggers of CsvWriters; an empty word excludes none.
GetValidLogger(loggers, excluded) ==
  SelectSeq(loggers, LAMBDA l : l.valid /\ l.words \cap (excluded \ {""}) = {})

\* SignalHandlerContext::get_logger looks for the logger of the given name, if one
\* is given, and then for the first valid one, each under the lock of the LoggerManager.
ByName(t, options) ==
  /\ At(t, "logger")
  /\ \/ options.name = Null /\ Goto(t, "valid")
     \/ /\ options.name # Null /\ registry.holder = Null
        /\ LET found == NamedLogger(registry.loggers, options.name)
           IN  IF found = <<>> THEN Goto(t, "valid")
               ELSE SetFrame(t, [Frame(t) EXCEPT !.pc = "log", !.found = found])
  /\ UNCHANGED <<handlers, mask, raised, alarm, deferred, ended, queue, flushed, registry>>

\* Without a logger nothing is logged.
FirstValid(t, options) ==
  /\ At(t, "valid") /\ registry.holder = Null
  /\ LET found == GetValidLogger(registry.loggers, options.excluded)
     IN  IF found # <<>>
         THEN SetFrame(t, [Frame(t) EXCEPT !.pc = "log", !.found = found]) /\ UNCHANGED ended
         ELSE IF Frame(t).signal \in Graceful THEN ExitSuccess
         ELSE Goto(t, "raise") /\ UNCHANGED ended
  /\ UNCHANGED <<handlers, mask, raised, alarm, deferred, queue, flushed, registry>>

\* The levels of LogLevel.h.
Info == 4
Critical == 8

\* The first of those that were found.
Logger(t) == Head(Frame(t).found)
Stamp(logger, now) == IF logger.tsc THEN now ELSE 0

\* QUILL_SIGNAL_HANDLER_LOG
Statement(t, level, text, now) ==
  IF level < Logger(t).level THEN <<>>
  ELSE <<[by |-> t, kind |-> "log", stamp |-> Stamp(Logger(t), now),
          text |-> text, signal |-> Description(Frame(t).signal)]>>

\* A statement for every signal, and one more for those that end the program.
LogReceived(t, now) ==
  /\ At(t, "log")
  /\ queue' = queue \o Statement(t, Info, "received", now)
  /\ Goto(t, IF Frame(t).signal \notin Graceful /\ Frame(t).reraise THEN "critical" ELSE "flush")
  /\ UNCHANGED <<handlers, mask, raised, alarm, deferred, ended, flushed, registry>>

LogTerminated(t, now) ==
  /\ At(t, "critical")
  /\ queue' = queue \o Statement(t, Critical, "terminated", now)
  /\ Goto(t, "flush")
  /\ UNCHANGED <<handlers, mask, raised, alarm, deferred, ended, flushed, registry>>

\* flush_log: its record points to a flag in this frame, which is waited for.
Flush(t, now) ==
  /\ At(t, "flush")
  /\ queue' = Append(queue, [by |-> t, kind |-> "flush", stamp |-> Stamp(Logger(t), now), frame |-> Len(frames[t])])
  /\ flushed' = [flushed EXCEPT ![t] = @ \ {Len(frames[t])}]
  /\ Goto(t, "wait")
  /\ UNCHANGED <<handlers, mask, raised, alarm, deferred, ended, registry>>

HandlerFlushed(t) ==
  /\ At(t, "wait") /\ Len(frames[t]) \in flushed[t]
  /\ IF Frame(t).signal \in Graceful THEN ExitSuccess ELSE Goto(t, "raise") /\ UNCHANGED ended
  /\ UNCHANGED <<handlers, mask, raised, alarm, deferred, queue, flushed, registry>>

\* The signals that a return delivers, which have their default disposition.
Delivered(t, pending) == {s \in pending : s \notin Frame(t).mask}

\* The signal is raised again with its default disposition and delivered when
\* its handler returns.
Reraise(t) ==
  /\ handlers' = [handlers EXCEPT !.disposition[Frame(t).signal] = "default"]
  /\ \E s \in Delivered(t, raised[t] \cup {Frame(t).signal}) : ended' = s
  /\ UNCHANGED <<frames, mask, raised>>

Return(t) ==
  /\ IF Delivered(t, raised[t]) # {}
       THEN (\E s \in Delivered(t, raised[t]) : ended' = s) /\ UNCHANGED <<frames, mask>>
       ELSE /\ frames' = [frames EXCEPT ![t] = Resumed(Front(@))]
            /\ mask' = [mask EXCEPT ![t] = Frame(t).mask]
            /\ UNCHANGED ended
  /\ UNCHANGED <<handlers, raised>>

\* The end of on_signal; a fault would happen again if the handler returned.
Raise(t) ==
  /\ At(t, "raise")
  /\ CASE Frame(t).reraise -> Reraise(t)
       [] ~Frame(t).reraise /\ IsSynchronousFaultSignal(Frame(t).signal) ->
            ended' = "failure" /\ UNCHANGED <<handlers, frames, mask, raised>>
       [] OTHER -> Return(t)
  /\ UNCHANGED <<alarm, deferred, queue, flushed, registry>>

\* on_alarm in a thread: the original signal is raised there.
OnAlarm(t) ==
  /\ ended = "no" /\ alarm /\ Alarm \notin mask[t]
  /\ alarm' = FALSE
  /\ LET number == IF handlers.number = Null THEN Alarm ELSE handlers.number
     IN  IF handlers.disposition[Alarm] # "quill"
         THEN ended' = Alarm /\ UNCHANGED <<handlers, frames, raised, deferred>>
         ELSE /\ handlers' = [handlers EXCEPT !.number = number, !.disposition[number] = "default"]
              /\ IF number \in mask[t]
                 THEN /\ raised' = [raised EXCEPT ![t] = @ \cup {number}]
                      /\ frames' = [frames EXCEPT ![t] = Resumed(@)]
                      /\ deferred' = TRUE /\ UNCHANGED ended
                 ELSE ended' = number /\ UNCHANGED <<frames, raised, deferred>>
  /\ UNCHANGED <<mask, queue, flushed, registry>>

\* on_signal in a thread with that id, at that time.
HandlerStep(t, id, options, now) ==
  \/ Enter(t) \/ Store(t, options.timeout) \/ FindBackend(t, id, options.reraise)
  \/ ByName(t, options) \/ FirstValid(t, options)
  \/ LogReceived(t, now) \/ LogTerminated(t, now) \/ Flush(t, now) \/ HandlerFlushed(t)
  \/ Raise(t)
=============================================================================
