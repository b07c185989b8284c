------------------------ MODULE MCBackendLifecycle ------------------------
EXTENDS BackendLifecycle

\* Names are numbers, in the order of the names.
Csv == [name |-> 1, words |-> {"__csv__"}, valid |-> TRUE, level |-> 0, tsc |-> FALSE]
Root == [name |-> 2, words |-> {"root"}, valid |-> TRUE, level |-> Info, tsc |-> FALSE]
Audit == [name |-> 3, words |-> {"audit"}, valid |-> TRUE, level |-> Critical, tsc |-> FALSE]

Base == [programs |-> [t \in Threads |-> <<>>], signals |-> <<>>, copyStarts |-> 0, idle |-> 0,
         loggers |-> <<Csv, Root>>,
         options |-> [name |-> Null, excluded |-> {"__csv__"}, timeout |-> 20, reraise |-> TRUE]]
Programs(main, other) == [Base EXCEPT !.programs = [t \in Threads |-> IF t = "main" THEN main ELSE other]]

Plain == [op |-> "start", valid |-> TRUE, signals |-> Null, check |-> TRUE, fault |-> "none",
          interval |-> 4, sleepFits |-> TRUE, logger |-> Root]
Caught == [Plain EXCEPT !.signals = <<"SIGTERM", "SIGSEGV", "SIGABRT">>]
Simple(start) == [start EXCEPT !.op = "simple"]
Failing(start, fault) == [start EXCEPT !.fault = fault]
Log == [op |-> "log", tsc |-> FALSE]
LogTsc == [op |-> "log", tsc |-> TRUE]
Do(op) == [op |-> op]
Create(logger) == [op |-> "create", logger |-> logger]
InitWith(valid) == [op |-> "init", valid |-> valid, interval |-> 4, sleepFits |-> valid]

MCWorkloads == <<
  \* signals in a program that runs and exits
  [Programs(<<Caught, Do("exit")>>, <<Create(Audit)>>) EXCEPT !.signals = <<"SIGTERM", "SIGSEGV">>],
  [Programs(<<Caught, Do("stop")>>, <<Do("await"), Log>>) EXCEPT !.signals = <<"SIGSEGV", "SIGSEGV">>],
  [Programs(<<Caught, Create(Audit), Do("stop")>>, <<>>)
     EXCEPT !.signals = <<"SIGABRT", "SIGTERM">>, !.options.reraise = FALSE],
  [Programs(<<Caught, Do("stop")>>, <<Log>>) EXCEPT !.signals = <<"SIGABRT", "SIGSEGV">>, !.loggers = <<Csv>>,
                                                    !.options.excluded = {"", "__csv__"}],
  [Programs(<<Caught, Do("stop")>>, <<>>) EXCEPT !.signals = <<"SIGTERM", "SIGALRM">>, !.options.name = Root.name,
                                                 !.loggers = <<Csv, [Root EXCEPT !.valid = FALSE]>>],
  [Programs(<<Caught, Do("stop")>>, <<Log>>) EXCEPT !.signals = <<"SIGSEGV", "SIGALRM">>, !.options.reraise = FALSE,
                                                    !.loggers = <<Csv, Root, Audit>>, !.options.name = Audit.name],
  [Programs(<<Caught, Do("stop")>>, <<>>)
     EXCEPT !.signals = <<"SIGABRT">>, !.loggers = <<[Root EXCEPT !.tsc = TRUE]>>, !.options.timeout = 0],
  \* overlapping starts, overlapping stops, restarts
  Programs(<<Caught, Log, Do("join"), Do("stop"), Plain, Do("exit")>>, <<Plain, Log>>),
  Programs(<<Plain, Log, Do("stop"), Do("join"), Caught, Do("exit")>>, <<Do("await"), Log, Do("stop")>>),
  Programs(<<Do("stop"), Caught, Do("stop"), Caught, Log, Do("exit")>>, <<Log>>),
  Programs(<<Simple(Plain), Log, Simple(Plain), Do("exit")>>, <<Simple(Caught), Log>>),
  [Programs(<<Simple(Failing(Caught, "spawn")), Simple(Caught), Log, Do("exit")>>, <<Create(Audit)>>)
     EXCEPT !.signals = <<"SIGTERM">>],
  \* starts that fail
  Programs(<<[Caught EXCEPT !.signals = <<"SIGTERM", "SIGKILL">>], Caught, Do("stop")>>, <<>>),
  Programs(<<[Caught EXCEPT !.signals = <<"SIGSEGV", "SIGALRM">>], Plain, Do("exit")>>, <<>>),
  Programs(<<Failing(Caught, "spawn"), Caught, Log, Do("join"), Do("exit")>>,
           <<Failing(Plain, "spawn")>>),
  Programs(<<[Plain EXCEPT !.valid = FALSE], Failing(Plain, "open"), Do("stop"), Failing(Plain, "flock"),
             Do("stop"), [Plain EXCEPT !.check = FALSE], Do("stop")>>, <<>>),
  \* the other copy of the library
  [Programs(<<Plain, Do("stop"), Caught, Log, Do("stop")>>, <<>>) EXCEPT !.copyStarts = 2],
  [Programs(<<Failing(Caught, "spawn"), Plain, Do("stop")>>, <<>>) EXCEPT !.copyStarts = 2],
  \* the clock
  Programs(<<Plain, LogTsc, Do("stop"), Plain, LogTsc, Do("stop")>>, <<Do("await"), Do("convert")>>),
  [Programs(<<Plain, LogTsc, Do("exit")>>, <<Do("await"), Do("convert")>>) EXCEPT !.idle = 2],
  Programs(<<LogTsc, Plain, LogTsc, Do("exit")>>, <<LogTsc>>),
  Programs(<<[Plain EXCEPT !.sleepFits = FALSE, !.interval = 99], LogTsc, Do("exit")>>,
           <<Do("convert"), Do("await"), Do("convert")>>),
  \* the manual worker
  [Programs(<<Do("acquire"), InitWith(FALSE), InitWith(TRUE), LogTsc, Do("poll"), Do("poll"), Log, Do("stop"),
              Do("shutdown"), Do("stop"), Plain, Do("exit")>>,
            <<Do("convert")>>) EXCEPT !.idle = 2],
  Programs(<<Do("acquire"), InitWith(TRUE), Do("shutdown"), Do("shutdown"), Do("exit")>>, <<Plain, Log>>)
>>
=============================================================================
