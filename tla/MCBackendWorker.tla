--------------------------- MODULE MCBackendWorker ---------------------------
(***************************************************************************)
(* BackendWorker with two frontend threads.  The configurations differ in  *)
(* which threads log or flush, in how contexts come to be registered and   *)
(* in whether the backend is stopped and started again.                    *)
(***************************************************************************)
EXTENDS BackendWorker

\* Threads that are known beforehand, single events and batches, a stop and a start.
Stopped ==
  [preallocated |-> Threads, dropping |-> FALSE, softLimit |-> 2, hardLimit |-> 2, grace |-> 1,
   waitForEmpty |-> TRUE, loggers |-> {2}, exiters |-> {2},
   maxEvents |-> [t \in Threads |-> 1], maxTime |-> 1, maxStops |-> 1]

\* Threads that register with their first event; every poll ends in a batch.
Batch ==
  [preallocated |-> {}, dropping |-> TRUE, softLimit |-> 1, hardLimit |-> 1, grace |-> 1,
   waitForEmpty |-> TRUE, loggers |-> Threads, exiters |-> {},
   maxEvents |-> [t \in Threads |-> IF t = 1 THEN 2 ELSE 1], maxTime |-> 2, maxStops |-> 0]

\* The same threads when a poll may process a single event.
Late == [Batch EXCEPT !.dropping = FALSE, !.softLimit = 2, !.hardLimit = 2]

StopAndBatch == {Stopped, Batch}
LateRegistration == {Late}

=============================================================================
