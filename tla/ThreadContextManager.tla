------------------------ MODULE ThreadContextManager ------------------------
(***************************************************************************)
(* The life of a ThreadContext: registered by the thread that logs, found  *)
(* by the backend through _new_thread_context_flag, invalidated when the   *)
(* thread ends, counted in _invalid_thread_context_count and removed by    *)
(* the backend once it is drained; and the failure counter it carries.     *)
(*                                                                         *)
(* One action is one access to an atomic, or one use of the spinlock.  The *)
(* events of a context are only counted, whether queued or buffered.       *)
(***************************************************************************)
EXTENDS Integers, FiniteSets

CONSTANTS Threads,
          Capacity,    \* events a context holds
          MaxEvents,   \* bound on the events a thread publishes
          MaxDrops,    \* bound on the events a thread drops
          CountMod     \* values of _invalid_thread_context_count, a uint32_t

None == "none"        \* nobody holds the lock; no context was found
Worker == "backend"   \* the backend, as a holder of the lock

ASSUME ConstantsAssumption ==
  /\ {Capacity, MaxEvents, MaxDrops, CountMod} \subseteq Nat
  /\ IsFiniteSet(Threads) /\ Cardinality(Threads) < CountMod
  /\ None \notin Threads /\ Worker \notin Threads

VARIABLES
  tpc,       \* thread: "new", "pushed", "running", "flushing", "invalid", "exited"
  sent, dropped,  \* history: events the thread published, and dropped
  lock,      \* _spinlock: its holder
  contexts,  \* _thread_contexts
  pending,   \* events in the context's queue and buffer
  failures,  \* _failure_counter
  newFlag, invalidCount,
  bpc,       \* where the backend is
  resume,    \* where it goes after an update of its cache: "work" or "check"
  cache,     \* _active_thread_contexts_cache
  visit,     \* contexts whose failure counter is still to be looked at
  found,     \* the context that is being removed
  release,   \* the thread whose flush event was processed last
  reported   \* history: drops of each thread the error notifier was told of

tvars == <<tpc, sent, dropped>>
bvars == <<bpc, resume, cache, visit, found, release, reported>>
vars == <<tvars, lock, contexts, pending, failures, newFlag, invalidCount, bvars>>

Zero == [t \in Threads |-> 0]

Init ==
  /\ tpc = [t \in Threads |-> "new"]
  /\ sent = Zero /\ dropped = Zero /\ reported = Zero
  /\ pending = Zero /\ failures = Zero
  /\ lock = None /\ contexts = {}
  /\ newFlag = FALSE /\ invalidCount = 0
  /\ bpc = "update" /\ resume = "work" /\ cache = {} /\ visit = {} /\ found = None /\ release = None

-----------------------------------------------------------------------------
(***************************************************************************)
(* A logging thread.                                                       *)
(***************************************************************************)

\* register_thread_context takes the lock and adds the context ...
RegisterPush(t) ==
  /\ tpc[t] = "new" /\ lock = None
  /\ lock' = t /\ contexts' = contexts \cup {t}
  /\ tpc' = [tpc EXCEPT ![t] = "pushed"]
  /\ UNCHANGED <<sent, dropped, pending, failures, newFlag, invalidCount, bvars>>

\* Mutant: the flag is not raised.
RegisterSilently(t) ==
  /\ tpc[t] = "pushed"
  /\ lock' = None
  /\ tpc' = [tpc EXCEPT ![t] = "running"]
  /\ UNCHANGED <<sent, dropped, contexts, pending, failures, newFlag, invalidCount, bvars>>

\* ... and raises the flag before it releases the lock.
RegisterFlag(t) ==
  /\ tpc[t] = "pushed"
  /\ newFlag' = TRUE /\ lock' = None
  /\ tpc' = [tpc EXCEPT ![t] = "running"]
  /\ UNCHANGED <<sent, dropped, contexts, pending, failures, invalidCount, bvars>>

Publish(t) ==
  /\ tpc[t] = "running" /\ pending[t] < Capacity /\ sent[t] < MaxEvents
  /\ pending' = [pending EXCEPT ![t] = @ + 1]
  /\ sent' = [sent EXCEPT ![t] = @ + 1]
  /\ UNCHANGED <<tpc, dropped, lock, contexts, failures, newFlag, invalidCount, bvars>>

\* flush_log: the caller waits for its event to be processed.
Flush(t) ==
  /\ tpc[t] = "running" /\ pending[t] < Capacity /\ sent[t] < MaxEvents
  /\ pending' = [pending EXCEPT ![t] = @ + 1]
  /\ sent' = [sent EXCEPT ![t] = @ + 1]
  /\ tpc' = [tpc EXCEPT ![t] = "flushing"]
  /\ UNCHANGED <<dropped, lock, contexts, failures, newFlag, invalidCount, bvars>>

\* increment_failure_counter, for an event that does not fit: the queue is
\* full, or the event is larger than the whole queue.
Drop(t) ==
  /\ tpc[t] = "running" /\ dropped[t] < MaxDrops
  /\ failures' = [failures EXCEPT ![t] = @ + 1]
  /\ dropped' = [dropped EXCEPT ![t] = @ + 1]
  /\ UNCHANGED <<tpc, sent, lock, contexts, pending, newFlag, invalidCount, bvars>>

\* ~ScopedThreadContext marks the context invalid ...
MarkInvalid(t) ==
  /\ tpc[t] = "running"
  /\ tpc' = [tpc EXCEPT ![t] = "invalid"]
  /\ UNCHANGED <<sent, dropped, lock, contexts, pending, failures, newFlag, invalidCount, bvars>>

\* ... and counts it.
AddInvalid(t) ==
  /\ tpc[t] = "invalid"
  /\ invalidCount' = (invalidCount + 1) % CountMod
  /\ tpc' = [tpc EXCEPT ![t] = "exited"]
  /\ UNCHANGED <<sent, dropped, lock, contexts, pending, failures, newFlag, bvars>>

Thread(t) == \/ RegisterPush(t) \/ RegisterFlag(t) \/ Publish(t) \/ Flush(t)
             \/ Drop(t) \/ MarkInvalid(t) \/ AddInvalid(t)

-----------------------------------------------------------------------------
(***************************************************************************)
(* The backend.  _update_active_thread_contexts_cache loads the flag,      *)
(* resets it and copies the contexts, in that order.                       *)
(***************************************************************************)

LoadFlag ==
  /\ bpc = "update"
  /\ bpc' = IF newFlag THEN "reset" ELSE resume
  /\ UNCHANGED <<tvars, lock, contexts, pending, failures, newFlag, invalidCount, cache, visit,
                 found, release, reported, resume>>

ResetFlag ==
  /\ bpc = "reset"
  /\ newFlag' = FALSE
  /\ bpc' = "copy"
  /\ UNCHANGED <<tvars, lock, contexts, pending, failures, invalidCount, cache, visit, found,
                 release, reported, resume>>

CopyContexts ==
  /\ bpc = "copy" /\ lock = None
  /\ cache' = contexts
  /\ bpc' = resume
  /\ UNCHANGED <<tvars, lock, contexts, pending, failures, newFlag, invalidCount, visit, found,
                 release, reported, resume>>

\* An event is read and processed; a flush event, the last of a thread that
\* waits, is followed by a cleanup.
Process(t) ==
  /\ bpc = "work" /\ t \in cache /\ pending[t] > 0
  /\ pending' = [pending EXCEPT ![t] = @ - 1]
  /\ IF tpc[t] = "flushing" /\ pending[t] = 1
     THEN bpc' = "cleanup" /\ release' = t
     ELSE bpc' = "update" /\ UNCHANGED release
  /\ UNCHANGED <<tvars, lock, contexts, failures, newFlag, invalidCount, cache, visit, found,
                 reported, resume>>

\* With nothing to process, _check_failure_counter goes over the contexts.
BeginIdle ==
  /\ bpc = "work" /\ \A t \in cache : pending[t] = 0
  /\ visit' = cache
  /\ bpc' = "report"
  /\ UNCHANGED <<tvars, lock, contexts, pending, failures, newFlag, invalidCount, cache, found,
                 release, reported, resume>>

\* get_and_reset_failure_counter; nothing is reported for a counter of zero.
Report(t) ==
  /\ bpc = "report" /\ t \in visit
  /\ reported' = [reported EXCEPT ![t] = @ + failures[t]]
  /\ failures' = [failures EXCEPT ![t] = 0]
  /\ visit' = visit \ {t}
  /\ UNCHANGED <<tvars, lock, contexts, pending, newFlag, invalidCount, bpc, cache, found, release, resume>>

\* The cache is updated and the queues are looked at before the cleanup.
EndReport ==
  /\ bpc = "report" /\ visit = {}
  /\ bpc' = "update" /\ resume' = "check"
  /\ UNCHANGED <<tvars, lock, contexts, pending, failures, newFlag, invalidCount, cache, visit,
                 found, release, reported>>

CheckEmpty ==
  /\ bpc = "check"
  /\ bpc' = IF \A t \in cache : pending[t] = 0 THEN "cleanup" ELSE "update"
  /\ resume' = "work"
  /\ UNCHANGED <<tvars, lock, contexts, pending, failures, newFlag, invalidCount, cache, visit,
                 found, release, reported>>

\* Mutant: a single invalid context is overlooked.
HasSeveralInvalid ==
  /\ bpc = "cleanup"
  /\ bpc' = IF invalidCount <= 1 THEN "release" ELSE "find"
  /\ UNCHANGED <<tvars, lock, contexts, pending, failures, newFlag, invalidCount, cache, visit,
                 found, release, reported, resume>>

\* _cleanup_invalidated_thread_contexts starts with has_invalid_thread_context.
HasInvalid ==
  /\ bpc = "cleanup"
  /\ bpc' = IF invalidCount = 0 THEN "release" ELSE "find"
  /\ UNCHANGED <<tvars, lock, contexts, pending, failures, newFlag, invalidCount, cache, visit,
                 found, release, reported, resume>>

InvalidAndEmpty(t) == tpc[t] \in {"invalid", "exited"} /\ pending[t] = 0

FindInvalid ==
  /\ bpc = "find"
  /\ IF \E t \in cache : InvalidAndEmpty(t)
     THEN found' \in {t \in cache : InvalidAndEmpty(t)} /\ bpc' = "erase"
     ELSE bpc' = "release" /\ UNCHANGED found
  /\ UNCHANGED <<tvars, lock, contexts, pending, failures, newFlag, invalidCount, cache, visit,
                 release, reported, resume>>

\* remove_shared_invalidated_thread_context erases under the lock ...
EraseContext ==
  /\ bpc = "erase" /\ lock = None
  /\ contexts' = contexts \ {found}
  /\ lock' = Worker /\ bpc' = "decrement"
  /\ UNCHANGED <<tvars, pending, failures, newFlag, invalidCount, cache, visit, found,
                 release, reported, resume>>

\* Mutant: the removed context is not counted down.
RemoveUncounted ==
  /\ bpc = "decrement"
  /\ cache' = cache \ {found} /\ found' = None
  /\ lock' = None /\ bpc' = "find"
  /\ UNCHANGED <<tvars, contexts, pending, failures, newFlag, invalidCount, visit, release, reported, resume>>

\* Mutant: the cache keeps the pointer.
DecrementOnly ==
  /\ bpc = "decrement"
  /\ invalidCount' = (invalidCount - 1) % CountMod
  /\ found' = None
  /\ lock' = None /\ bpc' = "find"
  /\ UNCHANGED <<tvars, contexts, pending, failures, newFlag, cache, visit, release, reported, resume>>

\* ... and counts down; then the cache lets go of the context, too.
Decrement ==
  /\ bpc = "decrement"
  /\ invalidCount' = (invalidCount - 1) % CountMod
  /\ cache' = cache \ {found} /\ found' = None
  /\ lock' = None /\ bpc' = "find"
  /\ UNCHANGED <<tvars, contexts, pending, failures, newFlag, visit, release, reported, resume>>

\* After the cleanup the caller of flush_log, if there is one, is released.
Release ==
  /\ bpc = "release"
  /\ tpc' = [t \in Threads |-> IF t = release THEN "running" ELSE tpc[t]]
  /\ release' = None
  /\ bpc' = "update"
  /\ UNCHANGED <<sent, dropped, lock, contexts, pending, failures, newFlag, invalidCount, cache,
                 visit, found, reported, resume>>

Backend == \/ LoadFlag \/ ResetFlag \/ CopyContexts \/ BeginIdle \/ EndReport \/ CheckEmpty
           \/ HasInvalid \/ FindInvalid \/ EraseContext \/ Decrement \/ Release
           \/ \E t \in Threads : Process(t) \/ Report(t)

-----------------------------------------------------------------------------

Next == Backend \/ \E t \in Threads : Thread(t)

Spec == Init /\ [][Next]_vars

\* The backend polls for ever, and gets the lock although others want it as
\* well, each of them once; a thread finishes what it has begun.
FairSpec ==
  /\ Spec /\ WF_vars(Backend)
  /\ \A t \in Threads : WF_vars(RegisterFlag(t)) /\ WF_vars(AddInvalid(t))

-----------------------------------------------------------------------------

\* The shape of the registry and the counters, which keep their width.
TypeOK ==
  /\ tpc \in [Threads -> {"new", "pushed", "running", "flushing", "invalid", "exited"}]
  /\ {sent, dropped, pending, failures, reported} \subseteq [Threads -> Nat]
  /\ lock \in Threads \cup {None, Worker} /\ found \in Threads \cup {None}
  /\ release \in Threads \cup {None}
  /\ contexts \subseteq Threads /\ cache \subseteq Threads /\ visit \subseteq Threads
  /\ newFlag \in BOOLEAN /\ invalidCount \in 0..(CountMod - 1)
  /\ bpc \in {"update", "reset", "copy", "work", "report", "check", "cleanup", "find", "erase", "decrement",
              "release"}
  /\ resume \in {"work", "check"}

\* A context is removed only when its owner can no longer log to it and no
\* event is left in it.
RemovedOnlyWhenDone ==
  \A t \in Threads : tpc[t] # "new" /\ t \notin contexts =>
    tpc[t] \in {"invalid", "exited"} /\ pending[t] = 0

\* Nobody goes on with a context that was freed: neither the backend, through
\* its cache, nor the thread that owns it.  The registry, the counter and the
\* lock keep their types.
NoDanglingContext == TypeOK /\ cache \ {found} \subseteq contexts /\ RemovedOnlyWhenDone

\* Whatever the order in which contexts are invalidated, counted and removed,
\* the counter is right again when nobody is in between, even after it wrapped.
CountSettles ==
  (\A t \in Threads : tpc[t] # "invalid") /\ bpc # "decrement" =>
    invalidCount = Cardinality({t \in contexts : tpc[t] = "exited"})

\* Registration is never missed: what a thread publishes is processed although
\* it may register at any point of the backend's update.
PublishedIsProcessed == \A t \in Threads : (pending[t] > 0) ~> (pending[t] = 0)

\* The context of a thread that ended does not stay for ever.
ExitedIsRemoved == \A t \in Threads : (tpc[t] = "exited") ~> (t \notin contexts)

\* The assertion in remove_shared_invalidated_thread_context: a context that is
\* being removed has been counted.
CountDoesNotUnderflow == bpc = "decrement" => invalidCount # 0

\* "neither silently disappears": a drop is reported, or still counted in a
\* context the backend will look at.
DropsDoNotDisappear ==
  \A t \in Threads :
    dropped[t] = reported[t] + (IF t \in contexts THEN failures[t] ELSE 0)

=============================================================================
