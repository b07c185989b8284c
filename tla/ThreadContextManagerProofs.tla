--------------------- MODULE ThreadContextManagerProofs ---------------------
(***************************************************************************)
(* Contexts of threads are removed safely, and counted right, for any      *)
(* number of threads and any width of the count that is larger.            *)
(***************************************************************************)
EXTENDS ThreadContextManager, FiniteSetTheorems, TLAPS

\* Who holds the spinlock, by where everybody is.
LockHeld ==
  /\ \A t \in Threads : lock = t <=> tpc[t] = "pushed"
  /\ lock = Worker <=> bpc = "decrement"

\* The context the backend is removing belongs to a thread that ended and left
\* nothing; it leaves the registry before it leaves the cache.
FoundIsDone ==
  /\ bpc \notin {"erase", "decrement"} => found = None
  /\ bpc \in {"erase", "decrement"} => found \in cache /\ InvalidAndEmpty(found)
  /\ bpc = "erase" => found \in contexts
  /\ bpc = "decrement" => found \notin contexts

\* A thread that is to be released waits; one that did not register has nothing.
ThreadsPlaced ==
  /\ release # None => tpc[release] = "flushing"
  /\ \A t \in Threads : tpc[t] = "new" => t \notin contexts

SafetyInv == NoDanglingContext /\ LockHeld /\ FoundIsDone /\ ThreadsPlaced

\* The contexts that were counted when their threads ended, and those that were
\* counted down when they were removed.
Counted == {t \in Threads : tpc[t] = "exited"}
Removed == {t \in Threads : tpc[t] \in {"invalid", "exited"} /\ t \notin contexts}
Discounted == IF bpc = "decrement" THEN Removed \ {found} ELSE Removed

\* A context may be removed before it is counted: the count is the difference, up
\* to whole laps of its width.
CountIsDifference ==
  \E k \in Int : Cardinality(Counted) - Cardinality(Discounted) = invalidCount + k * CountMod

IInv == SafetyInv /\ CountIsDifference

-----------------------------------------------------------------------------
(***************************************************************************)
(* Safety.                                                                 *)
(***************************************************************************)

\* The range of the counter.
LEMMA CountRange ==
  /\ CountMod \in Nat /\ CountMod > 0
  /\ \A c \in 0..(CountMod - 1) : (c + 1) % CountMod = (IF c + 1 = CountMod THEN 0 ELSE c + 1)
  /\ \A c \in 0..(CountMod - 1) : (c - 1) % CountMod = (IF c = 0 THEN CountMod - 1 ELSE c - 1)
<1>1. Cardinality(Threads) \in Nat
  BY ConstantsAssumption, FS_CardinalityType
<1>2. CountMod \in Nat /\ CountMod > 0
  BY <1>1, ConstantsAssumption
<1> QED BY <1>2

\* The backend starts with empty caches and no context is registered.
LEMMA SafetyInit == Init => SafetyInv
<1> SUFFICES ASSUME Init PROVE SafetyInv
  OBVIOUS
<1>1. None \notin Threads /\ Worker \notin Threads /\ None # Worker
  BY ConstantsAssumption DEF None, Worker
<1>2. Zero \in [Threads -> Nat] /\ 0 \in 0..(CountMod - 1)
  BY CountRange DEF Zero
<1>3. TypeOK
  BY <1>1, <1>2 DEF Init, TypeOK
<1>4. RemovedOnlyWhenDone /\ ThreadsPlaced
  BY <1>1 DEF Init, RemovedOnlyWhenDone, ThreadsPlaced
<1>5. LockHeld /\ FoundIsDone
  BY <1>1 DEF Init, LockHeld, FoundIsDone
<1>6. cache \ {found} \subseteq contexts
  BY DEF Init
<1> QED BY <1>3, <1>4, <1>5, <1>6 DEF SafetyInv, NoDanglingContext

\* Every access to the registry, by threads and by the backend, keeps the contexts safe.
LEMMA SafetyNext == SafetyInv /\ [Next]_vars => SafetyInv'
<1> SUFFICES ASSUME SafetyInv, [Next]_vars PROVE SafetyInv'
  OBVIOUS
<1> USE DEF SafetyInv, NoDanglingContext, TypeOK, RemovedOnlyWhenDone, LockHeld, FoundIsDone, ThreadsPlaced, InvalidAndEmpty
<1>0. None \notin Threads /\ Worker \notin Threads /\ None # Worker
  BY ConstantsAssumption DEF None, Worker
<1>1. ASSUME NEW t \in Threads, RegisterPush(t) PROVE SafetyInv'
  BY <1>1, <1>0, CountRange DEF RegisterPush, tvars, bvars
<1>2. ASSUME NEW t \in Threads, RegisterFlag(t) PROVE SafetyInv'
  BY <1>2, <1>0, CountRange DEF RegisterFlag, tvars, bvars
<1>3. ASSUME NEW t \in Threads, Publish(t) PROVE SafetyInv'
  BY <1>3, <1>0, CountRange DEF Publish, tvars, bvars
<1>4. ASSUME NEW t \in Threads, Flush(t) PROVE SafetyInv'
  BY <1>4, <1>0, CountRange DEF Flush, tvars, bvars
<1>5. ASSUME NEW t \in Threads, Drop(t) PROVE SafetyInv'
  BY <1>5, <1>0, CountRange DEF Drop, tvars, bvars
<1>6. ASSUME NEW t \in Threads, MarkInvalid(t) PROVE SafetyInv'
  BY <1>6, <1>0, CountRange DEF MarkInvalid, tvars, bvars
<1>7. ASSUME NEW t \in Threads, AddInvalid(t) PROVE SafetyInv'
  BY <1>7, <1>0, CountRange DEF AddInvalid, tvars, bvars
<1>8. ASSUME LoadFlag PROVE SafetyInv'
  BY <1>8, <1>0, CountRange DEF LoadFlag, tvars, bvars
<1>9. ASSUME ResetFlag PROVE SafetyInv'
  BY <1>9, <1>0, CountRange DEF ResetFlag, tvars, bvars
<1>10. ASSUME CopyContexts PROVE SafetyInv'
  BY <1>10, <1>0, CountRange DEF CopyContexts, tvars, bvars
<1>11. ASSUME BeginIdle PROVE SafetyInv'
  BY <1>11, <1>0, CountRange DEF BeginIdle, tvars, bvars
<1>12. ASSUME EndReport PROVE SafetyInv'
  BY <1>12, <1>0, CountRange DEF EndReport, tvars, bvars
<1>13. ASSUME CheckEmpty PROVE SafetyInv'
  BY <1>13, <1>0, CountRange DEF CheckEmpty, tvars, bvars
<1>14. ASSUME HasInvalid PROVE SafetyInv'
  BY <1>14, <1>0, CountRange DEF HasInvalid, tvars, bvars
<1>15. ASSUME FindInvalid PROVE SafetyInv'
  BY <1>15, <1>0, CountRange DEF FindInvalid, tvars, bvars
<1>16. ASSUME EraseContext PROVE SafetyInv'
  BY <1>16, <1>0, CountRange DEF EraseContext, tvars, bvars
<1>17. ASSUME Decrement PROVE SafetyInv'
  BY <1>17, <1>0, CountRange DEF Decrement, tvars, bvars
<1>18. ASSUME Release PROVE SafetyInv'
  BY <1>18, <1>0, CountRange DEF Release, tvars, bvars
<1>19. ASSUME NEW t \in Threads, Process(t) PROVE SafetyInv'
  BY <1>19, <1>0, CountRange DEF Process, tvars, bvars
<1>20. ASSUME NEW t \in Threads, Report(t) PROVE SafetyInv'
  BY <1>20, <1>0, CountRange DEF Report, tvars, bvars
<1>21. ASSUME UNCHANGED vars PROVE SafetyInv'
  BY <1>21 DEF vars, tvars, bvars
<1> QED BY <1>1, <1>2, <1>3, <1>4, <1>5, <1>6, <1>7, <1>8, <1>9, <1>10, <1>11, <1>12, <1>13, <1>14, <1>15, <1>16, <1>17, <1>18, <1>19, <1>20, <1>21 DEF Next, Thread, Backend

-----------------------------------------------------------------------------
(***************************************************************************)
(* The count.                                                              *)
(***************************************************************************)

\* The sets of contexts that were counted are finite.
LEMMA FiniteContexts ==
  ASSUME NEW S \in SUBSET Threads
  PROVE  IsFiniteSet(S) /\ Cardinality(S) \in Nat
BY ConstantsAssumption, FS_Subset, FS_CardinalityType

\* A step that changes neither set nor the count.
LEMMA SameCount ==
  ASSUME CountIsDifference, Counted' = Counted, Discounted' = Discounted, invalidCount' = invalidCount
  PROVE  CountIsDifference'
BY DEF CountIsDifference

\* Nothing is counted yet.
LEMMA CountInit == Init => CountIsDifference
<1> SUFFICES ASSUME Init PROVE CountIsDifference
  OBVIOUS
<1>1. Counted = {} /\ Discounted = {} /\ invalidCount = 0
  BY DEF Init, Counted, Discounted, Removed
<1>2. Cardinality(Counted) - Cardinality(Discounted) = invalidCount + 0 * CountMod
  BY <1>1, FS_EmptySet, CountRange
<1> QED BY <1>2 DEF CountIsDifference

\* A context enters the count when its owner adds it, and leaves it when the
\* backend has erased it; no other step moves the count or the sets.
LEMMA CountNext == IInv /\ [Next]_vars => CountIsDifference'
<1> SUFFICES ASSUME IInv, [Next]_vars PROVE CountIsDifference'
  OBVIOUS
<1>0. TypeOK /\ LockHeld /\ FoundIsDone /\ ThreadsPlaced /\ RemovedOnlyWhenDone /\ CountIsDifference
  BY DEF IInv, SafetyInv, NoDanglingContext
<1>d. PICK k \in Int : Cardinality(Counted) - Cardinality(Discounted) = invalidCount + k * CountMod
  BY <1>0 DEF CountIsDifference
<1>f. /\ IsFiniteSet(Counted) /\ Cardinality(Counted) \in Nat
      /\ IsFiniteSet(Discounted) /\ Cardinality(Discounted) \in Nat
  BY FiniteContexts DEF Counted, Discounted, Removed
<1>m. CountMod \in Nat /\ invalidCount \in 0..(CountMod - 1)
  BY <1>0, CountRange DEF TypeOK
<1>1. ASSUME NEW t \in Threads, RegisterPush(t) PROVE CountIsDifference'
  BY <1>0, <1>1, SameCount DEF RegisterPush, TypeOK, LockHeld, ThreadsPlaced, Counted, Discounted, Removed, bvars
<1>2. ASSUME NEW t \in Threads, RegisterFlag(t) \/ Publish(t) \/ Flush(t) \/ Drop(t) \/ MarkInvalid(t)
      PROVE  CountIsDifference'
  <2>1. t \in contexts /\ contexts' = contexts /\ tpc[t] \notin {"invalid", "exited"}
    BY <1>0, <1>2 DEF RegisterFlag, Publish, Flush, Drop, MarkInvalid, RemovedOnlyWhenDone, bvars
  <2>2. /\ \A u \in Threads \ {t} : tpc'[u] = tpc[u]
        /\ tpc'[t] # "exited" /\ bpc' = bpc /\ found' = found /\ invalidCount' = invalidCount
    BY <1>0, <1>2 DEF RegisterFlag, Publish, Flush, Drop, MarkInvalid, TypeOK, bvars
  <2>3. Counted' = Counted /\ Discounted' = Discounted
    BY <2>1, <2>2 DEF Counted, Discounted, Removed
  <2> QED BY <1>0, <2>2, <2>3, SameCount
<1>3. ASSUME NEW t \in Threads, AddInvalid(t) PROVE CountIsDifference'
  <2>1. Counted' = Counted \cup {t} /\ t \notin Counted /\ Discounted' = Discounted
    BY <1>0, <1>3 DEF AddInvalid, TypeOK, Counted, Discounted, Removed, bvars
  <2>2. Cardinality(Counted') = Cardinality(Counted) + 1
    BY <1>f, <2>1, FS_AddElement
  <2>3. invalidCount' = IF invalidCount + 1 = CountMod THEN 0 ELSE invalidCount + 1
    BY <1>3, <1>m, CountRange DEF AddInvalid
  <2>4. CASE invalidCount + 1 = CountMod
    <3>1. (k + 1) * CountMod = k * CountMod + CountMod
      BY <1>m
    <3>2. Cardinality(Counted') - Cardinality(Discounted') = invalidCount' + (k + 1) * CountMod
      BY <1>d, <1>f, <1>m, <2>1, <2>2, <2>3, <2>4, <3>1
    <3> QED BY <3>2 DEF CountIsDifference
  <2>5. CASE invalidCount + 1 # CountMod
    <3>1. k * CountMod \in Int
      BY <1>m
    <3>2. Cardinality(Counted') - Cardinality(Discounted') = invalidCount' + k * CountMod
      BY <1>d, <1>f, <1>m, <2>1, <2>2, <2>3, <2>5, <3>1
    <3> QED BY <3>2 DEF CountIsDifference
  <2> QED BY <2>4, <2>5
<1>4. ASSUME EraseContext PROVE CountIsDifference'
  <2>1. Counted' = Counted /\ invalidCount' = invalidCount
    BY <1>4 DEF EraseContext, Counted, tvars
  <2>2. Removed' \ {found} = Removed /\ bpc = "erase" /\ bpc' = "decrement" /\ found' = found
    BY <1>0, <1>4 DEF EraseContext, Removed, FoundIsDone, tvars
  <2>3. Discounted' = Discounted
    BY <2>2 DEF Discounted
  <2> QED BY <1>0, <2>1, <2>3, SameCount
<1>5. ASSUME Decrement PROVE CountIsDifference'
  <2>1. Counted' = Counted /\ Removed' = Removed /\ bpc = "decrement" /\ bpc' = "find"
    BY <1>5 DEF Decrement, Counted, Removed, tvars
  <2>2. found \in Removed
    BY <1>0, <2>1 DEF FoundIsDone, TypeOK, InvalidAndEmpty, Removed
  <2>3. Discounted' = Discounted \cup {found} /\ found \notin Discounted
    BY <2>1, <2>2 DEF Discounted
  <2>4. Cardinality(Discounted') = Cardinality(Discounted) + 1
    BY <1>f, <2>3, FS_AddElement
  <2>5. invalidCount' = IF invalidCount = 0 THEN CountMod - 1 ELSE invalidCount - 1
    BY <1>5, <1>m, CountRange DEF Decrement
  <2>6. CASE invalidCount = 0
    <3>1. (k - 1) * CountMod = k * CountMod - CountMod
      BY <1>m
    <3>2. Cardinality(Counted') - Cardinality(Discounted') = invalidCount' + (k - 1) * CountMod
      BY <1>d, <1>f, <1>m, <2>1, <2>4, <2>5, <2>6, <3>1
    <3> QED BY <3>2 DEF CountIsDifference
  <2>7. CASE invalidCount # 0
    <3>1. k * CountMod \in Int
      BY <1>m
    <3>2. Cardinality(Counted') - Cardinality(Discounted') = invalidCount' + k * CountMod
      BY <1>d, <1>f, <1>m, <2>1, <2>4, <2>5, <2>7, <3>1
    <3> QED BY <3>2 DEF CountIsDifference
  <2> QED BY <2>6, <2>7
<1>6. ASSUME Release PROVE CountIsDifference'
  <2>1. release # None => tpc[release] = "flushing"
    BY <1>0 DEF ThreadsPlaced
  <2>2. /\ \A u \in Threads : tpc'[u] = IF u = release THEN "running" ELSE tpc[u]
        /\ bpc = "release" /\ bpc' = "update" /\ contexts' = contexts /\ invalidCount' = invalidCount
        /\ \A u \in Threads : u = release => tpc[u] = "flushing"
    BY <1>6, <2>1, ConstantsAssumption DEF Release
  <2>3. Counted' = Counted /\ Discounted' = Discounted
    BY <2>2 DEF Counted, Discounted, Removed
  <2> QED BY <1>0, <2>2, <2>3, SameCount
<1>7. ASSUME \/ LoadFlag \/ ResetFlag \/ CopyContexts \/ BeginIdle \/ EndReport \/ CheckEmpty
             \/ HasInvalid \/ FindInvalid \/ (\E t \in Threads : Process(t) \/ Report(t)) \/ UNCHANGED vars
      PROVE  CountIsDifference'
  <2>1. tpc' = tpc /\ contexts' = contexts /\ invalidCount' = invalidCount
    BY <1>7 DEF LoadFlag, ResetFlag, CopyContexts, BeginIdle, EndReport, CheckEmpty, HasInvalid, FindInvalid, Process, Report,
                vars, tvars, bvars
  <2>2. bpc' = "decrement" <=> bpc = "decrement"
    BY <1>0, <1>7 DEF LoadFlag, ResetFlag, CopyContexts, BeginIdle, EndReport, CheckEmpty, HasInvalid, FindInvalid,
                      Process, Report, TypeOK, vars, tvars, bvars
  <2>3. bpc = "decrement" => found' = found
    BY <1>7 DEF LoadFlag, ResetFlag, CopyContexts, BeginIdle, EndReport, CheckEmpty, HasInvalid, FindInvalid, Process, Report,
                vars, tvars, bvars
  <2>4. Counted' = Counted /\ Discounted' = Discounted
    BY <2>1, <2>2, <2>3 DEF Counted, Discounted, Removed
  <2> QED BY <1>0, <2>1, <2>4, SameCount
<1> QED BY <1>1, <1>2, <1>3, <1>4, <1>5, <1>6, <1>7 DEF Next, Thread, Backend

\* Fewer contexts than the counter can tell apart: a difference in its range is
\* the count itself.
LEMMA NoLap ==
  ASSUME NEW n \in 0..(CountMod - 1), NEW c \in 0..(CountMod - 1), NEW k \in Int, n = c + k * CountMod
  PROVE  n = c
<1>m. CountMod \in Nat /\ CountMod > 0
  BY CountRange
<1>1. CASE k >= 1
  <2>1. (k - 1) * CountMod >= 0 /\ (k - 1) * CountMod = k * CountMod - CountMod
    BY <1>1, <1>m
  <2> QED BY <1>m, <2>1
<1>2. CASE k <= -1
  <2>1. (0 - k - 1) * CountMod >= 0 /\ (0 - k - 1) * CountMod = 0 - k * CountMod - CountMod
    BY <1>2, <1>m
  <2> QED BY <1>m, <2>1
<1>3. CASE k = 0
  BY <1>3, <1>m
<1> QED BY <1>1, <1>2, <1>3

\* When no thread and no removal is half way, the count is right.
LEMMA DifferenceSettles == IInv => CountSettles
<1> SUFFICES ASSUME IInv, \A t \in Threads : tpc[t] # "invalid", bpc # "decrement"
             PROVE  invalidCount = Cardinality({t \in contexts : tpc[t] = "exited"})
  BY DEF CountSettles
<1> DEFINE In == {t \in contexts : tpc[t] = "exited"}
<1>0. TypeOK /\ CountIsDifference
  BY DEF IInv, SafetyInv, NoDanglingContext
<1>1. Counted = In \cup Discounted /\ In \cap Discounted = {} /\ In \subseteq Threads /\ Discounted \subseteq Threads
  BY <1>0 DEF Counted, Discounted, Removed, TypeOK
<1>2. IsFiniteSet(In) /\ IsFiniteSet(Discounted) /\ Cardinality(In) \in Nat /\ Cardinality(Discounted) \in Nat
  BY <1>1, FiniteContexts
<1> HIDE DEF In
<1>3. Cardinality(Counted) = Cardinality(In) + Cardinality(Discounted)
  <2>1. Cardinality(In \cup Discounted) = Cardinality(In) + Cardinality(Discounted) - Cardinality(In \cap Discounted)
    BY <1>2, FS_Union
  <2>2. Cardinality(In \cap Discounted) = 0
    BY <1>1, FS_EmptySet
  <2>3. Cardinality(Counted) = Cardinality(In \cup Discounted)
    BY <1>1
  <2> QED BY <1>2, <2>1, <2>2, <2>3
<1>4. Cardinality(In) \in 0..(CountMod - 1)
  <2>1. Cardinality(In) <= Cardinality(Threads) /\ Cardinality(Threads) \in Nat
    BY <1>1, ConstantsAssumption, FS_Subset, FS_CardinalityType
  <2> QED BY <1>2, <2>1, ConstantsAssumption, CountRange
<1>5. PICK k \in Int : Cardinality(Counted) - Cardinality(Discounted) = invalidCount + k * CountMod
  BY <1>0 DEF CountIsDifference
<1>6. invalidCount \in 0..(CountMod - 1)
  BY <1>0 DEF TypeOK
<1>7. Cardinality(In) = invalidCount + k * CountMod
  BY <1>2, <1>3, <1>5
<1>8. Cardinality(In) = invalidCount
  BY <1>4, <1>6, <1>7, NoLap
<1> QED BY <1>8 DEF In

-----------------------------------------------------------------------------

\* The inductive invariant: who holds the lock, what is being removed, and the
\* count as a difference.
THEOREM Invariance == Spec => []IInv
<1>1. Init => IInv
  BY SafetyInit, CountInit DEF IInv
<1>2. IInv /\ [Next]_vars => IInv'
  BY SafetyNext, CountNext DEF IInv
<1> QED BY <1>1, <1>2, PTL DEF Spec

\* The registry, the counters and the lock keep their types.
THEOREM TypeCorrectness == Spec => []TypeOK
<1>1. IInv => TypeOK
  BY DEF IInv, SafetyInv, NoDanglingContext
<1> QED BY <1>1, Invariance, PTL

\* remove_shared_invalidated_thread_context and the cache: neither the backend
\* nor the thread that owns it goes on with a context that was freed.
THEOREM ContextsDoNotDangle == Spec => []NoDanglingContext
<1>1. IInv => NoDanglingContext
  BY DEF IInv, SafetyInv
<1> QED BY <1>1, Invariance, PTL

\* _invalid_thread_context_count is right whenever nobody is between marking and
\* counting a context or between erasing it and counting down.
THEOREM CountIsRight == Spec => []CountSettles
BY Invariance, DifferenceSettles, PTL
=============================================================================
