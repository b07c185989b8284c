--------------------------- MODULE CallSiteLatency --------------------------
(***************************************************************************)
(* The harness every call-site latency benchmark runs in                   *)
(* (benchmarks/call_site_latency/call_site_latency_bench.h).  For each     *)
(* thread count of the list the main thread spawns the logging threads,    *)
(* joins them and reports percentiles of what they measured.  The threads  *)
(* meet at a spinning barrier, then each logs its share of every           *)
(* iteration's messages and records one latency per iteration.             *)
(*                                                                         *)
(* The logger under test is log_func, a call that is counted; a latency is *)
(* any of a small set of numbers.  The percentile ranks are computed here  *)
(* in integers: the code's double arithmetic rounds to the same ranks for  *)
(* every sample count up to 40 000, the most it can collect.               *)
(***************************************************************************)
EXTENDS Integers, Sequences, FiniteSets, SequencesExt

CONSTANTS ThreadCounts,         \* the list of thread counts
          NumIterations,
          MessagesPerIteration, \* shared by the threads of a round
          Latencies

ASSUME BenchmarkAssumption ==
  /\ ThreadCounts \in Seq(Int)
  /\ NumIterations \in Nat /\ MessagesPerIteration \in Nat
  /\ Latencies \subseteq Nat

VARIABLES
  round,             \* the index of the current thread count
  main,              \* where the main thread is
  spawned, joined,
  thread,            \* where each logging thread is
  startedThreads,
  iteration, sent,   \* the loops of each thread
  latencies,
  logged,            \* the calls of log_func in this round
  reports

benchmarkVars == <<round, main, spawned, joined, thread, startedThreads, iteration, sent,
          latencies, logged, reports>>

Threads == 0..(Max({0} \union Range(ThreadCounts)) - 1)

thread_count == ThreadCounts[round]

MessagesForThread(t) ==
  MessagesPerIteration \div thread_count + (IF t < MessagesPerIteration % thread_count THEN 1 ELSE 0)

Percentiles == {<<1, 2>>, <<3, 4>>, <<9, 10>>, <<19, 20>>, <<99, 100>>, <<999, 1000>>}

\* Mutant: the rank is used as an index.
RankAsIndex(n, p) == LET rank == (n * p[1] + p[2] - 1) \div p[2] IN IF rank < n THEN rank ELSE n - 1

\* percentile_index: the rank rounded up, as an index from 0.
PercentileIndex(n, p) ==
  LET rank == (n * p[1] + p[2] - 1) \div p[2]
      i == IF rank = 0 THEN 0 ELSE rank - 1
  IN  IF i < n - 1 THEN i ELSE n - 1

BenchmarkInit ==
  /\ round = 1 /\ main = "idle" /\ spawned = 0 /\ joined = 0
  /\ thread = [t \in Threads |-> "none"]
  /\ startedThreads = 0
  /\ iteration = [t \in Threads |-> 0] /\ sent = [t \in Threads |-> 0]
  /\ latencies = [t \in Threads |-> <<>>]
  /\ logged = 0 /\ reports = <<>>

-----------------------------------------------------------------------------

\* run_benchmark without threads prints that there are no samples.
NoThreads ==
  /\ main = "idle" /\ round <= Len(ThreadCounts) /\ thread_count <= 0
  /\ reports' = Append(reports, [threads |-> 0, total |-> 0, logged |-> 0, samples |-> <<>>, ranks |-> <<>>])
  /\ round' = round + 1
  /\ UNCHANGED <<main, spawned, joined, thread, startedThreads, iteration, sent, latencies, logged>>

\* run_benchmark begins: everything it keeps is local to the round.
RunBenchmark ==
  /\ main = "idle" /\ round <= Len(ThreadCounts) /\ thread_count > 0
  /\ main' = "spawn" /\ spawned' = 0 /\ joined' = 0
  /\ thread' = [t \in Threads |-> "none"]
  /\ startedThreads' = 0
  /\ iteration' = [t \in Threads |-> 0] /\ sent' = [t \in Threads |-> 0]
  /\ latencies' = [t \in Threads |-> <<>>]
  /\ logged' = 0
  /\ UNCHANGED <<round, reports>>

Spawn ==
  /\ main = "spawn"
  /\ thread' = [thread EXCEPT ![spawned] = "created"]
  /\ spawned' = spawned + 1
  /\ main' = IF spawned + 1 = thread_count THEN "join" ELSE "spawn"
  /\ UNCHANGED <<round, joined, startedThreads, iteration, sent, latencies, logged, reports>>

\* An exception nobody catches ends the process: set_thread_affinity, of the
\* main thread or of a new one, or the creation of a thread.
Terminate ==
  /\ \/ main = "idle" /\ round <= Len(ThreadCounts) /\ thread_count > 0
     \/ main = "spawn"
     \/ main # "aborted" /\ \E t \in Threads : thread[t] = "created"
  /\ main' = "aborted"
  /\ UNCHANGED <<round, spawned, joined, thread, startedThreads, iteration, sent, latencies, logged, reports>>

\* Mutant: a thread without messages is not counted.
ArriveUncounted(t) ==
  /\ main # "aborted" /\ thread[t] = "created"
  /\ startedThreads' = startedThreads + (IF MessagesForThread(t) = 0 THEN 0 ELSE 1)
  /\ thread' = [thread EXCEPT ![t] = "waiting"]
  /\ UNCHANGED <<round, main, spawned, joined, iteration, sent, latencies, logged, reports>>

\* set_thread_affinity and on_thread_start, then the arrival at the barrier.
Arrive(t) ==
  /\ main # "aborted" /\ thread[t] = "created"
  /\ startedThreads' = startedThreads + 1
  /\ thread' = [thread EXCEPT ![t] = "waiting"]
  /\ UNCHANGED <<round, main, spawned, joined, iteration, sent, latencies, logged, reports>>

Passed(t) == thread' = [thread EXCEPT ![t] =
                          IF MessagesForThread(t) = 0 \/ NumIterations = 0 THEN "exit" ELSE "logging"]

\* Mutant: the barrier waits for the threads spawned so far.
PassSpawned(t) ==
  /\ main # "aborted" /\ thread[t] = "waiting"
  /\ startedThreads = spawned
  /\ Passed(t)
  /\ UNCHANGED <<round, main, spawned, joined, startedThreads, iteration, sent, latencies, logged, reports>>

PassBarrier(t) ==
  /\ main # "aborted" /\ thread[t] = "waiting"
  /\ startedThreads = thread_count
  /\ Passed(t)
  /\ UNCHANGED <<round, main, spawned, joined, startedThreads, iteration, sent, latencies, logged, reports>>

\* One call of log_func inside the timed region.
LogFunc(t) ==
  /\ main # "aborted" /\ thread[t] = "logging" /\ sent[t] < MessagesForThread(t)
  /\ sent' = [sent EXCEPT ![t] = @ + 1]
  /\ logged' = logged + 1
  /\ UNCHANGED <<round, main, spawned, joined, thread, startedThreads, iteration, latencies, reports>>

\* The end of an iteration: the latency per message is recorded.
EndIteration(t, l) ==
  /\ main # "aborted" /\ thread[t] = "logging" /\ sent[t] = MessagesForThread(t)
  /\ latencies' = [latencies EXCEPT ![t] = Append(@, l)]
  /\ iteration' = [iteration EXCEPT ![t] = @ + 1]
  /\ sent' = [sent EXCEPT ![t] = 0]
  /\ thread' = [thread EXCEPT ![t] = IF iteration[t] + 1 = NumIterations THEN "exit" ELSE "logging"]
  /\ UNCHANGED <<round, main, spawned, joined, startedThreads, logged, reports>>

OnThreadExit(t) ==
  /\ main # "aborted" /\ thread[t] = "exit"
  /\ thread' = [thread EXCEPT ![t] = "finished"]
  /\ UNCHANGED <<round, main, spawned, joined, startedThreads, iteration, sent, latencies, logged, reports>>

Joined == /\ joined' = joined + 1
          /\ main' = IF joined + 1 = thread_count THEN "report" ELSE "join"
          /\ UNCHANGED <<round, spawned, thread, startedThreads, iteration, sent, latencies, logged, reports>>

Join == main = "join" /\ thread[joined] = "finished" /\ Joined

\* What std::sort makes of the samples: the i-th is the i-th smallest one.
Sorted(s) ==
  [i \in 1..Len(s) |->
     CHOOSE v \in Range(s) : /\ Cardinality({k \in 1..Len(s) : s[k] < v}) < i
                             /\ Cardinality({k \in 1..Len(s) : s[k] <= v}) >= i]

\* The samples of all threads, sorted, and their percentiles.
Combined == FlattenSeq([t \in 1..thread_count |-> latencies[t - 1]])

Report ==
  /\ main = "report"
  /\ LET sorted == Sorted(Combined)
     IN  reports' = Append(reports,
           [threads |-> thread_count, total |-> NumIterations * MessagesPerIteration,
            logged |-> logged, samples |-> Combined,
            ranks |-> IF sorted = <<>> THEN <<>>
                      ELSE [p \in Percentiles |-> sorted[PercentileIndex(Len(sorted), p) + 1]]])
  /\ round' = round + 1
  /\ main' = "idle"
  /\ UNCHANGED <<spawned, joined, thread, startedThreads, iteration, sent, latencies, logged>>

MainStep == NoThreads \/ RunBenchmark \/ Spawn \/ Join \/ Report

\* What a thread does when it is scheduled.
ThreadStep(t) ==
  \/ Arrive(t) \/ PassBarrier(t) \/ LogFunc(t) \/ OnThreadExit(t)
  \/ \E l \in Latencies : EndIteration(t, l)

BenchmarkNext ==
  \/ MainStep
  \/ \E t \in Threads : ThreadStep(t)
  \/ Terminate

BenchmarkSpec == BenchmarkInit /\ [][BenchmarkNext]_benchmarkVars
BenchmarkFairSpec == BenchmarkSpec /\ WF_benchmarkVars(MainStep) /\ \A t \in Threads : WF_benchmarkVars(ThreadStep(t))

-----------------------------------------------------------------------------

\* Every variable has its type.
BenchmarkTypeOK ==
  /\ round \in 1..(Len(ThreadCounts) + 1)
  /\ main \in {"idle", "spawn", "join", "report", "aborted"}
  /\ spawned \in 0..Cardinality(Threads) /\ joined \in 0..Cardinality(Threads)
  /\ thread \in [Threads -> {"none", "created", "waiting", "logging", "exit", "finished"}]
  /\ startedThreads \in 0..Cardinality(Threads)
  /\ \A t \in Threads :
       /\ iteration[t] = Len(latencies[t]) /\ iteration[t] <= NumIterations
       /\ sent[t] \in 0..MessagesPerIteration
  /\ Len(reports) < round + 1

\* No thread is in its timed loop, or beyond it, while another one of the
\* round is still starting up: the barrier makes every sample one taken with
\* all threads running (wait_for_all_threads_to_start).  The arrivals it counts
\* never exceed the threads of the round (BenchmarkTypeOK).
MeasuredTogether ==
  /\ BenchmarkTypeOK
  /\ main \in {"spawn", "join"} =>
       \A t, u \in 0..(thread_count - 1) :
          thread[t] \in {"logging", "exit", "finished"} => thread[u] \notin {"none", "created"}

\* A report covers the whole round: every message it says was sent was sent,
\* the shares of the threads adding up to the round's messages, and every
\* thread that sent any contributed one sample per iteration.
ReportsComplete ==
  \A i \in 1..Len(reports) :
    LET r == reports[i]
        active == IF r.threads < MessagesPerIteration THEN r.threads ELSE MessagesPerIteration
    IN  r.logged = r.total /\ Len(r.samples) = NumIterations * active

\* A reported percentile is the nearest-rank one: the least sample that at
\* least that share of the samples does not exceed (percentile_index).
PercentilesRight ==
  \A i \in 1..Len(reports) :
    LET s == reports[i].samples
        Count(test(_)) == Cardinality({k \in 1..Len(s) : test(s[k])})
    IN  s # <<>> => \A p \in Percentiles :
          LET v == reports[i].ranks[p]
          IN  /\ Count(LAMBDA x : x <= v) * p[2] >= Len(s) * p[1]
              /\ Count(LAMBDA x : x < v) * p[2] < Len(s) * p[1]

\* What is reported is complete and right.
ReportsRight == ReportsComplete /\ PercentilesRight

\* The benchmark comes to its last report unless the process was ended: no
\* thread spins at the barrier for ever, also when there are fewer messages
\* than threads.
BenchmarkEnds == <>(main = "aborted" \/ Len(reports) = Len(ThreadCounts))

=============================================================================
