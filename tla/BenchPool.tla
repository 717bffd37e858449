----------------------------- MODULE BenchPool -----------------------------
(***************************************************************************)
(* The concurrency of the benchmark (runBenchmark of cmd/bench/main.go):   *)
(* one goroutine per execution, at most Concurrency at a time by a         *)
(* buffered channel, their results in a slice each writes one place of,    *)
(* the first error kept by a sync.Once, and a WaitGroup for the end.       *)
(* What a single run does is BenchRun; here it succeeds, fails or errs.    *)
(***************************************************************************)
EXTENDS Naturals, FiniteSets

CONSTANTS
  RunCount,      \* -executions
  Concurrency    \* -concurrency

(* main exits on any other value of the two flags. *)
ASSUME PoolAssumption == RunCount \in Nat \ {0} /\ Concurrency \in Nat \ {0}

VARIABLES
  loop,      \* runBenchmark: idle, in its launching loop at add or
             \* acquire, wait, or returned
  next,      \* the index it is at
  wg,        \* the WaitGroup's counter
  sem,       \* places taken in the channel
  run,       \* each goroutine: none, running, release, done, gone
  results,   \* what each run returned, "none" before
  runErr     \* the run whose error is kept, 0 without one

poolVars == <<loop, next, wg, sem, run, results, runErr>>

Runs == 1 .. RunCount

PoolInit ==
  /\ loop = "idle"
  /\ next = 1
  /\ wg = 0
  /\ sem = 0
  /\ run = [i \in Runs |-> "none"]
  /\ results = [i \in Runs |-> "none"]
  /\ runErr = 0

-----------------------------------------------------------------------------
(* main calls runBenchmark. *)
RunBenchmark ==
  /\ loop = "idle"
  /\ loop' = "add"
  /\ UNCHANGED <<next, wg, sem, run, results, runErr>>

(* wg.Add(1), or the loop is over. *)
Add ==
  /\ loop = "add"
  /\ IF next \in Runs
     THEN loop' = "acquire" /\ wg' = wg + 1
     ELSE loop' = "wait" /\ UNCHANGED wg
  /\ UNCHANGED <<next, sem, run, results, runErr>>

(* A place in the channel, then the goroutine. *)
Launch ==
  /\ loop = "acquire"
  /\ sem < Concurrency
  /\ sem' = sem + 1
  /\ run' = [run EXCEPT ![next] = "running"]
  /\ next' = next + 1
  /\ loop' = "add"
  /\ UNCHANGED <<wg, results, runErr>>

(* Run i returned r: its own place of results, or the error. *)
Finish(i, r) ==
  /\ run[i] = "running"
  /\ IF r = "error"
     THEN runErr' = (IF runErr = 0 THEN i ELSE runErr) /\ UNCHANGED results
     ELSE results' = [results EXCEPT ![i] = r] /\ UNCHANGED runErr
  /\ run' = [run EXCEPT ![i] = "release"]
  /\ UNCHANGED <<loop, next, wg, sem>>

(* Faulty variant: an early return keeps the place. *)
ReleaseUnlessError(i) ==
  /\ run[i] = "release"
  /\ sem' = IF results[i] = "none" THEN sem ELSE sem - 1
  /\ run' = [run EXCEPT ![i] = "done"]
  /\ UNCHANGED <<loop, next, wg, results, runErr>>

(* The deferred calls, last one first: the place, then wg.Done. *)
Release(i) ==
  /\ run[i] = "release"
  /\ sem' = sem - 1
  /\ run' = [run EXCEPT ![i] = "done"]
  /\ UNCHANGED <<loop, next, wg, results, runErr>>

Done(i) ==
  /\ run[i] = "done"
  /\ wg' = wg - 1
  /\ run' = [run EXCEPT ![i] = "gone"]
  /\ UNCHANGED <<loop, next, sem, results, runErr>>

(* Faulty variant: no waiting for the goroutines. *)
ReturnAtOnce ==
  /\ loop = "wait"
  /\ loop' = "returned"
  /\ UNCHANGED <<next, wg, sem, run, results, runErr>>

(* wg.Wait; then the error is returned, or results are counted. *)
Return ==
  /\ loop = "wait"
  /\ wg = 0
  /\ loop' = "returned"
  /\ UNCHANGED <<next, wg, sem, run, results, runErr>>

Goroutine(i) ==
  (\E r \in {"succeeded", "failed", "error"} : Finish(i, r)) \/ Release(i) \/ Done(i)

PoolNext == RunBenchmark \/ Add \/ Launch \/ Return \/ (\E i \in Runs : Goroutine(i))

PoolSpec == PoolInit /\ [][PoolNext]_poolVars

(* Goroutines are scheduled, and a run ends (BenchEnds, or its time-out). *)
PoolFairness ==
  /\ WF_poolVars(Add \/ Launch \/ Return)
  /\ \A i \in Runs : WF_poolVars(Goroutine(i))

PoolLiveSpec == PoolSpec /\ PoolFairness

-----------------------------------------------------------------------------
Succeeded == Cardinality({i \in Runs : results[i] = "succeeded"})
Failed == Cardinality({i \in Runs : results[i] = "failed"})

(* No more executions are driven at a time than -concurrency says. *)
AtMostConcurrency == Cardinality({i \in Runs : run[i] = "running"}) <= Concurrency

(* When runBenchmark returns no goroutine is left behind that could still  *)
(* write, and without an error every run has its result, so that succeeded *)
(* and failed runs add up to the executions asked for.                     *)
ReturnIsComplete ==
  loop = "returned" =>
    /\ \A i \in Runs : run[i] = "gone"
    /\ runErr = 0 => \A i \in Runs : results[i] # "none"
    /\ runErr = 0 => Succeeded + Failed = RunCount
    /\ runErr # 0 => results[runErr] = "none"

(* A benchmark that was begun comes to its end, whatever its runs return. *)
PoolEnds == (loop # "idle") ~> (loop = "returned")
=============================================================================
