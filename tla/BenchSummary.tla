---------------------------- MODULE BenchSummary ----------------------------
(***************************************************************************)
(* What the benchmark makes of its runs (cmd/bench/main.go): the summary   *)
(* of a list of numbers with its percentiles, the result of one benchmark, *)
(* and the suite main builds from the repetitions.  A run is its outcome   *)
(* and one number, its latency; latencies are whole nanoseconds.           *)
(***************************************************************************)
EXTENDS Naturals, Sequences, FiniteSets, FiniteSetsExt, Functions, TLC

CONSTANTS
  Repeat,     \* -repeat
  RunLists    \* what the executions of one benchmark may return

ASSUME RepeatAssumption == Repeat \in Nat \ {0}

VARIABLES
  benchmarkResults,   \* of the repetitions so far
  suite,              \* the suite once built
  exit                \* running, reported, or failed

summaryVars == <<benchmarkResults, suite, exit>>

-----------------------------------------------------------------------------
Ascending(values) == SortSeq(values, LAMBDA x, y : x < y)

(* Faulty variant: the index is not brought down to start at zero. *)
PercentileIndexTooHigh(length, quantile) ==
  LET index == (quantile * length + 99) \div 100
  IN  IF index >= length THEN length - 1 ELSE index

(* ceil(quantile * length) - 1 within the slice, for a quantile in percent.*)
(* In floating point the product errs to no other integer: compared for    *)
(* every length up to two million and the three quantiles used.            *)
PercentileIndex(length, quantile) ==
  LET ceiling == (quantile * length + 99) \div 100
  IN  IF length = 1 \/ ceiling = 0 THEN 0
      ELSE IF ceiling > length THEN length - 1 ELSE ceiling - 1

(* sorted[index], for a slice that starts at 0. *)
Percentile(sorted, quantile) == sorted[PercentileIndex(Len(sorted), quantile) + 1]

(* The sum of values[i .. j], halved to keep the recursion flat. *)
RECURSIVE Sum(_, _, _)
Sum(values, i, j) ==
  LET mid == (i + j) \div 2
  IN  IF i = j THEN values[i] ELSE Sum(values, i, mid) + Sum(values, mid + 1, j)

Total(values) == Sum(values, 1, Len(values))

(* summarizeDurations; the other two differ in the type of the mean. *)
Summarize(values) ==
  LET sorted == Ascending(values)
  IN  [count |-> Len(values), min |-> sorted[1], max |-> sorted[Len(values)],
       avg |-> Total(sorted) \div Len(sorted),
       p50 |-> Percentile(sorted, 50), p95 |-> Percentile(sorted, 95),
       p99 |-> Percentile(sorted, 99)]

Latencies(runs) == [i \in DOMAIN runs |-> runs[i].latency]

CountStatus(runs, s) == Cardinality({i \in DOMAIN runs : runs[i].status = s})

(* The result of one benchmark whose runs all returned. *)
BenchmarkResult(runs) ==
  [runs |-> runs, latency |-> Summarize(Latencies(runs)),
   succeeded |-> CountStatus(runs, "succeeded"), failed |-> CountStatus(runs, "failed")]

(* A repetition is a success when none of its runs failed. *)
BuildSuiteResult(rs) ==
  [repeatCount |-> Len(rs),
   succeededRuns |-> Cardinality({i \in DOMAIN rs : rs[i].failed = 0}),
   failedRuns |-> Cardinality({i \in DOMAIN rs : rs[i].failed # 0}),
   latencyP95 |-> Summarize([i \in DOMAIN rs |-> rs[i].latency.p95]),
   latencyAvg |-> Summarize([i \in DOMAIN rs |-> rs[i].latency.avg])]

-----------------------------------------------------------------------------
NoSuite == [repeatCount |-> 0]

SuiteInit == benchmarkResults = <<>> /\ suite = NoSuite /\ exit = "running"

BenchmarkReturns ==
  /\ exit = "running"
  /\ Len(benchmarkResults) < Repeat
  /\ \E runs \in RunLists : benchmarkResults' = Append(benchmarkResults, BenchmarkResult(runs))
  /\ UNCHANGED <<suite, exit>>

(* A workflow not created or a benchmark that returned an error: exit 1,   *)
(* and the benchmarkResults before it are not reported.                             *)
BenchmarkFails ==
  /\ exit = "running"
  /\ Len(benchmarkResults) < Repeat
  /\ exit' = "failed"
  /\ UNCHANGED <<benchmarkResults, suite>>

ReportSuite ==
  /\ exit = "running"
  /\ Len(benchmarkResults) = Repeat
  /\ suite' = BuildSuiteResult(benchmarkResults)
  /\ exit' = "reported"
  /\ UNCHANGED benchmarkResults

SuiteNext == BenchmarkReturns \/ BenchmarkFails \/ ReportSuite

SuiteSpec == SuiteInit /\ [][SuiteNext]_summaryVars

-----------------------------------------------------------------------------
(* Nearest rank: the least of the values that q percent of them do not     *)
(* exceed.                                                                 *)
NearestRank(values, q) ==
  LET enough == {v \in Range(values) :
                   100 * Cardinality({i \in DOMAIN values : values[i] <= v}) >= q * Len(values)}
  IN  Min(enough)

Summarises(s, values) ==
  /\ s.count = Len(values)
  /\ s.min = Min(Range(values)) /\ s.max = Max(Range(values))
  /\ s.p50 = NearestRank(values, 50)
  /\ s.p95 = NearestRank(values, 95)
  /\ s.p99 = NearestRank(values, 99)
  /\ s.avg * Len(values) <= Total(values) /\ Total(values) < (s.avg + 1) * Len(values)

(* The figures reported are those of their definition: percentiles by      *)
(* nearest rank, whatever the length of the list and however often values  *)
(* repeat, and a suite about every repetition, of which one is successful  *)
(* when all its runs succeeded.                                            *)
StatisticsMatchDefinition ==
  /\ \A k \in DOMAIN benchmarkResults :
       Summarises(benchmarkResults[k].latency, Latencies(benchmarkResults[k].runs))
  /\ exit = "reported" =>
       /\ suite.repeatCount = Repeat
       /\ suite.succeededRuns + suite.failedRuns = Repeat
       /\ suite.succeededRuns =
            Cardinality({k \in 1 .. Repeat : \A i \in DOMAIN benchmarkResults[k].runs :
                           benchmarkResults[k].runs[i].status = "succeeded"})
       /\ Summarises(suite.latencyP95, [k \in 1 .. Repeat |-> benchmarkResults[k].latency.p95])
=============================================================================
