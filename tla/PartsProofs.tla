---------------------------- MODULE PartsProofs -----------------------------
(***************************************************************************)
(* Proofs about three parts that run on their own: the settings of a       *)
(* process, for any environment; the pool of the benchmark, for any number *)
(* of executions and any concurrency; and the console, for any number of   *)
(* executions, clicks and requests in flight.                              *)
(***************************************************************************)
EXTENDS Config, BenchPool, Console, TLAPS, FiniteSetTheorems

-----------------------------------------------------------------------------
(* What RunsOnItsSettings asks of one setting v, in use as n. *)
Agrees(k, v, n) ==
  \/ v = Unset /\ n = Fallback[k]
  \/ v.form = "number" /\ n = v.num
  \/ k \notin DurationKeys /\ v.form = "number and rest"

(* While a process runs, its environment is what it was loaded from. *)
ConfigInv ==
  /\ numerics \in [NumericKeys -> Raw]
  /\ settings.loaded =>
       /\ kind # "none"
       /\ \A k \in NumericKeys :
            /\ settings.num[k] \in Int /\ settings.num[k] > 0
            /\ Agrees(k, numerics[k], settings.num[k])

LEMMA RawIs ==
  ASSUME NEW v \in Raw
  PROVE  /\ v.form \in {"unset", "words", "number", "number and rest"} /\ v.num \in Int
         /\ v.form = "unset" <=> v = Unset
  <1>1. \/ v \in [form : {"unset", "words"}, num : {0}]
        \/ v \in [form : {"number", "number and rest"}, num : Numbers]
    BY Zenon DEF Raw
  <1>2. \E fm \in {"unset", "words", "number", "number and rest"}, n \in Int :
          v = [form |-> fm, num |-> n] /\ (fm = "unset" => n = 0)
    <2>1. CASE v \in [form : {"unset", "words"}, num : {0}]
      <3>0. PICK F, N : F = {"unset", "words"} /\ N = {0}
        BY Zenon
      <3>1. v = [form |-> v.form, num |-> v.num] /\ v.form \in F /\ v.num \in N
        <4>1. v \in [form : F, num : N]
          BY <2>1, <3>0, Zenon
        <4> QED
          BY <4>1, Zenon
      <3>2. v.num = 0 /\ v.num \in Int
        BY <3>0, <3>1
      <3>3. v.form \in {"unset", "words", "number", "number and rest"}
        BY <3>0, <3>1, Zenon
      <3> QED
        BY <3>1, <3>2, <3>3, Zenon
    <2>2. CASE v \in [form : {"number", "number and rest"}, num : Numbers]
      BY <2>2, ConfigAssumption, Zenon
    <2> QED
      BY <1>1, <2>1, <2>2, Zenon
  <1>3. PICK fm \in {"unset", "words", "number", "number and rest"}, n \in Int :
          v = [form |-> fm, num |-> n] /\ (fm = "unset" => n = 0)
    BY <1>2, Zenon
  <1>4. v.form = "unset" => v = Unset
    <2>1. v.form = fm
      BY <1>3, Zenon
    <2>2. fm = "unset" => v = [form |-> "unset", num |-> 0]
      BY <1>3, Zenon
    <2> QED
      BY <2>1, <2>2, Zenon DEF Unset
  <1>5. v = Unset => v.form = "unset"
    <2>1. Unset.form = "unset"
      BY Zenon DEF Unset
    <2> QED
      BY <2>1, Zenon
  <1> QED
    BY <1>3, <1>4, <1>5, Zenon

LEMMA FallbackIs == \A k \in NumericKeys : Fallback[k] \in Nat \ {0}
  BY DEF Fallback, NumericKeys, DurationKeys

(* A setting that is taken is positive, and the one that was written. *)
LEMMA ParsedIs ==
  ASSUME numerics \in [NumericKeys -> Raw], NEW k \in NumericKeys, Parsed[k].ok
  PROVE  /\ Parsed[k].num \in Int /\ Parsed[k].num > 0
         /\ Agrees(k, numerics[k], Parsed[k].num)
  <1>1. PICK v, b : v = numerics[k] /\ b = Fallback[k]
    BY Zenon
  <1>2. v \in Raw /\ b \in Nat \ {0}
    BY <1>1, FallbackIs, Zenon
  <1>3. /\ v.form \in {"unset", "words", "number", "number and rest"} /\ v.num \in Int
        /\ v.form = "unset" <=> v = Unset
    BY <1>2, RawIs, Zenon
  <1>4. Parsed[k] = IF k \in DurationKeys THEN DurationOrDefault(v, b) ELSE Int64OrDefault(v, b)
    BY <1>1, Zenon DEF Parsed
  <1>5. ~Refused.ok
    BY Zenon DEF Refused
  <1>6. CASE v.form = "unset"
    <2>1. Parsed[k] = [ok |-> TRUE, num |-> b]
      BY <1>4, <1>6, Zenon DEF DurationOrDefault, Int64OrDefault
    <2>2. Parsed[k].num = b
      BY <2>1
    <2>3. b \in Int /\ b > 0
      BY <1>2
    <2> QED
      BY <1>1, <1>3, <1>6, <2>2, <2>3, Zenon DEF Agrees
  <1>7. CASE v.form # "unset"
    <2>1. Parsed[k] = Refused
            \/ /\ Parsed[k] = Positive(v.num)
               /\ v.form = "number" \/ (k \notin DurationKeys /\ v.form = "number and rest")
      BY <1>3, <1>4, <1>7, Zenon DEF DurationOrDefault, Int64OrDefault
    <2>2. Parsed[k] = Positive(v.num) /\ v.num > 0
      BY <1>5, <2>1, Zenon DEF Positive
    <2>3. Parsed[k].num = v.num
      BY <2>2 DEF Positive
    <2>4. v.form = "number" \/ (k \notin DurationKeys /\ v.form = "number and rest")
      BY <1>5, <2>1, Zenon
    <2> QED
      BY <1>1, <1>3, <2>2, <2>3, <2>4, Zenon DEF Agrees
  <1> QED
    BY <1>6, <1>7, Zenon

LEMMA ConfigInvStep ==
  ASSUME ConfigInv, [ConfigNext]_configVars
  PROVE  ConfigInv'
  <1>1. ASSUME NEW b \in {"api", "worker"}, Load(b) PROVE ConfigInv'
    <2>1. PICK c : c = [loaded |-> TRUE, text |-> [k \in TextKeys |-> Named(k)],
                        num |-> [k \in NumericKeys |-> Parsed[k].num]]
      BY Zenon
    <2>2. numerics' = numerics /\ kind' # "none"
      BY <1>1, Zenon DEF Load
    <2>3. \/ settings' = NotLoaded
          \/ settings' = c /\ \A k \in NumericKeys : Parsed[k].ok
      BY <1>1, <2>1, Zenon DEF Load
    <2>4. CASE settings' = NotLoaded
      <3>1. ~settings'.loaded
        BY <2>4, Zenon DEF NotLoaded
      <3> QED
        BY <2>2, <3>1, Zenon DEF ConfigInv
    <2>5. CASE settings' = c /\ \A k \in NumericKeys : Parsed[k].ok
      <3>1. \A k \in NumericKeys : settings'.num[k] = Parsed[k].num
        BY <2>1, <2>5, Zenon
      <3>2. \A k \in NumericKeys :
              /\ Parsed[k].num \in Int /\ Parsed[k].num > 0
              /\ Agrees(k, numerics[k], Parsed[k].num)
        BY <2>5, ParsedIs, Zenon DEF ConfigInv
      <3> QED
        BY <2>2, <3>1, <3>2, Zenon DEF ConfigInv
    <2> QED
      BY <2>3, <2>4, <2>5, Zenon
  <1>2. CASE Exit
    <2>1. ~settings'.loaded /\ numerics' = numerics
      BY <1>2, Zenon DEF Exit, NotLoaded
    <2> QED
      BY <2>1, Zenon DEF ConfigInv
  <1>3. CASE Edit
    <2>1. kind = "none" /\ settings' = settings
      BY <1>3, Zenon DEF Edit
    <2>2. numerics' \in [NumericKeys -> Raw]
      BY <1>3, Zenon DEF Edit, ConfigInv
    <2> QED
      BY <2>1, <2>2, Zenon DEF ConfigInv
  <1>4. CASE UNCHANGED configVars
    BY <1>4, Zenon DEF configVars, ConfigInv
  <1> QED
    BY <1>1, <1>2, <1>3, <1>4, Zenon DEF ConfigNext

(* Every process that starts runs on the numbers and durations of its      *)
(* environment, or their defaults, and does not start on anything else but *)
(* a REDIS_RECLAIM_COUNT with something after its number; the fallbacks of *)
(* normalizeConsumeOptions, OpenWithRetry, WaitForReady and NewPublisher   *)
(* never take effect, for any numbers written and any number of edits.     *)
THEOREM RunsOnItsSettingsHolds == ConfigSpec => []RunsOnItsSettings
  <1>1. ConfigInit => ConfigInv
    <2> SUFFICES ASSUME ConfigInit PROVE ConfigInv
      BY Zenon
    <2>1. Unset \in Raw
      BY Zenon DEF Unset, Raw
    <2>2. ~settings.loaded
      BY Zenon DEF ConfigInit, NotLoaded
    <2> QED
      BY <2>1, <2>2, Zenon DEF ConfigInit, ConfigInv
  <1>2. ConfigInv => RunsOnItsSettings
    <2> SUFFICES ASSUME ConfigInv, settings.loaded, NEW k \in NumericKeys
                 PROVE  Agrees(k, numerics[k], Effective(k))
      BY Zenon DEF RunsOnItsSettings, Agrees
    <2>1. settings.num[k] \in Int /\ settings.num[k] > 0 /\ Agrees(k, numerics[k], settings.num[k])
      BY Zenon DEF ConfigInv
    <2>2. Effective(k) = settings.num[k]
      BY <2>1 DEF Effective
    <2> QED
      BY <2>1, <2>2, Zenon
  <1> QED
    BY <1>1, <1>2, ConfigInvStep, PTL DEF ConfigSpec

-----------------------------------------------------------------------------
(* The pool of the benchmark. *)

PoolType ==
  /\ loop \in {"idle", "add", "acquire", "wait", "returned"}
  /\ next \in Nat \ {0}
  /\ wg \in Nat /\ sem \in Nat
  /\ run \in [Runs -> {"none", "running", "release", "done", "gone"}]
  /\ results \in [Runs -> {"none", "succeeded", "failed"}]
  /\ runErr \in Nat

(* The goroutines with a place in the channel. *)
Holding == {i \in Runs : run[i] \in {"running", "release"}}

(* What the WaitGroup counts: goroutines that have not called Done, and    *)
(* the one about to be launched.                                           *)
Counted ==
  {i \in Runs : run[i] \in {"running", "release", "done"}
                \/ (loop = "acquire" /\ i = next)}

(* The launching loop is at next: exactly the runs before it exist. *)
LoopInv ==
  /\ \A i \in Runs : run[i] = "none" <=> i >= next
  /\ loop = "acquire" => next \in Runs
  /\ loop \in {"wait", "returned"} => next > RunCount

CountInv ==
  /\ sem = Cardinality(Holding) /\ sem <= Concurrency
  /\ wg = Cardinality(Counted)
  /\ loop = "returned" => wg = 0

(* A run that returned left a result or an error behind. *)
ResultInv ==
  /\ \A i \in Runs : run[i] \in {"none", "running"} => results[i] = "none"
  /\ \A i \in Runs : run[i] \notin {"none", "running"} /\ results[i] = "none" => runErr # 0
  /\ runErr # 0 =>
       runErr \in Runs /\ run[runErr] \notin {"none", "running"} /\ results[runErr] = "none"

PoolInv == PoolType /\ LoopInv /\ CountInv /\ ResultInv

LEMMA RunsFinite ==
  /\ Runs \subseteq Nat
  /\ IsFiniteSet(Runs) /\ Cardinality(Runs) = RunCount
  /\ \A S \in SUBSET Runs : IsFiniteSet(S) /\ Cardinality(S) \in Nat
<1>1. IsFiniteSet(Runs) /\ Cardinality(Runs) = RunCount
  BY FS_Interval, PoolAssumption DEF Runs
<1>2. \A S \in SUBSET Runs : IsFiniteSet(S) /\ Cardinality(S) \in Nat
  BY <1>1, FS_Subset, FS_CardinalityType, Zenon
<1> QED BY <1>1, <1>2 DEF Runs

LEMMA InitPoolInv == PoolInit => PoolInv
<1> SUFFICES ASSUME PoolInit PROVE PoolInv
  BY Zenon
<1>1. Holding = {} /\ Counted = {}
  BY Zenon DEF PoolInit, Holding, Counted
<1>2. CountInv
  BY <1>1, FS_EmptySet, PoolAssumption DEF CountInv, PoolInit
<1> QED BY <1>2, PoolAssumption DEF PoolInit, PoolInv, PoolType, LoopInv, ResultInv, Runs

LEMMA AddStep == PoolInv /\ Add => PoolInv'
<1> SUFFICES ASSUME PoolInv, Add PROVE PoolInv'
  BY Zenon
<1> USE DEF PoolInv, Add
<1>1. PoolType' /\ LoopInv' /\ ResultInv'
  BY PoolAssumption DEF PoolType, LoopInv, ResultInv, Runs
<1>2. Holding' = Holding
  BY Zenon DEF Holding
<1>3. CASE next \in Runs
  <2>1. Counted' = Counted \cup {next} /\ next \notin Counted
    BY <1>3 DEF Counted, LoopInv, PoolType
  <2>2. Cardinality(Counted') = Cardinality(Counted) + 1
    BY <2>1, FS_AddElement, RunsFinite, Zenon DEF Counted
  <2> QED BY <1>1, <1>2, <1>3, <2>2, Zenon DEF CountInv
<1>4. CASE next \notin Runs
  <2>1. Counted' = Counted
    BY <1>4, Zenon DEF Counted
  <2> QED BY <1>1, <1>2, <1>4, <2>1, Zenon DEF CountInv
<1> QED BY <1>3, <1>4, Zenon

LEMMA LaunchStep == PoolInv /\ Launch => PoolInv'
<1> SUFFICES ASSUME PoolInv, Launch PROVE PoolInv'
  BY Zenon
<1> USE DEF PoolInv, Launch
<1>1. next \in Runs /\ run[next] = "none" /\ next \in Nat
  BY DEF LoopInv, PoolType
<1>2. PoolType' /\ ResultInv'
  BY <1>1 DEF PoolType, ResultInv
<1>3. LoopInv'
  BY <1>1 DEF LoopInv, PoolType, Runs
<1>4. Holding' = Holding \cup {next} /\ next \notin Holding
  BY <1>1, Zenon DEF Holding, PoolType
<1>5. Cardinality(Holding') = Cardinality(Holding) + 1
  BY <1>4, FS_AddElement, RunsFinite, Zenon DEF Holding
<1>6. Counted' = Counted
  BY <1>1, Zenon DEF Counted, PoolType
<1> QED BY <1>2, <1>3, <1>5, <1>6, PoolAssumption DEF CountInv, PoolType

LEMMA FinishStep == ASSUME PoolInv, NEW i \in Runs, NEW r \in {"succeeded", "failed", "error"}, Finish(i, r)
                    PROVE PoolInv'
<1> USE DEF PoolInv, Finish
<1>1. i \in Nat \ {0}
  BY DEF Runs
<1>2. PoolType' /\ LoopInv'
  BY <1>1, Zenon DEF PoolType, LoopInv
<1>3. ResultInv'
  BY <1>1, Zenon DEF PoolType, ResultInv
<1>4. Holding' = Holding /\ Counted' = Counted
  BY Zenon DEF Holding, Counted, PoolType
<1> QED BY <1>2, <1>3, <1>4, Zenon DEF CountInv

LEMMA ReleaseStep == ASSUME PoolInv, NEW i \in Runs, Release(i) PROVE PoolInv'
<1> USE DEF PoolInv, Release
<1>1. Holding' = Holding \ {i} /\ i \in Holding /\ Counted' = Counted
  BY Zenon DEF Holding, Counted, PoolType
<1>2. Cardinality(Holding') = Cardinality(Holding) - 1 /\ Cardinality(Holding') \in Nat
  BY <1>1, FS_RemoveElement, RunsFinite, Zenon DEF Holding
<1>3. PoolType' /\ CountInv'
  BY <1>1, <1>2, PoolAssumption DEF PoolType, CountInv
<1> QED BY <1>3, Zenon DEF PoolType, LoopInv, ResultInv

LEMMA DoneStep == ASSUME PoolInv, NEW i \in Runs, Done(i) PROVE PoolInv'
<1> USE DEF PoolInv, Done
<1>1. i # next \/ loop # "acquire"
  BY DEF LoopInv, PoolType
<1>2. Counted' = Counted \ {i} /\ i \in Counted /\ Holding' = Holding
  BY <1>1, Zenon DEF Holding, Counted, PoolType
<1>3. Cardinality(Counted') = Cardinality(Counted) - 1 /\ Cardinality(Counted') \in Nat
  BY <1>2, FS_RemoveElement, RunsFinite, ZenonT(30) DEF Counted
<1>4. PoolType' /\ CountInv'
  BY <1>2, <1>3 DEF PoolType, CountInv
<1> QED BY <1>4, Zenon DEF PoolType, LoopInv, ResultInv

LEMMA PoolInvStep == PoolInv /\ [PoolNext]_poolVars => PoolInv'
<1> SUFFICES ASSUME PoolInv, [PoolNext]_poolVars PROVE PoolInv'
  BY Zenon
<1>1. CASE Return
  <2>1. Holding' = Holding /\ Counted' = Counted
    BY <1>1, Zenon DEF Return, Holding, Counted
  <2> QED BY <1>1, <2>1, Zenon DEF Return, PoolInv, PoolType, LoopInv, CountInv, ResultInv
<1>3. CASE RunBenchmark
  <2>1. Holding' = Holding /\ Counted' = Counted
    BY <1>3, Zenon DEF RunBenchmark, Holding, Counted
  <2> QED BY <1>3, <2>1, Zenon DEF RunBenchmark, PoolInv, PoolType, LoopInv, CountInv, ResultInv
<1>2. CASE UNCHANGED poolVars
  BY <1>2, Zenon DEF poolVars, PoolInv, PoolType, LoopInv, CountInv, ResultInv, Holding, Counted
<1> QED BY <1>1, <1>2, <1>3, AddStep, LaunchStep, FinishStep, ReleaseStep, DoneStep, Zenon
           DEF PoolNext, Goroutine

(* The channel keeps the benchmark within -concurrency. *)
THEOREM AtMostConcurrencyHolds == PoolSpec => []AtMostConcurrency
<1>1. PoolInv => AtMostConcurrency
  <2> SUFFICES ASSUME PoolInv PROVE AtMostConcurrency
    BY Zenon
  <2> DEFINE running == {i \in Runs : run[i] = "running"}
  <2>1. running \in SUBSET Holding /\ IsFiniteSet(Holding) /\ Cardinality(Holding) \in Nat
    BY RunsFinite, Zenon DEF Holding
  <2>2. Cardinality(running) <= Cardinality(Holding) /\ Cardinality(running) \in Nat
    BY <2>1, FS_Subset, FS_CardinalityType, Zenon
  <2> QED BY <2>1, <2>2, PoolAssumption DEF AtMostConcurrency, PoolInv, CountInv
<1> QED BY <1>1, InitPoolInv, PoolInvStep, PTL DEF PoolSpec

(* When runBenchmark returns all its goroutines have ended, and without an *)
(* error the counts it reports add up to the executions.                   *)
THEOREM ReturnIsCompleteHolds == PoolSpec => []ReturnIsComplete
<1>1. PoolInv => ReturnIsComplete
  <2> SUFFICES ASSUME PoolInv, loop = "returned" PROVE ReturnIsComplete
    BY Zenon DEF ReturnIsComplete
  <2>1. Counted = {}
    BY FS_EmptySet, RunsFinite, Zenon DEF PoolInv, CountInv, Counted
  <2>2. \A i \in Runs : run[i] = "gone"
    BY <2>1, PoolAssumption DEF PoolInv, PoolType, LoopInv, Counted, Runs
  <2>3. runErr = 0 => \A i \in Runs : results[i] # "none"
    BY <2>2, Zenon DEF PoolInv, ResultInv
  <2>4. ASSUME runErr = 0 PROVE Succeeded + Failed = RunCount
    <3> DEFINE S == {i \in Runs : results[i] = "succeeded"}
               F == {i \in Runs : results[i] = "failed"}
    <3>1. S \cup F = Runs /\ S \cap F = {}
      BY <2>3, <2>4, Zenon DEF PoolInv, PoolType
    <3>2. Cardinality(S \cup F) = Cardinality(S) + Cardinality(F) - Cardinality(S \cap F)
      BY FS_Union, RunsFinite, Zenon
    <3>3. Cardinality(S) \in Nat /\ Cardinality(F) \in Nat
      BY RunsFinite, Zenon
    <3> QED BY <3>1, <3>2, <3>3, FS_EmptySet, RunsFinite DEF Succeeded, Failed
  <2> QED BY <2>2, <2>3, <2>4, Zenon DEF ReturnIsComplete, PoolInv, ResultInv
<1> QED BY <1>1, InitPoolInv, PoolInvStep, PTL DEF PoolSpec

-----------------------------------------------------------------------------
(* The console. *)

IsAction(a) ==
  /\ a = [kind |-> a.kind, id |-> a.id, n |-> a.n, phase |-> a.phase, list |-> a.list]
  /\ a.n \in Nat

(* The loading flag keeps actions apart: there is at most one under way,   *)
(* and it is the last one clicked.                                         *)
ActionInv ==
  /\ loading \in BOOLEAN
  /\ clicks \in Nat /\ selectedBy \in Nat /\ selectedBy <= clicks
  /\ \A a \in actions : IsAction(a) /\ a.n = clicks
  /\ ~loading => actions = {}
  /\ \A a, b \in actions : a = b

LEMMA ActionInvInit == ConsoleInit => ActionInv
<1> SUFFICES ASSUME ConsoleInit PROVE ActionInv
  BY Zenon
<1>1. actions = {} /\ loading = FALSE /\ clicks = 0 /\ selectedBy = 0
  BY Zenon DEF ConsoleInit
<1>2. clicks \in Nat /\ selectedBy \in Nat /\ selectedBy <= clicks
  BY <1>1
<1>3. loading \in BOOLEAN
  BY <1>1, Zenon
<1> QED BY <1>1, <1>2, <1>3, Zenon DEF ActionInv

(* Steps that leave the actions alone. *)
LEMMA ActionInvSame ==
  ASSUME ActionInv, UNCHANGED actionVars
  PROVE  ActionInv'
BY Zenon DEF ActionInv, actionVars

LEMMA OneAction ==
  ASSUME ActionInv, NEW a \in actions
  PROVE  actions = {a} /\ IsAction(a) /\ a.n = clicks
BY Zenon DEF ActionInv

(* The one action goes on, as b. *)
LEMMA GoesOn ==
  ASSUME ActionInv, NEW a \in actions, NEW b, IsAction(b), b.n = a.n,
         actions' = (actions \ {a}) \cup {b}, clicks' = clicks, loading' = loading,
         selectedBy' \in {selectedBy, a.n}
  PROVE  ActionInv'
<1>1. actions = {a} /\ a.n = clicks /\ loading
  BY OneAction, Zenon DEF ActionInv
<1>2. actions' = {b}
  BY <1>1, Zenon
<1>3. selectedBy' \in Nat /\ selectedBy' <= clicks'
  BY <1>1 DEF ActionInv
<1> QED BY <1>1, <1>2, <1>3, Zenon DEF ActionInv

(* The one action returns. *)
LEMMA ActionEnds ==
  ASSUME ActionInv, NEW a \in actions, Returns(a), clicks' = clicks,
         selectedBy' \in {selectedBy, a.n}
  PROVE  ActionInv'
<1>1. actions = {a} /\ a.n = clicks
  BY OneAction, Zenon
<1>2. actions' = {} /\ loading' = FALSE
  BY <1>1, Zenon DEF Returns
<1>3. selectedBy' \in Nat /\ selectedBy' <= clicks'
  BY <1>1 DEF ActionInv
<1> QED BY <1>2, <1>3, Zenon DEF ActionInv

LEMMA ClickStep ==
  ASSUME ActionInv, Click
  PROVE  ActionInv' /\ selectedBy' = selectedBy
<1>1. PICK k, e : ~loading /\ Ask(k, e)
  BY Zenon DEF Click, Button
<1> DEFINE b == [kind |-> k, id |-> e, n |-> clicks + 1, phase |-> "sent", list |-> {}]
<1>2. actions = {} /\ actions' = actions \cup {b} /\ clicks' = clicks + 1 /\ loading' = TRUE
      /\ selectedBy' = selectedBy
  BY <1>1, Zenon DEF Ask, ActionInv
<1>3. IsAction(b) /\ b.n = clicks + 1
  BY DEF IsAction, ActionInv
<1> HIDE DEF b
<1>4. actions' = {b}
  BY <1>2, Zenon
<1> QED BY <1>2, <1>3, <1>4 DEF ActionInv

LEMMA ServeStep ==
  ASSUME ActionInv, NEW a \in actions, Serve(a)
  PROVE  ActionInv' /\ selectedBy' = selectedBy
<1>1. PICK p : Becomes(a, p)
  BY Zenon DEF Serve
<1> DEFINE b == [a EXCEPT !.phase = p]
<1>2. IsAction(b) /\ b.n = a.n
  BY OneAction DEF IsAction
<1>3. actions' = (actions \ {a}) \cup {b} /\ clicks' = clicks /\ loading' = loading
      /\ selectedBy' = selectedBy
  BY <1>1, Zenon DEF Becomes, Serve
<1> HIDE DEF b
<1> QED BY <1>2, <1>3, GoesOn, Zenon

LEMMA ReplyStep ==
  ASSUME ActionInv, NEW a \in actions, ActionReply(a)
  PROVE  ActionInv' /\ selectedBy' \in {selectedBy, a.n}
<1>1. clicks' = clicks /\ selectedBy' \in {selectedBy, a.n}
  BY Zenon DEF ActionReply, Selects
<1>2. CASE Returns(a)
  BY <1>1, <1>2, ActionEnds, Zenon
<1>3. CASE actions' = (actions \ {a}) \cup {[a EXCEPT !.phase = "refresh", !.list = dead]}
           /\ loading' = loading
  <2> DEFINE c == [a EXCEPT !.phase = "refresh"]
             b == [c EXCEPT !.list = dead]
  <2>0. IsAction(c) /\ c.n = a.n
    BY OneAction DEF IsAction
  <2>1. IsAction(b) /\ b.n = a.n
    <3> HIDE DEF c
    <3> QED BY <2>0 DEF IsAction
  <2>2. actions' = (actions \ {a}) \cup {b}
    BY <1>3, Zenon
  <2> HIDE DEF b
  <2> QED BY <1>1, <1>3, <2>1, <2>2, GoesOn, Zenon
<1> QED BY <1>1, <1>2, <1>3, Zenon DEF ActionReply

(* Every step keeps the invariant and never goes back to an earlier click. *)
LEMMA ConsoleStep ==
  ASSUME ActionInv, [ConsoleNext]_consoleVars
  PROVE  ActionInv' /\ selectedBy' >= selectedBy
<1>1. CASE UNCHANGED actionVars
  BY <1>1, ActionInvSame DEF actionVars, ActionInv
<1>2. CASE Click
  BY <1>2, ClickStep DEF ActionInv
<1>3. CASE Actions
  <2>1. PICK a \in actions : Serve(a) \/ ActionReply(a)
    BY <1>3, Zenon DEF Actions
  <2>2. ActionInv' /\ selectedBy' \in {selectedBy, a.n}
    BY <2>1, ServeStep, ReplyStep, Zenon
  <2>3. a.n = clicks /\ selectedBy <= clicks /\ selectedBy \in Nat /\ clicks \in Nat
    BY OneAction, Zenon DEF ActionInv
  <2> QED BY <2>2, <2>3
<1>4. CASE \/ \E e \in Executions : EngineMoves(e)
           \/ EffectRuns \/ PollTick \/ ListTick \/ Replies
  BY <1>1, <1>4, Zenon DEF EngineMoves, EffectRuns, PollTick, ListTick, Replies, PollReply, PollFails,
                    ListReply, ListFails
<1>5. CASE UNCHANGED consoleVars
  BY <1>1, <1>5, Zenon DEF consoleVars
<1> QED BY <1>2, <1>3, <1>4, <1>5, Zenon DEF ConsoleNext

(* No reply to an earlier action takes the console's view back: the        *)
(* buttons are disabled until the action under way has returned.           *)
THEOREM LastActionIsShownHolds == ConsoleSpec => LastActionIsShown
<1>1. ActionInv /\ [ConsoleNext]_consoleVars => ActionInv'
  BY ConsoleStep, Zenon
<1>2. ActionInv /\ [ConsoleNext]_consoleVars => [selectedBy' >= selectedBy]_consoleVars
  BY ConsoleStep, Zenon
<1> QED BY <1>1, <1>2, ActionInvInit, PTL DEF ConsoleSpec, LastActionIsShown
=============================================================================
