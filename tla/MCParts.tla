------------------------------ MODULE MCParts ------------------------------
(***************************************************************************)
(* The parts that work on their own input only, one of them at a time:     *)
(* definitions and the scenarios of the benchmark, the settings of a       *)
(* process, the pool and the suite of the benchmark, and the order in which *)
(* a publisher works off its backlog.                                       *)
(*                                                                         *)
(* Definitions: two task names, one also padded, and the blank string, in  *)
(* every place a name stands.  Handler keys and numbers vary freely with   *)
(* up to one task; with two tasks either two handlers, or a blank key and  *)
(* a negative number; with three tasks one handler and zero.  Flags and    *)
(* settings have numbers on both sides of the bounds that are checked.     *)
(***************************************************************************)
EXTENDS BenchScenario, Config, BenchPool, BenchSummary, OutboxOrder

CONSTANTS a, b, h1, h2

Plain(t) == [text |-> t, padded |-> FALSE]

MCRaws == {Plain(a), Plain(b), Plain(Blank), [text |-> a, padded |-> TRUE]}

TaskSpecs(keys, numbers) ==
  [name : MCRaws, handlerKey : keys, maxAttempts : numbers, backoffSeconds : numbers, nextTask : MCRaws]

MCDefinitions ==
  [entryTask : MCRaws,
   tasks : SeqOf(TaskSpecs({Plain(Blank), Plain(h1), Plain(h2)}, {-1, 0}), 1)
           \cup [1 .. 2 -> TaskSpecs({Plain(h1), Plain(h2)}, {0})]
           \cup [1 .. 2 -> TaskSpecs({Plain(Blank), Plain(h1)}, {-1, 2})]
           \cup [1 .. 3 -> TaskSpecs({Plain(h1)}, {0})]]

MCSample ==
  [entryTask |-> Plain(a),
   tasks |-> <<[name |-> Plain(a), handlerKey |-> Plain(h1), maxAttempts |-> 0,
                backoffSeconds |-> 0, nextTask |-> Plain(Blank)]>>]

MCFlags ==
  [scenario : Scenarios \cup {"other"}, maxAttempts : {-1, 0, 1, 3},
   backoffSeconds : {-1, 0, 1}, chainLength : 0 .. 6]

MCNumbers == {-1, 0, 1, 45}

(* Every list of up to three runs over three latencies, and longer lists   *)
(* of different latencies in a mixed order, of the lengths at which the    *)
(* rounding of a percentile changes.                                       *)
MCRun(outcome, latency) == [status |-> outcome, latency |-> latency]

MCRunLists ==
  UNION {[1 .. n -> {MCRun(s, l) : s \in {"succeeded", "failed"}, l \in {1, 2, 4}}] : n \in 1 .. 3}
    \cup {[i \in 1 .. n |-> MCRun("succeeded", (7 * i) % 211)] : n \in {4, 19, 20, 21, 99, 100, 101, 120}}

-----------------------------------------------------------------------------
VARIABLE part   \* the part at work

partVars == <<part, definitionVars, flags, configVars, poolVars, summaryVars, orderVars>>

PartsInit ==
  /\ \/ part = "definitions" /\ DefinitionInit /\ flags = NoFlags
     \/ part = "definitions" /\ ScenarioInit
     \/ /\ part \in {"settings", "pool", "suite", "outbox"}
        /\ definition = Omitted /\ stage = "submitted" /\ rows = <<>> /\ flags = NoFlags
  /\ ConfigInit
  /\ PoolInit
  /\ SuiteInit
  /\ OrderInit

PartsNext ==
  /\ \/ /\ part = "definitions" /\ UNCHANGED <<configVars, poolVars, summaryVars, orderVars>>
        /\ \/ flags = NoFlags /\ DefinitionNext /\ UNCHANGED flags
           \/ flags # NoFlags /\ ScenarioNext
     \/ part = "settings" /\ ConfigNext /\ UNCHANGED <<definitionVars, flags, poolVars, summaryVars, orderVars>>
     \/ part = "pool" /\ PoolNext /\ UNCHANGED <<definitionVars, flags, configVars, summaryVars, orderVars>>
     \/ part = "suite" /\ SuiteNext /\ UNCHANGED <<definitionVars, flags, configVars, poolVars, orderVars>>
     \/ part = "outbox" /\ OrderNext /\ UNCHANGED <<definitionVars, flags, configVars, poolVars, summaryVars>>
  /\ UNCHANGED part

PartsSpec == PartsInit /\ [][PartsNext]_partVars /\ PoolFairness /\ OrderFairness
=============================================================================
