--------------------------- MODULE BenchScenario ---------------------------
(***************************************************************************)
(* The workflow definitions the benchmark submits (buildScenarioSpec of    *)
(* cmd/bench/main.go) for the flags main accepts, taken through what the   *)
(* service does with a definition: validation, trigger, and the chain of   *)
(* lookups of the workers (WorkflowDefinition).                            *)
(***************************************************************************)
EXTENDS WorkflowDefinition

CONSTANTS
  Flags,     \* combinations of flags on the command line
  NoFlags    \* in their place when a definition is not the benchmark's

VARIABLE flags

-----------------------------------------------------------------------------
Text(t) == [text |-> t, padded |-> FALSE]

Step(i) == Text(<<"step", i>>)

Task(name, handlerKey, f, nextTask) ==
  [name |-> name, handlerKey |-> Text(handlerKey), maxAttempts |-> f.maxAttempts,
   backoffSeconds |-> f.backoffSeconds, nextTask |-> nextTask]

(* Faulty variant: the last step has a next_task as well. *)
DeepChainOpen(f) ==
  [entryTask |-> Step(1),
   tasks |-> [i \in 1 .. f.chainLength |->
                Task(Step(i), IF i % 2 = 0 THEN "notifications.send" ELSE "sample.echo",
                     f, Step(i + 1))]]

(* Every second step sends a notification; all but the last have a next. *)
DeepChain(f) ==
  [entryTask |-> Step(1),
   tasks |-> [i \in 1 .. f.chainLength |->
                Task(Step(i), IF i % 2 = 0 THEN "notifications.send" ELSE "sample.echo",
                     f, IF i < f.chainLength THEN Step(i + 1) ELSE Text(Blank))]]

SingleTask(handlerKey, f) ==
  [entryTask |-> Step(1), tasks |-> <<Task(Step(1), handlerKey, f, Text(Blank))>>]

Scenarios ==
  {"success-linear", "success-deep-chain", "retry-invalid-input",
   "dead-letter-missing-handler", "replay-missing-handler"}

BuildScenarioSpec(f) ==
  CASE f.scenario = "success-linear" ->
         [entryTask |-> Step(1),
          tasks |-> <<Task(Step(1), "sample.echo", f, Step(2)),
                      Task(Step(2), "notifications.send", f, Text(Blank))>>]
    [] f.scenario = "success-deep-chain" -> DeepChain(f)
    [] f.scenario = "retry-invalid-input" -> SingleTask("sample.echo", f)
    [] f.scenario \in {"dead-letter-missing-handler", "replay-missing-handler"} ->
         SingleTask("missing.handler", f)

(* The checks of main before anything is sent. *)
AcceptsFlags(f) ==
  /\ f.maxAttempts > 0
  /\ f.backoffSeconds >= 0
  /\ f.chainLength >= 2
  /\ f.scenario \in Scenarios

(* Flags are numbers, no name or handler key of the benchmark is blank,    *)
(* and it always sends a definition.                                       *)
ASSUME ScenarioAssumption ==
  /\ \A f \in Flags :
       /\ f.maxAttempts \in Int /\ f.backoffSeconds \in Int /\ f.chainLength \in Int
       /\ \A i \in 1 .. f.chainLength : Blank # <<"step", i>>
       /\ AcceptsFlags(f) => BuildScenarioSpec(f) # Omitted
  /\ Blank \notin {"sample.echo", "notifications.send", "missing.handler"}

-----------------------------------------------------------------------------
ScenarioInit ==
  /\ flags \in Flags
  /\ rows = <<>>
  /\ IF AcceptsFlags(flags)
     THEN definition = BuildScenarioSpec(flags) /\ stage = "submitted"
     ELSE definition = Omitted /\ stage = "exited"

(* createWorkflow under a name of its own, then the executions. *)
ScenarioNext ==
  /\ CreateWorkflowDefinition \/ TriggerExecution \/ AdvanceWorkflow
  /\ UNCHANGED flags

ScenarioSpec == ScenarioInit /\ [][ScenarioNext]_<<definitionVars, flags>>

-----------------------------------------------------------------------------
(* Every definition the benchmark builds is one the service accepts and    *)
(* can run: no lookup of a worker fails, and the chain visits each of its  *)
(* tasks once, in order, before the execution is done.                     *)
ScenarioRunsWholeChain ==
  flags # NoFlags =>
    /\ stage \notin {"rejected", "error", "conflict"}
    /\ \A k \in DOMAIN rows : rows[k] = RowOf(definition, k)
    /\ stage = "succeeded" => Len(rows) = Len(definition.tasks)
=============================================================================
