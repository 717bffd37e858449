------------------------- MODULE WorkflowDefinition -------------------------
(***************************************************************************)
(* Workflow definitions as data (internal/orchestrator/service.go): what   *)
(* validation accepts, how tasks are looked up by name, and the rows an    *)
(* execution of an accepted definition creates when every handler          *)
(* succeeds.  A string is what TrimSpace leaves of it and whether it has   *)
(* space around it; a definition that is not JSON is left out.             *)
(***************************************************************************)
EXTENDS Integers, Sequences, SequencesExt

CONSTANTS
  Blank,         \* the text of an empty string
  Definitions,   \* the definitions submitted
  Omitted,       \* a request without a definition
  Sample         \* the definition used for such a request

(* The tasks of a definition are a list. *)
IsList(s) == s \in Seq(ToSet(s))

ASSUME ListAssumption == \A d \in Definitions \cup {Sample} : IsList(d.tasks)

VARIABLES
  definition,  \* the definition submitted, then the one stored
  stage,       \* what became of it
  rows         \* the task rows of its execution, in the order inserted

definitionVars == <<definition, stage, rows>>

-----------------------------------------------------------------------------
TrimSpace(s) == s.text

IsBlank(s) == TrimSpace(s) = Blank

(* Faulty variant: names are compared without trimming. *)
FindExactly(d, name) == SelectInSeq(d.tasks, LAMBDA task : task.name = name)

(* The first task of that name, by its index; 0 when there is none. *)
FindTaskSpecByName(d, name) ==
  SelectInSeq(d.tasks, LAMBDA task : TrimSpace(task.name) = TrimSpace(name))

(* Faulty variant: a later task of the same name wins. *)
FindLastEntryTask(d) ==
  SelectLastInSeq(d.tasks, LAMBDA task : TrimSpace(task.name) = TrimSpace(d.entryTask))

FindEntryTask(d) ==
  SelectInSeq(d.tasks, LAMBDA task : TrimSpace(task.name) = TrimSpace(d.entryTask))

NotFound == -1
NoNextTask == 0

(* The index of the task that follows the one of that name. *)
FindNextTaskSpec(d, name) ==
  LET i == FindTaskSpecByName(d, name)
      j == FindTaskSpecByName(d, d.tasks[i].nextTask)
  IN  IF i = 0 THEN NotFound
      ELSE IF IsBlank(d.tasks[i].nextTask) THEN NoNextTask
      ELSE IF j = 0 THEN NotFound ELSE j

(* What validation asks of one task. *)
ValidTask(d, task) ==
  /\ ~IsBlank(task.name)
  /\ ~IsBlank(task.handlerKey)
  /\ task.maxAttempts >= 0
  /\ task.backoffSeconds >= 0
  /\ ~IsBlank(task.nextTask) =>
       /\ TrimSpace(task.nextTask) # TrimSpace(task.name)
       /\ FindTaskSpecByName(d, task.nextTask) # 0

ParseAndValidateWorkflowDefinition(d) ==
  /\ ~IsBlank(d.entryTask)
  /\ d.tasks # <<>>
  /\ \A i \in DOMAIN d.tasks : ValidTask(d, d.tasks[i])
  /\ \E i \in DOMAIN d.tasks : TrimSpace(d.tasks[i].name) = TrimSpace(d.entryTask)

-----------------------------------------------------------------------------
(* The row of a task: its name as the definition spells it. *)
RowOf(d, i) == [name |-> d.tasks[i].name, handlerKey |-> d.tasks[i].handlerKey]

DefinitionInit ==
  /\ definition \in Definitions \cup {Omitted}
  /\ stage = "submitted"
  /\ rows = <<>>

CreateWorkflowDefinition ==
  /\ stage = "submitted"
  /\ definition' = IF definition = Omitted THEN Sample ELSE definition
  /\ stage' = IF ParseAndValidateWorkflowDefinition(definition') THEN "created" ELSE "rejected"
  /\ UNCHANGED rows

(* The workflow's own name is blank or taken, or the insert fails. *)
CreationFails ==
  /\ stage = "submitted"
  /\ stage' = "rejected"
  /\ UNCHANGED <<definition, rows>>

(* The definition is validated again, as it was read back. *)
TriggerExecution ==
  /\ stage = "created"
  /\ LET i == FindEntryTask(definition)
         valid == ParseAndValidateWorkflowDefinition(definition) /\ i # 0
     IN  /\ stage' = IF valid THEN "running" ELSE "error"
         /\ rows' = IF valid THEN <<RowOf(definition, i)>> ELSE rows
  /\ UNCHANGED definition

(* A row exists under the key of task i: its name as it is spelt. *)
HasRow(i) == \E k \in DOMAIN rows : rows[k].name = definition.tasks[i].name

(* What a worker loads before an attempt: the definition, validated once   *)
(* more, and in it the task of the row's name; 0 when that fails.          *)
GetWorkflowSpecAndTaskSpec(d, name) ==
  IF ParseAndValidateWorkflowDefinition(d) THEN FindTaskSpecByName(d, name) ELSE 0

(* A worker handles the latest row, and its handler succeeds.  A conflict  *)
(* is for good: the message is redelivered and fails again.                *)
AdvanceWorkflow ==
  /\ stage = "running"
  /\ LET found == GetWorkflowSpecAndTaskSpec(definition, Last(rows).name) # 0
         next == IF found THEN FindNextTaskSpec(definition, Last(rows).name) ELSE NotFound
     IN  /\ stage' = CASE next = NotFound   -> "error"
                       [] next = NoNextTask -> "succeeded"
                       [] OTHER             -> IF HasRow(next) THEN "conflict" ELSE "running"
         /\ rows' = IF stage' = "running" THEN Append(rows, RowOf(definition, next)) ELSE rows
  /\ UNCHANGED definition

DefinitionNext == CreateWorkflowDefinition \/ CreationFails \/ TriggerExecution \/ AdvanceWorkflow

DefinitionSpec == DefinitionInit /\ [][DefinitionNext]_definitionVars

-----------------------------------------------------------------------------
(* An accepted definition never fails a lookup later, in the trigger or in *)
(* a worker, although names may be padded, repeated or unused; and a       *)
(* worker that loads a row's task by name gets the task the row was made   *)
(* from: its retry policy and next_task go with the row's handler_key.     *)
RowFindsItsTask ==
  /\ stage # "error"
  /\ \A k \in DOMAIN rows :
       LET i == GetWorkflowSpecAndTaskSpec(definition, rows[k].name)
       IN  i # 0 /\ RowOf(definition, i) = rows[k]

(* Rows of an execution have different names even when these are trimmed,  *)
(* so that the unique key, which is not trimmed, still tells tasks apart,  *)
(* and a chain cannot visit a task twice under two spellings.              *)
OneRowPerTask ==
  \A k, l \in DOMAIN rows :
    TrimSpace(rows[k].name) = TrimSpace(rows[l].name) => k = l
=============================================================================
