-------------------------- MODULE DefinitionProofs --------------------------
(***************************************************************************)
(* Proofs about definitions, for any list of tasks, and about the          *)
(* scenarios of the benchmark, for any flags.                              *)
(***************************************************************************)
EXTENDS BenchScenario, TLAPS, WellFoundedInduction

(* A set of positions that is not empty has a first one, and Min is it. *)
LEMMA LessIsWellFounded == \A x, y \in Nat : x < y => <<x, y>> \in OpToRel(<, Nat)
  BY DEF OpToRel

LEMMA MinIsFirst ==
  ASSUME NEW S \in SUBSET Nat, S # {}
  PROVE  Min(S) \in S /\ \A y \in S : Min(S) <= y
  <1>1. PICK x \in S : \A y \in S : ~(<<y, x>> \in OpToRel(<, Nat))
    BY NatLessThanWellFounded, WFMin, Zenon
  <1>2. \A y \in S : ~(y < x)
    BY <1>1, LessIsWellFounded, Zenon
  <1>3. \A y \in S : x <= y
    BY <1>2
  <1> QED
    BY <1>3, Zenon DEF Min

-----------------------------------------------------------------------------
(* A lookup by name finds the first task whose name, trimmed, is the same. *)
LEMMA FindFinds ==
  ASSUME NEW d, IsList(d.tasks), NEW name, FindTaskSpecByName(d, name) # 0
  PROVE  LET i == FindTaskSpecByName(d, name)
         IN  /\ i \in DOMAIN d.tasks /\ TrimSpace(d.tasks[i].name) = TrimSpace(name)
             /\ \A j \in DOMAIN d.tasks : TrimSpace(d.tasks[j].name) = TrimSpace(name) => i <= j
  <1> DEFINE I == {i \in 1 .. Len(d.tasks) : TrimSpace(d.tasks[i].name) = TrimSpace(name)}
  <1>1. Len(d.tasks) \in Nat /\ DOMAIN d.tasks = 1 .. Len(d.tasks)
    BY DEF IsList
  <1>2. FindTaskSpecByName(d, name) = IF I # {} THEN Min(I) ELSE 0
    BY Zenon DEF FindTaskSpecByName, SelectInSeq
  <1>3. I # {} /\ FindTaskSpecByName(d, name) = Min(I)
    BY <1>2, Zenon
  <1>4. Min(I) \in I /\ \A j \in I : Min(I) <= j
    <2>1. I \subseteq Nat
      BY <1>1
    <2> QED
      BY <1>3, <2>1, MinIsFirst, Zenon
  <1> QED
    BY <1>1, <1>3, <1>4, Zenon

(* It finds one whenever there is one. *)
LEMMA FindsIfThere ==
  ASSUME NEW d, IsList(d.tasks), NEW name, NEW j \in DOMAIN d.tasks, TrimSpace(d.tasks[j].name) = TrimSpace(name)
  PROVE  FindTaskSpecByName(d, name) # 0
  <1> DEFINE I == {i \in 1 .. Len(d.tasks) : TrimSpace(d.tasks[i].name) = TrimSpace(name)}
  <1>1. Len(d.tasks) \in Nat /\ DOMAIN d.tasks = 1 .. Len(d.tasks)
    BY DEF IsList
  <1>2. FindTaskSpecByName(d, name) = IF I # {} THEN Min(I) ELSE 0
    BY Zenon DEF FindTaskSpecByName, SelectInSeq
  <1>3. I # {}
    BY <1>1, Zenon
  <1>4. Min(I) \in I
    <2>1. I \subseteq Nat
      BY <1>1
    <2> QED
      BY <1>3, <2>1, MinIsFirst, Zenon
  <1> QED
    BY <1>2, <1>3, <1>4

(* Only the trimmed name matters. *)
LEMMA FindTrims ==
  ASSUME NEW d, NEW x, NEW y, TrimSpace(x) = TrimSpace(y)
  PROVE  FindTaskSpecByName(d, x) = FindTaskSpecByName(d, y)
  BY Zenon DEF FindTaskSpecByName, SelectInSeq

LEMMA EntryIsFoundByName ==
  ASSUME NEW d
  PROVE  FindEntryTask(d) = FindTaskSpecByName(d, d.entryTask)
  BY Zenon DEF FindEntryTask, FindTaskSpecByName, SelectInSeq

(* The row of the task found for a name is found under its own name. *)
LEMMA RowIsFound ==
  ASSUME NEW d, IsList(d.tasks), NEW name, FindTaskSpecByName(d, name) # 0
  PROVE  LET i == FindTaskSpecByName(d, name)
         IN  i \in DOMAIN d.tasks /\ FindTaskSpecByName(d, RowOf(d, i).name) = i
  <1>1. PICK i : i = FindTaskSpecByName(d, name)
    BY Zenon
  <1>2. i \in DOMAIN d.tasks /\ TrimSpace(d.tasks[i].name) = TrimSpace(name)
    BY <1>1, FindFinds, Zenon
  <1>3. RowOf(d, i).name = d.tasks[i].name
    BY Zenon DEF RowOf
  <1> QED
    BY <1>1, <1>2, <1>3, FindTrims, Zenon

-----------------------------------------------------------------------------
(* The row was made from the task a worker finds by its name. *)
FoundAgain(d, row) ==
  /\ FindTaskSpecByName(d, row.name) # 0
  /\ RowOf(d, FindTaskSpecByName(d, row.name)) = row

(* The inductive invariant of definitions: what is accepted is valid, and  *)
(* rows are made from tasks found by name, under different names.          *)
DefinitionInv ==
  /\ stage \in {"submitted", "created", "rejected", "exited", "running", "succeeded", "conflict"}
  /\ stage = "submitted" => definition = Omitted \/ IsList(definition.tasks)
  /\ stage \in {"created", "running", "succeeded", "conflict"} =>
       IsList(definition.tasks) /\ ParseAndValidateWorkflowDefinition(definition)
  /\ stage \in {"submitted", "created", "rejected", "exited"} => rows = <<>>
  /\ stage = "running" => rows # <<>>
  /\ rows \in Seq({RowOf(definition, i) : i \in DOMAIN definition.tasks})
  /\ \A k \in DOMAIN rows : FoundAgain(definition, rows[k])
  /\ \A k, l \in DOMAIN rows : rows[k].name = rows[l].name => k = l

LEMMA CreatedStep ==
  ASSUME DefinitionInv, CreateWorkflowDefinition \/ CreationFails
  PROVE  DefinitionInv'
  <1>1. rows = <<>> /\ rows' = <<>> /\ stage = "submitted"
    BY Zenon DEF DefinitionInv, CreateWorkflowDefinition, CreationFails
  <1>2. \/ stage' = "rejected"
        \/ /\ stage' = "created" /\ ParseAndValidateWorkflowDefinition(definition')
           /\ definition' = IF definition = Omitted THEN Sample ELSE definition
    BY Zenon DEF CreateWorkflowDefinition, CreationFails
  <1>3. stage' = "created" => IsList(definition'.tasks)
    BY <1>1, <1>2, ListAssumption, Zenon DEF DefinitionInv
  <1>4. <<>> \in Seq({RowOf(definition', i) : i \in DOMAIN definition'.tasks}) /\ DOMAIN <<>> = {}
    OBVIOUS
  <1>5. ParseAndValidateWorkflowDefinition(definition') <=> ParseAndValidateWorkflowDefinition(definition)'
    BY Zenon DEF ParseAndValidateWorkflowDefinition, ValidTask, FindTaskSpecByName, TrimSpace, IsBlank, SelectInSeq
  <1> QED
    BY <1>1, <1>2, <1>3, <1>4, <1>5, Zenon DEF DefinitionInv

(* Row i of the definition is inserted, which has none of its name yet. *)
LEMMA InsertStep ==
  ASSUME DefinitionInv, stage \in {"created", "running"}, stage' = "running", definition' = definition,
         NEW name, FindTaskSpecByName(definition, name) # 0,
         ~HasRow(FindTaskSpecByName(definition, name)),
         rows' = Append(rows, RowOf(definition, FindTaskSpecByName(definition, name)))
  PROVE  DefinitionInv'
  <1>1. PICK d, R : d = definition /\ R = {RowOf(definition, i) : i \in DOMAIN definition.tasks}
    BY Zenon
  <1>2. PICK i : i = FindTaskSpecByName(d, name)
    BY Zenon
  <1>3. PICK row : row = RowOf(d, i)
    BY Zenon
  <1>4. IsList(d.tasks) /\ ParseAndValidateWorkflowDefinition(d)
    BY <1>1, Zenon DEF DefinitionInv
  <1>5. i \in DOMAIN d.tasks /\ FindTaskSpecByName(d, row.name) = i /\ i # 0
    BY <1>1, <1>2, <1>3, <1>4, RowIsFound, Zenon
  <1>6. FoundAgain(d, row) /\ row \in R
    BY <1>1, <1>2, <1>3, <1>5, Zenon DEF FoundAgain
  <1>7. row.name = d.tasks[i].name
    BY <1>3, Zenon DEF RowOf
  <1>8. \A k \in DOMAIN rows : rows[k].name # row.name
    BY <1>1, <1>2, <1>7, Zenon DEF HasRow
  <1>9. rows \in Seq(R) /\ rows' = Append(rows, row)
    BY <1>1, <1>2, <1>3, Zenon DEF DefinitionInv
  <1>10. PICK n \in Nat : n = Len(rows)
    BY <1>9
  <1>11. /\ rows' \in Seq(R) /\ DOMAIN rows = 1 .. n /\ DOMAIN rows' = 1 .. (n + 1)
         /\ \A k \in 1 .. n : rows'[k] = rows[k]
         /\ rows'[n + 1] = row /\ rows' # <<>>
    BY <1>6, <1>9, <1>10
  <1>12. ASSUME NEW k \in DOMAIN rows' PROVE FoundAgain(d, rows'[k])
    <2>1. CASE k \in 1 .. n
      BY <1>1, <1>11, <2>1, Zenon DEF DefinitionInv
    <2>2. CASE k = n + 1
      BY <1>6, <1>11, <2>2, Zenon
    <2> QED
      BY <1>11, <1>12, <2>1, <2>2
  <1>13. ASSUME NEW k \in DOMAIN rows', NEW l \in DOMAIN rows', rows'[k].name = rows'[l].name PROVE k = l
    <2>1. (k \in 1 .. n \/ k = n + 1) /\ (l \in 1 .. n \/ l = n + 1)
      BY <1>11
    <2>2. CASE k \in 1 .. n /\ l \in 1 .. n
      BY <1>11, <1>13, <2>2, Zenon DEF DefinitionInv
    <2>3. CASE k = n + 1 /\ l \in 1 .. n
      BY <1>8, <1>11, <1>13, <2>3, Zenon
    <2>4. CASE k \in 1 .. n /\ l = n + 1
      BY <1>8, <1>11, <1>13, <2>4, Zenon
    <2> QED
      BY <2>1, <2>2, <2>3, <2>4, Zenon
  <1>14. definition' = d /\ R = {RowOf(definition', i2) : i2 \in DOMAIN definition'.tasks}
    BY <1>1, Zenon
  <1>15. ParseAndValidateWorkflowDefinition(definition)' /\ IsList(definition.tasks)'
    BY <1>4, <1>14, Zenon
  <1>16. \A k \in DOMAIN rows' : FoundAgain(definition, rows[k])'
    BY <1>12, <1>14, Zenon
  <1> QED
    BY <1>11, <1>13, <1>14, <1>15, <1>16, Zenon DEF DefinitionInv

LEMMA TriggerStep ==
  ASSUME DefinitionInv, TriggerExecution
  PROVE  DefinitionInv' /\ stage' = "running" /\ rows' = <<RowOf(definition, FindEntryTask(definition))>>
         /\ FindEntryTask(definition) # 0
  <1>1. PICK i : i = FindTaskSpecByName(definition, definition.entryTask)
    BY Zenon
  <1>2. i = FindEntryTask(definition)
    BY <1>1, EntryIsFoundByName, Zenon
  <1>3. stage = "created" /\ rows = <<>> /\ IsList(definition.tasks) /\ ParseAndValidateWorkflowDefinition(definition)
    BY Zenon DEF DefinitionInv, TriggerExecution
  <1>4. i # 0
    <2>1. PICK j \in DOMAIN definition.tasks : TrimSpace(definition.tasks[j].name) = TrimSpace(definition.entryTask)
      BY <1>3, Zenon DEF ParseAndValidateWorkflowDefinition
    <2> QED
      BY <1>1, <1>3, <2>1, FindsIfThere, Zenon
  <1>5. stage' = "running" /\ rows' = <<RowOf(definition, i)>> /\ definition' = definition
    BY <1>2, <1>3, <1>4, Zenon DEF TriggerExecution
  <1>6. rows' = Append(rows, RowOf(definition, i)) /\ ~HasRow(i)
    BY <1>3, <1>5 DEF HasRow
  <1>7. DefinitionInv'
    BY <1>1, <1>3, <1>4, <1>5, <1>6, InsertStep, Zenon
  <1> QED
    BY <1>2, <1>4, <1>5, <1>7, Zenon

(* The latest row finds its task, and the task its successor. *)
LEMMA AdvanceStep ==
  ASSUME DefinitionInv, AdvanceWorkflow
  PROVE  LET i == FindTaskSpecByName(definition, Last(rows).name)
             j == FindTaskSpecByName(definition, definition.tasks[i].nextTask)
         IN  /\ DefinitionInv' /\ definition' = definition /\ i \in DOMAIN definition.tasks
             /\ \/ IsBlank(definition.tasks[i].nextTask) /\ stage' = "succeeded" /\ rows' = rows
                \/ /\ ~IsBlank(definition.tasks[i].nextTask)
                   /\ \/ HasRow(j) /\ stage' = "conflict" /\ rows' = rows
                      \/ ~HasRow(j) /\ stage' = "running" /\ rows' = Append(rows, RowOf(definition, j))
  <1>1. PICK d, i, j : /\ d = definition /\ i = FindTaskSpecByName(definition, Last(rows).name)
                       /\ j = FindTaskSpecByName(definition, definition.tasks[i].nextTask)
    BY Zenon
  <1>2. stage = "running" /\ rows # <<>> /\ IsList(d.tasks) /\ ParseAndValidateWorkflowDefinition(d)
    BY <1>1, Zenon DEF DefinitionInv, AdvanceWorkflow
  <1>3. i # 0
    <2>1. Len(rows) \in DOMAIN rows
      BY <1>2 DEF DefinitionInv
    <2> QED
      BY <1>1, <2>1, Zenon DEF DefinitionInv, FoundAgain, Last
  <1>4. i \in DOMAIN d.tasks
    BY <1>1, <1>2, <1>3, FindFinds, Zenon
  <1>5. ~IsBlank(d.tasks[i].nextTask) => j # 0
    BY <1>1, <1>2, <1>4, Zenon DEF ParseAndValidateWorkflowDefinition, ValidTask
  <1>6. PICK follows : follows = FindNextTaskSpec(d, Last(rows).name)
    BY Zenon
  <1>7. follows = IF IsBlank(d.tasks[i].nextTask) THEN NoNextTask ELSE j
    BY <1>1, <1>3, <1>5, <1>6, Zenon DEF FindNextTaskSpec
  <1>8. j # 0 => j \in DOMAIN d.tasks
    BY <1>1, <1>2, FindFinds, Zenon
  <1>9. j # 0 => j \in Nat \ {0}
    BY <1>2, <1>8 DEF IsList
  <1>10. GetWorkflowSpecAndTaskSpec(d, Last(rows).name) # 0
    BY <1>1, <1>2, <1>3, Zenon DEF GetWorkflowSpecAndTaskSpec
  <1>11. /\ definition' = d
         /\ stage' = CASE follows = NotFound   -> "error"
                       [] follows = NoNextTask -> "succeeded"
                       [] OTHER             -> IF HasRow(follows) THEN "conflict" ELSE "running"
         /\ rows' = IF stage' = "running" THEN Append(rows, RowOf(d, follows)) ELSE rows
    BY <1>1, <1>6, <1>10, Zenon DEF AdvanceWorkflow
  <1>12. CASE IsBlank(d.tasks[i].nextTask)
    <2>1. follows = 0
      BY <1>7, <1>12, Zenon DEF NoNextTask
    <2>2. stage' = "succeeded" /\ rows' = rows
      BY <1>11, <2>1 DEF NotFound, NoNextTask
    <2>3. DefinitionInv'
      BY <1>1, <1>2, <1>11, <2>2, Zenon DEF DefinitionInv
    <2> QED
      BY <1>1, <1>4, <1>11, <1>12, <2>2, <2>3, Zenon
  <1>13. CASE ~IsBlank(d.tasks[i].nextTask)
    <2>1. follows = j /\ follows \in Nat \ {0}
      BY <1>5, <1>7, <1>9, <1>13, Zenon
    <2>2. stage' = IF HasRow(j) THEN "conflict" ELSE "running"
      BY <1>11, <2>1 DEF NotFound, NoNextTask
    <2>3. CASE HasRow(j)
      <3>1. stage' = "conflict" /\ rows' = rows
        BY <1>11, <2>2, <2>3, Zenon
      <3>2. DefinitionInv'
        BY <1>1, <1>2, <1>11, <3>1, Zenon DEF DefinitionInv
      <3> QED
        BY <1>1, <1>4, <1>11, <1>13, <2>3, <3>1, <3>2, Zenon
    <2>4. CASE ~HasRow(j)
      <3>1. stage' = "running" /\ rows' = Append(rows, RowOf(d, j))
        BY <1>11, <2>1, <2>2, <2>4, Zenon
      <3>2. DefinitionInv'
        BY <1>1, <1>2, <1>5, <1>11, <1>13, <2>4, <3>1, InsertStep, Zenon
      <3> QED
        BY <1>1, <1>4, <1>11, <1>13, <2>4, <3>1, <3>2, Zenon
    <2> QED
      BY <2>3, <2>4, Zenon
  <1> QED
    BY <1>12, <1>13, Zenon

LEMMA DefinitionInvHolds == DefinitionSpec => []DefinitionInv
  <1>1. DefinitionInit => DefinitionInv
    BY ListAssumption DEF DefinitionInit, DefinitionInv
  <1>2. DefinitionInv /\ [DefinitionNext]_definitionVars => DefinitionInv'
    <2>1. ASSUME DefinitionInv, UNCHANGED definitionVars PROVE DefinitionInv'
      BY <2>1, Zenon DEF DefinitionInv, definitionVars
    <2> QED
      BY <2>1, CreatedStep, TriggerStep, AdvanceStep, Zenon DEF DefinitionNext
  <1> QED
    BY <1>1, <1>2, PTL DEF DefinitionSpec

(* No lookup fails after a definition has been accepted, and a row leads a *)
(* worker to the task it was made from, for any list of tasks with padded, *)
(* repeated or unused names.                                               *)
THEOREM RowFindsItsTaskHolds == DefinitionSpec => []RowFindsItsTask
  <1>1. DefinitionInv => RowFindsItsTask
    <2> SUFFICES ASSUME DefinitionInv PROVE RowFindsItsTask
      BY Zenon
    <2>1. ASSUME NEW k \in DOMAIN rows PROVE ParseAndValidateWorkflowDefinition(definition)
      BY <2>1, SMTT(30) DEF DefinitionInv
    <2> QED
      BY <2>1, Zenon DEF DefinitionInv, RowFindsItsTask, GetWorkflowSpecAndTaskSpec, FoundAgain
  <1> QED
    BY <1>1, DefinitionInvHolds, PTL

(* No execution has two rows whose names are the same once trimmed, so a   *)
(* chain never visits a task twice, whatever its definition says: the      *)
(* second visit is a conflict.                                             *)
THEOREM OneRowPerTaskHolds == DefinitionSpec => []OneRowPerTask
  <1>1. DefinitionInv => OneRowPerTask
    <2> SUFFICES ASSUME DefinitionInv, NEW k \in DOMAIN rows, NEW l \in DOMAIN rows,
                        TrimSpace(rows[k].name) = TrimSpace(rows[l].name)
                 PROVE  k = l
      BY Zenon DEF OneRowPerTask
    <2>1. FindTaskSpecByName(definition, rows[k].name) = FindTaskSpecByName(definition, rows[l].name)
      BY FindTrims, Zenon
    <2>2. rows[k] = rows[l]
      BY <2>1, Zenon DEF DefinitionInv, FoundAgain
    <2> QED
      BY <2>2, Zenon DEF DefinitionInv
  <1> QED
    BY <1>1, DefinitionInvHolds, PTL

-----------------------------------------------------------------------------
(* A chain of n steps, each but the last followed by the next. *)
IsChain(d, n) ==
  /\ n \in Nat \ {0} /\ IsList(d.tasks) /\ Len(d.tasks) = n
  /\ d.entryTask = Step(1)
  /\ \A i \in 1 .. n :
       /\ d.tasks[i].name = Step(i) /\ TrimSpace(Step(i)) # Blank
       /\ ~IsBlank(d.tasks[i].handlerKey) /\ d.tasks[i].maxAttempts >= 0 /\ d.tasks[i].backoffSeconds >= 0
       /\ d.tasks[i].nextTask = IF i < n THEN Step(i + 1) ELSE Text(Blank)

LEMMA StepsDiffer ==
  ASSUME NEW i, NEW j, TrimSpace(Step(i)) = TrimSpace(Step(j))
  PROVE  i = j
  BY Zenon DEF TrimSpace, Step, Text

(* Every scenario is one. *)
LEMMA ScenarioIsChain ==
  ASSUME NEW f \in Flags, AcceptsFlags(f)
  PROVE  \E n : IsChain(BuildScenarioSpec(f), n)
  <1>1. PICK d, ma, bo, len : d = BuildScenarioSpec(f) /\ ma = f.maxAttempts /\ bo = f.backoffSeconds /\ len = f.chainLength
    BY Zenon
  <1>2. ma \in Int /\ bo \in Int /\ len \in Int /\ ma >= 0 /\ bo >= 0 /\ len >= 2
    BY <1>1, ScenarioAssumption DEF AcceptsFlags
  <1>3. \A i \in 1 .. len : TrimSpace(Step(i)) # Blank
    BY <1>1, ScenarioAssumption, Zenon DEF TrimSpace, Step, Text
  <1>4. ASSUME NEW key \in {"sample.echo", "notifications.send", "missing.handler"}, NEW name, NEW nt
        PROVE  /\ Task(name, key, f, nt).name = name /\ Task(name, key, f, nt).nextTask = nt
               /\ ~IsBlank(Task(name, key, f, nt).handlerKey)
               /\ Task(name, key, f, nt).maxAttempts = ma /\ Task(name, key, f, nt).backoffSeconds = bo
    <2>1. Task(name, key, f, nt) = [name |-> name, handlerKey |-> Text(key), maxAttempts |-> ma, backoffSeconds |-> bo,
                                    nextTask |-> nt]
      BY <1>1, Zenon DEF Task
    <2>2. TrimSpace(Text(key)) = key
      BY Zenon DEF TrimSpace, Text
    <2> QED
      BY <2>1, <2>2, ScenarioAssumption DEF IsBlank
  (* The tasks of d by their positions. *)
  <1>5. ASSUME NEW n \in Nat \ {0}, n <= len, d.entryTask = Step(1), IsList(d.tasks), Len(d.tasks) = n,
               \A i \in 1 .. n : \E key \in {"sample.echo", "notifications.send", "missing.handler"} :
                 d.tasks[i] = Task(Step(i), key, f, IF i < n THEN Step(i + 1) ELSE Text(Blank))
        PROVE  IsChain(d, n)
    <2>1. ASSUME NEW i \in 1 .. n
          PROVE  /\ d.tasks[i].name = Step(i) /\ TrimSpace(Step(i)) # Blank
                 /\ ~IsBlank(d.tasks[i].handlerKey) /\ d.tasks[i].maxAttempts >= 0 /\ d.tasks[i].backoffSeconds >= 0
                 /\ d.tasks[i].nextTask = IF i < n THEN Step(i + 1) ELSE Text(Blank)
      <3>1. PICK nt : nt = IF i < n THEN Step(i + 1) ELSE Text(Blank)
        BY Zenon
      <3>2. PICK key \in {"sample.echo", "notifications.send", "missing.handler"} :
              d.tasks[i] = Task(Step(i), key, f, nt)
        BY <1>5, <3>1, Zenon
      <3>3. i \in 1 .. len
        BY <1>2, <1>5
      <3>4. /\ d.tasks[i].name = Step(i) /\ d.tasks[i].nextTask = nt /\ ~IsBlank(d.tasks[i].handlerKey)
            /\ d.tasks[i].maxAttempts = ma /\ d.tasks[i].backoffSeconds = bo
        BY <1>4, <3>2
      <3> QED
        BY <1>2, <1>3, <3>1, <3>3, <3>4, Zenon
    <2> QED
      BY <1>5, <2>1, Zenon DEF IsChain
  <1>6. CASE f.scenario = "success-linear"
    <2>1. PICK t1, t2 : /\ t1 = Task(Step(1), "sample.echo", f, Step(2))
                        /\ t2 = Task(Step(2), "notifications.send", f, Text(Blank))
      BY Zenon
    <2>2. d = [entryTask |-> Step(1), tasks |-> <<t1, t2>>]
      BY <1>1, <1>6, <2>1, Zenon DEF BuildScenarioSpec
    <2>3. d.tasks = <<t1, t2>> /\ d.entryTask = Step(1)
      BY <2>2, Zenon
    <2>4. IsList(d.tasks) /\ Len(d.tasks) = 2 /\ d.tasks[1] = t1 /\ d.tasks[2] = t2
      BY <2>3 DEF IsList, ToSet
    <2>5. \A i \in 1 .. 2 : \E key \in {"sample.echo", "notifications.send", "missing.handler"} :
            d.tasks[i] = Task(Step(i), key, f, IF i < 2 THEN Step(i + 1) ELSE Text(Blank))
      <3>1. d.tasks[1] = Task(Step(1), "sample.echo", f, IF 1 < 2 THEN Step(1 + 1) ELSE Text(Blank))
        BY <2>1, <2>4
      <3>2. d.tasks[2] = Task(Step(2), "notifications.send", f, IF 2 < 2 THEN Step(2 + 1) ELSE Text(Blank))
        BY <2>1, <2>4
      <3>3. \A i \in 1 .. 2 : i = 1 \/ i = 2
        OBVIOUS
      <3> QED
        BY <3>1, <3>2, <3>3, Zenon
    <2> QED
      BY <1>1, <1>2, <1>5, <2>3, <2>4, <2>5, SMTT(30)
  <1>7. CASE f.scenario = "success-deep-chain"
    <2>1. d = DeepChain(f)
      BY <1>1, <1>7, Zenon DEF BuildScenarioSpec
    <2>2. PICK key : /\ key \in [1 .. len -> {"sample.echo", "notifications.send", "missing.handler"}]
                     /\ key = [i \in 1 .. len |-> IF i % 2 = 0 THEN "notifications.send" ELSE "sample.echo"]
      BY Zenon
    <2>3. PICK ts : ts = [i \in 1 .. len |-> Task(Step(i), key[i], f, IF i < len THEN Step(i + 1) ELSE Text(Blank))]
      BY Zenon
    <2>4. d = [entryTask |-> Step(1), tasks |-> ts]
      <3>1. ts = [i \in 1 .. len |-> Task(Step(i), IF i % 2 = 0 THEN "notifications.send" ELSE "sample.echo", f,
                                          IF i < len THEN Step(i + 1) ELSE Text(Blank))]
        BY <2>2, <2>3, Zenon
      <3> QED
        BY <1>1, <2>1, <3>1, Zenon DEF DeepChain
    <2>5. d.tasks = ts /\ d.entryTask = Step(1)
      BY <2>4, Zenon
    <2>6. IsList(ts) /\ Len(ts) = len
      <3>1. ts \in [1 .. len -> ToSet(ts)]
        BY <2>3, Zenon DEF ToSet
      <3> QED
        BY <1>2, <3>1 DEF IsList
    <2>7. \A i \in 1 .. len : ts[i] = Task(Step(i), key[i], f, IF i < len THEN Step(i + 1) ELSE Text(Blank))
      BY <2>3, Zenon
    <2>8. \A i \in 1 .. len : key[i] \in {"sample.echo", "notifications.send", "missing.handler"}
      BY <2>2, Zenon
    <2>9. \A i \in 1 .. len : \E k \in {"sample.echo", "notifications.send", "missing.handler"} :
            d.tasks[i] = Task(Step(i), k, f, IF i < len THEN Step(i + 1) ELSE Text(Blank))
      BY <2>5, <2>7, <2>8, Zenon
    <2>10. len \in Nat \ {0} /\ len <= len
      BY <1>2
    <2>11. IsChain(d, len)
      BY <1>5, <2>5, <2>6, <2>9, <2>10, Zenon
    <2> QED
      BY <1>1, <2>11, Zenon
  <1>8. ASSUME NEW key \in {"sample.echo", "notifications.send", "missing.handler"}, d = SingleTask(key, f)
        PROVE  IsChain(d, 1)
    <2>1. PICK t : t = Task(Step(1), key, f, Text(Blank))
      BY Zenon
    <2>2. d = [entryTask |-> Step(1), tasks |-> <<t>>]
      BY <1>8, <2>1, Zenon DEF SingleTask
    <2>3. d.tasks = <<t>> /\ d.entryTask = Step(1)
      BY <2>2, Zenon
    <2>4. IsList(d.tasks) /\ Len(d.tasks) = 1 /\ d.tasks[1] = t
      BY <2>3 DEF IsList, ToSet
    <2>5. \A i \in 1 .. 1 : d.tasks[i] = Task(Step(i), key, f, IF i < 1 THEN Step(i + 1) ELSE Text(Blank))
      <3>1. d.tasks[1] = Task(Step(1), key, f, IF 1 < 1 THEN Step(1 + 1) ELSE Text(Blank))
        BY <2>1, <2>4
      <3>2. \A i \in 1 .. 1 : i = 1
        OBVIOUS
      <3> QED
        BY <3>1, <3>2, Zenon
    <2> QED
      BY <1>2, <1>5, <2>3, <2>4, <2>5, SMTT(30)
  <1>9. CASE f.scenario = "retry-invalid-input"
    BY <1>1, <1>8, <1>9, Zenon DEF BuildScenarioSpec
  <1>10. CASE f.scenario \in {"dead-letter-missing-handler", "replay-missing-handler"}
    BY <1>1, <1>8, <1>10, Zenon DEF BuildScenarioSpec
  <1> QED
    BY <1>1, <1>6, <1>7, <1>9, <1>10, Zenon DEF AcceptsFlags, Scenarios

(* The service accepts a chain, and finds each of its steps. *)
LEMMA ChainIsFound ==
  ASSUME NEW d, NEW n, IsChain(d, n), NEW i \in 1 .. n
  PROVE  FindTaskSpecByName(d, Step(i)) = i
  <1>1. IsList(d.tasks) /\ DOMAIN d.tasks = 1 .. n /\ \A j \in 1 .. n : d.tasks[j].name = Step(j)
    BY DEF IsChain, IsList
  <1>2. PICK j : j = FindTaskSpecByName(d, Step(i))
    BY Zenon
  <1>3. j # 0
    BY <1>1, <1>2, FindsIfThere, Zenon
  <1>4. j \in 1 .. n /\ TrimSpace(d.tasks[j].name) = TrimSpace(Step(i))
    BY <1>1, <1>2, <1>3, FindFinds, Zenon
  <1> QED
    BY <1>1, <1>2, <1>4, StepsDiffer, Zenon

LEMMA ChainIsValid ==
  ASSUME NEW d, NEW n, IsChain(d, n)
  PROVE  ParseAndValidateWorkflowDefinition(d)
  <1>1. DOMAIN d.tasks = 1 .. n /\ n \in Nat \ {0} /\ d.tasks # <<>>
    BY DEF IsChain, IsList
  <1>2. ~IsBlank(d.entryTask) /\ \E i \in DOMAIN d.tasks : TrimSpace(d.tasks[i].name) = TrimSpace(d.entryTask)
    <2>1. 1 \in 1 .. n
      BY <1>1
    <2> QED
      BY <1>1, <2>1, Zenon DEF IsChain, IsBlank
  <1>3. ASSUME NEW i \in 1 .. n PROVE ValidTask(d, d.tasks[i])
    <2>1. /\ d.tasks[i].name = Step(i) /\ ~IsBlank(d.tasks[i].name) /\ ~IsBlank(d.tasks[i].handlerKey)
          /\ d.tasks[i].maxAttempts >= 0 /\ d.tasks[i].backoffSeconds >= 0
      BY Zenon DEF IsChain, IsBlank
    <2>2. CASE i = n
      <3>1. d.tasks[i].nextTask = Text(Blank)
        BY <1>1, <2>2 DEF IsChain
      <3>2. IsBlank(d.tasks[i].nextTask)
        BY <3>1 DEF IsBlank, TrimSpace, Text
      <3> QED
        BY <2>1, <3>2, Zenon DEF ValidTask
    <2>3. CASE i # n
      <3>1. i + 1 \in 1 .. n /\ i + 1 # i /\ i + 1 # 0 /\ d.tasks[i].nextTask = Step(i + 1)
        BY <1>1, <2>3 DEF IsChain
      <3>2. FindTaskSpecByName(d, d.tasks[i].nextTask) # 0
        BY <3>1, ChainIsFound, Zenon
      <3>3. TrimSpace(d.tasks[i].nextTask) # TrimSpace(d.tasks[i].name)
        BY <2>1, <3>1, StepsDiffer, Zenon
      <3> QED
        BY <2>1, <3>2, <3>3, Zenon DEF ValidTask
    <2> QED
      BY <2>2, <2>3, Zenon
  <1> QED
    BY <1>1, <1>2, <1>3, Zenon DEF ParseAndValidateWorkflowDefinition

(* The inductive invariant of a scenario: its rows are the first steps of  *)
(* the chain, all of them at the end.                                      *)
ScenarioInv ==
  /\ DefinitionInv
  /\ stage # "exited" =>
       /\ stage \in {"submitted", "created", "running", "succeeded"}
       /\ definition # Omitted
       /\ \E n : /\ IsChain(definition, n) /\ Len(rows) \in 0 .. n
                 /\ \A k \in 1 .. Len(rows) : rows[k] = RowOf(definition, k)
                 /\ stage = "succeeded" => Len(rows) = n

LEMMA ScenarioAdvances ==
  ASSUME ScenarioInv, AdvanceWorkflow
  PROVE  ScenarioInv'
  <1>1. DefinitionInv /\ stage = "running" /\ rows # <<>>
    BY Zenon DEF ScenarioInv, AdvanceWorkflow, DefinitionInv
  <1>2. PICK d : d = definition
    BY Zenon
  <1>3. definition # Omitted
    BY <1>1, Zenon DEF ScenarioInv
  <1>4. PICK n : /\ IsChain(d, n) /\ Len(rows) \in 0 .. n
                 /\ \A k \in 1 .. Len(rows) : rows[k] = RowOf(d, k)
    BY <1>1, <1>2, Zenon DEF ScenarioInv
  <1>5. PICK m \in 1 .. n : m = Len(rows) /\ DOMAIN rows = 1 .. m
    BY <1>1, <1>4 DEF DefinitionInv
  <1>6. n \in Nat \ {0} /\ \A k \in 1 .. n : d.tasks[k].name = Step(k)
    BY <1>4, Zenon DEF IsChain
  <1>7. \A k \in 1 .. m : rows[k].name = Step(k)
    <2>1. \A k \in 1 .. m : k \in 1 .. n
      BY <1>5, <1>6
    <2>2. \A k \in 1 .. m : rows[k] = RowOf(d, k) /\ d.tasks[k].name = Step(k)
      BY <1>4, <1>5, <1>6, <2>1, Zenon
    <2>3. \A k : RowOf(d, k).name = d.tasks[k].name
      BY Zenon DEF RowOf
    <2> QED
      BY <2>2, <2>3, Zenon
  <1>8. Last(rows).name = Step(m)
    BY <1>5, <1>7 DEF Last
  <1>9. FindTaskSpecByName(d, Last(rows).name) = m
    BY <1>4, <1>8, ChainIsFound, Zenon
  <1>10. PICK j : j = FindTaskSpecByName(d, d.tasks[m].nextTask)
    BY Zenon
  <1>11. /\ DefinitionInv' /\ definition' = d
         /\ \/ IsBlank(d.tasks[m].nextTask) /\ stage' = "succeeded" /\ rows' = rows
            \/ /\ ~IsBlank(d.tasks[m].nextTask)
               /\ \/ HasRow(j) /\ stage' = "conflict" /\ rows' = rows
                  \/ ~HasRow(j) /\ stage' = "running" /\ rows' = Append(rows, RowOf(d, j))
    BY <1>1, <1>2, <1>9, <1>10, AdvanceStep, Zenon
  <1>12. CASE m = n
    <2>1. d.tasks[m].nextTask = Text(Blank)
      BY <1>4, <1>6, <1>12, SMTT(30) DEF IsChain
    <2>2. IsBlank(d.tasks[m].nextTask)
      BY <2>1 DEF IsBlank, TrimSpace, Text
    <2>3. stage' = "succeeded" /\ rows' = rows
      BY <1>11, <2>2, Zenon
    <2>4. /\ IsChain(definition', n) /\ Len(rows') \in 0 .. n /\ Len(rows') = n
          /\ \A k \in 1 .. Len(rows') : rows'[k] = RowOf(definition', k)
      BY <1>4, <1>5, <1>11, <1>12, <2>3, Zenon
    <2> QED
      BY <1>2, <1>3, <1>11, <2>3, <2>4, Zenon DEF ScenarioInv
  <1>13. CASE m # n
    <2>1. m + 1 \in 1 .. n /\ m \in Nat
      BY <1>5, <1>6, <1>13, SMTT(30)
    <2>2. d.tasks[m].nextTask = Step(m + 1)
      BY <1>4, <1>6, <1>13, SMTT(30) DEF IsChain
    <2>3. ~IsBlank(d.tasks[m].nextTask)
      BY <1>4, <2>1, <2>2, Zenon DEF IsChain, IsBlank
    <2>4. j = m + 1
      BY <1>4, <1>10, <2>1, <2>2, ChainIsFound, Zenon
    <2>5. ~HasRow(j)
      <3>1. ASSUME NEW k \in 1 .. m, Step(k) = Step(m + 1) PROVE FALSE
        <4>1. k = m + 1
          BY <3>1, StepsDiffer, Zenon
        <4> QED
          BY <2>1, <4>1
      <3> QED
        BY <1>2, <1>5, <1>6, <1>7, <2>1, <2>4, <3>1, Zenon DEF HasRow
    <2>6. stage' = "running" /\ rows' = Append(rows, RowOf(d, m + 1))
      BY <1>11, <2>3, <2>4, <2>5, Zenon
    <2>7. PICK R : rows \in Seq(R) /\ rows \in Seq(R \cup {RowOf(d, m + 1)})
      <3>1. PICK R : rows \in Seq(R)
        BY <1>1, Zenon DEF DefinitionInv
      <3> QED
        BY <3>1
    <2>8. Len(rows') = m + 1 /\ rows'[m + 1] = RowOf(d, m + 1) /\ \A k \in 1 .. m : rows'[k] = rows[k]
      BY <1>5, <2>1, <2>6, <2>7, SMTT(30)
    <2>9. \A k \in 1 .. (m + 1) : rows'[k] = RowOf(d, k)
      BY <1>4, <1>5, <2>1, <2>8, SMTT(30)
    <2>10. Len(rows') \in 0 .. n
      BY <1>6, <2>1, <2>8, SMTT(30)
    <2> QED
      BY <1>2, <1>3, <1>4, <1>11, <2>6, <2>8, <2>9, <2>10, Zenon DEF ScenarioInv
  <1> QED
    BY <1>12, <1>13, Zenon

LEMMA ScenarioBegins ==
  ASSUME ScenarioInv, CreateWorkflowDefinition \/ TriggerExecution
  PROVE  ScenarioInv'
  <1>1. DefinitionInv /\ stage \in {"submitted", "created"} /\ rows = <<>>
    BY Zenon DEF ScenarioInv, DefinitionInv, CreateWorkflowDefinition, TriggerExecution
  <1>2. PICK d : d = definition
    BY Zenon
  <1>3. PICK n : IsChain(d, n) /\ n \in Nat \ {0} /\ d # Omitted
    BY <1>1, <1>2, Zenon DEF ScenarioInv, IsChain
  <1>4. CASE CreateWorkflowDefinition
    <2>1. DefinitionInv' /\ definition' = d /\ rows' = <<>>
      BY <1>1, <1>2, <1>3, <1>4, CreatedStep, Zenon DEF CreateWorkflowDefinition
    <2>2. ParseAndValidateWorkflowDefinition(definition')
      BY <1>3, <2>1, ChainIsValid, Zenon
    <2>3. stage' = "created"
      BY <1>4, <2>2, Zenon DEF CreateWorkflowDefinition
    <2>4. Len(rows') \in 0 .. n /\ \A k \in 1 .. Len(rows') : FALSE
      BY <1>3, <2>1, SMTT(30)
    <2> QED
      BY <1>3, <2>1, <2>3, <2>4, Zenon DEF ScenarioInv
  <1>5. CASE TriggerExecution
    <2>1. FindEntryTask(d) = 1
      <3>1. 1 \in 1 .. n /\ d.entryTask = Step(1)
        BY <1>3 DEF IsChain
      <3> QED
        BY <1>3, <3>1, ChainIsFound, EntryIsFoundByName, Zenon
    <2>2. DefinitionInv' /\ stage' = "running" /\ rows' = <<RowOf(d, 1)>> /\ definition' = d
      BY <1>1, <1>2, <1>5, <2>1, TriggerStep, Zenon DEF TriggerExecution
    <2>3. Len(rows') = 1 /\ rows'[1] = RowOf(d, 1)
      BY <2>2, Zenon
    <2>4. Len(rows') \in 0 .. n /\ \A k \in 1 .. Len(rows') : rows'[k] = RowOf(d, k)
      BY <1>3, <2>3
    <2> QED
      BY <1>3, <2>2, <2>4, Zenon DEF ScenarioInv
  <1> QED
    BY <1>4, <1>5, Zenon

(* Whatever flags main accepts, and for chains of any length, the          *)
(* definition of the scenario is accepted and its execution goes through   *)
(* every task once and in order.                                           *)
THEOREM ScenarioRunsWholeChainHolds == ScenarioSpec => []ScenarioRunsWholeChain
  <1>1. ScenarioInit => ScenarioInv
    <2> SUFFICES ASSUME ScenarioInit PROVE ScenarioInv
      BY Zenon
    <2>1. CASE ~AcceptsFlags(flags)
      BY <2>1 DEF ScenarioInit, ScenarioInv, DefinitionInv
    <2>2. CASE AcceptsFlags(flags)
      <3>1. flags \in Flags /\ definition = BuildScenarioSpec(flags) /\ stage = "submitted" /\ rows = <<>>
        BY <2>2, Zenon DEF ScenarioInit
      <3>2. PICK n : IsChain(definition, n) /\ n \in Nat \ {0} /\ IsList(definition.tasks)
        BY <2>2, <3>1, ScenarioIsChain, Zenon DEF IsChain
      <3>3. definition # Omitted
        BY <2>2, <3>1, ScenarioAssumption, Zenon
      <3>4. DefinitionInv
        BY <3>1, <3>2 DEF DefinitionInv
      <3>5. Len(rows) \in 0 .. n /\ \A k \in 1 .. Len(rows) : FALSE
        BY <3>1, <3>2
      <3> QED
        BY <3>1, <3>2, <3>3, <3>4, <3>5, Zenon DEF ScenarioInv
    <2> QED
      BY <2>1, <2>2, Zenon
  <1>2. ScenarioInv /\ [ScenarioNext]_<<definitionVars, flags>> => ScenarioInv'
    <2>1. ASSUME ScenarioInv, UNCHANGED definitionVars PROVE ScenarioInv'
      BY <2>1 DEF ScenarioInv, DefinitionInv, definitionVars
    <2> QED
      BY <2>1, ScenarioBegins, ScenarioAdvances, Zenon DEF ScenarioNext
  <1>3. ScenarioInv => ScenarioRunsWholeChain
    <2> SUFFICES ASSUME ScenarioInv PROVE ScenarioRunsWholeChain
      BY Zenon
    <2>1. CASE stage = "exited"
      BY <2>1 DEF ScenarioInv, DefinitionInv, ScenarioRunsWholeChain
    <2>2. CASE stage # "exited"
      <3>1. PICK n : /\ IsChain(definition, n)
                     /\ \A k \in 1 .. Len(rows) : rows[k] = RowOf(definition, k)
                     /\ stage = "succeeded" => Len(rows) = n
        BY <2>2, Zenon DEF ScenarioInv
      <3>2. DOMAIN rows = 1 .. Len(rows) /\ Len(definition.tasks) = n
        BY <3>1 DEF ScenarioInv, DefinitionInv, IsChain
      <3> QED
        BY <2>2, <3>1, <3>2, Zenon DEF ScenarioInv, ScenarioRunsWholeChain
    <2> QED
      BY <2>1, <2>2, Zenon
  <1> QED
    BY <1>1, <1>2, <1>3, PTL DEF ScenarioSpec
=============================================================================
