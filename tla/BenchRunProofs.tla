--------------------------- MODULE BenchRunProofs ---------------------------
(***************************************************************************)
(* Snapshots and the benchmark that polls them.  The benchmark is one      *)
(* client of the engine, so its specification implies the engine's and all *)
(* that is proved there.  What a snapshot shows is backed by what can only *)
(* grow between its queries: rows, attempts and ended attempts.  What the  *)
(* benchmark reports is final because, with one worker, nothing changes in *)
(* an execution that has ended but by a replay.                            *)
(***************************************************************************)
EXTENDS BenchRun, EngineProofs

(* The benchmark follows one execution, and replays one of its tasks. *)
Shape ==
  /\ view = [id |-> view.id, exec |-> view.exec, tasks |-> view.tasks, total |-> view.total,
             attempts |-> view.attempts]
  /\ view.id \in Executions
  /\ target \in Tasks /\ target[1] = view.id
  /\ answered \in 0 .. 3

LEMMA QueriesAre ==
  /\ Len(Queries) = 3 /\ Queries[1] = "execution" /\ Queries[2] = "tasks" /\ Queries[3] = "attempts"
  /\ Shown <=> answered = 3
  BY Zenon DEF Queries, Shown

LEMMA EmptyViewIs ==
  ASSUME NEW e
  PROVE  LET v == EmptyView(e) IN
         /\ v.id = e /\ v.exec = "none" /\ v.tasks = [n \in TaskNames |-> "none"]
         /\ v.total = [n \in TaskNames |-> 0] /\ v.attempts = [n \in TaskNames |-> <<>>]
         /\ v = [id |-> v.id, exec |-> v.exec, tasks |-> v.tasks, total |-> v.total, attempts |-> v.attempts]
  BY Zenon DEF EmptyView

(* What each of the three queries adds to the view. *)
LEMMA QueryAdds ==
  ASSUME Shape, ~Shown, ReadOn
  PROVE  /\ answered' = answered + 1 /\ view'.id = view.id /\ exec[view.id] # "none"
         /\ view' = [id |-> view'.id, exec |-> view'.exec, tasks |-> view'.tasks, total |-> view'.total,
                     attempts |-> view'.attempts]
         /\ view'.exec = IF answered = 0 THEN exec[view.id] ELSE view.exec
         /\ view'.tasks = IF answered = 1 THEN [n \in TaskNames |-> status[<<view.id, n>>]] ELSE view.tasks
         /\ view'.total = IF answered = 1 THEN [n \in TaskNames |-> Len(attempts[<<view.id, n>>])] ELSE view.total
         /\ view'.attempts = IF answered = 2 THEN [n \in TaskNames |-> attempts[<<view.id, n>>]] ELSE view.attempts
  <1>1. answered \in {0, 1, 2}
    BY QueriesAre DEF Shape
  <1>2. /\ answered' = answered + 1 /\ exec[view.id] # "none"
        /\ view' = Answer(Queries[answered + 1], view)
    BY <1>1, QueriesAre DEF ReadOn
  <1>3. PICK i, x, ts, tt, at : /\ i = view.id /\ x = view.exec /\ ts = view.tasks /\ tt = view.total
                                /\ at = view.attempts
    BY Zenon
  <1>4. view = [id |-> i, exec |-> x, tasks |-> ts, total |-> tt, attempts |-> at]
    BY <1>3, Zenon DEF Shape
  <1>5. CASE answered = 0
    <2>1. view' = [id |-> i, exec |-> exec[i], tasks |-> ts, total |-> tt, attempts |-> at]
      BY <1>2, <1>4, <1>5, QueriesAre, SMTT(30) DEF Answer
    <2> QED
      BY <1>2, <1>3, <1>5, <2>1
  <1>6. CASE answered = 1
    <2>1. PICK S, T : /\ S = [n \in TaskNames |-> status[<<view.id, n>>]]
                      /\ T = [n \in TaskNames |-> Len(attempts[<<view.id, n>>])]
      BY Zenon
    <2>2. view' = [view EXCEPT !.tasks = S, !.total = T]
      <3>1. view' = Answer("tasks", view)
        BY <1>2, <1>6, QueriesAre
      <3> QED
        BY <2>1, <3>1, Zenon DEF Answer
    <2>3. view' = [id |-> i, exec |-> x, tasks |-> S, total |-> T, attempts |-> at]
      BY <1>4, <2>2, Zenon
    <2>4. view'.id = i /\ view'.exec = x /\ view'.tasks = S /\ view'.total = T /\ view'.attempts = at
      BY <2>3, Zenon
    <2> QED
      BY <1>2, <1>3, <1>6, <2>1, <2>3, <2>4
  <1>7. CASE answered = 2
    <2>1. PICK A : A = [n \in TaskNames |-> attempts[<<view.id, n>>]]
      BY Zenon
    <2>2. view' = [view EXCEPT !.attempts = A]
      <3>1. view' = Answer("attempts", view)
        BY <1>2, <1>7, QueriesAre
      <3> QED
        BY <2>1, <3>1, Zenon DEF Answer
    <2>3. view' = [id |-> i, exec |-> x, tasks |-> ts, total |-> tt, attempts |-> A]
      BY <1>4, <2>2, Zenon
    <2>4. view'.id = i /\ view'.exec = x /\ view'.tasks = ts /\ view'.total = tt /\ view'.attempts = A
      BY <2>3, Zenon
    <2> QED
      BY <1>2, <1>3, <1>7, <2>1, <2>3, <2>4, SMTT(30)
  <1> QED
    BY <1>1, <1>5, <1>6, <1>7, Zenon

(* Every step keeps to the execution chosen, and is a step of the engine. *)
LEMMA ShapeSteps ==
  ASSUME Shape, [BenchNext]_allVars
  PROVE  Shape' /\ view'.id = view.id /\ [Next]_vars
  <1>a. ASSUME UNCHANGED snapshotVars, target' = target PROVE Shape' /\ view'.id = view.id
    BY <1>a, Zenon DEF Shape, snapshotVars
  <1>b. ASSUME NewSnapshot, target' = target \/ \E n \in TaskNames : target' = <<view.id, n>>
        PROVE  Shape' /\ view'.id = view.id
    <2>1. answered' = 0 /\ view' = EmptyView(view.id)
      BY <1>b, Zenon DEF NewSnapshot
    <2>2. /\ view'.id = view.id
          /\ view' = [id |-> view'.id, exec |-> view'.exec, tasks |-> view'.tasks, total |-> view'.total,
                      attempts |-> view'.attempts]
      BY <2>1, EmptyViewIs, Zenon
    <2>3. target' \in Tasks /\ target'[1] = view.id
      BY <1>b DEF Shape, Tasks
    <2> QED
      BY <2>1, <2>2, <2>3 DEF Shape
  <1>1. CASE Trigger
    BY <1>1, <1>a, Zenon DEF Trigger, GoTo, Next, Api, Shape
  <1>2. CASE Poll
    <2>1. ~Shown /\ ReadOn /\ UNCHANGED vars /\ target' = target
      BY <1>2, Zenon DEF Poll, benchVars
    <2>2. answered \in 0 .. 3 /\ answered # 3
      BY <2>1, QueriesAre, Zenon DEF Shape
    <2>3. answered' \in 0 .. 3
      BY <2>1, <2>2, QueryAdds
    <2> QED
      BY <2>1, <2>3, QueryAdds, Zenon DEF Shape
  <1>3. CASE NotFinished
    BY <1>3, <1>b, Zenon DEF NotFinished, GoTo
  <1>4. CASE NextTick
    BY <1>4, <1>a, Zenon DEF NextTick, GoTo
  <1>5. CASE ChooseReplay
    <2>1. UNCHANGED vars
      BY <1>5, Zenon DEF ChooseReplay
    <2>2. \/ NewSnapshot /\ \E n \in TaskNames : target' = <<view.id, n>>
          \/ UNCHANGED snapshotVars /\ target' = target
      BY <1>5, Zenon DEF ChooseReplay, DeadLettered
    <2> QED
      BY <1>a, <1>b, <2>1, <2>2, Zenon
  <1>6. CASE Replay
    <2>1. ReplayTask(target) \/ UNCHANGED vars
      BY <1>6, Zenon DEF Replay
    <2>2. [Next]_vars
      BY <2>1, Zenon DEF Next, Api, Shape
    <2> QED
      BY <1>6, <1>a, <2>2, Zenon DEF Replay
  <1>7. CASE Report
    BY <1>7, <1>a, Zenon DEF Report
  <1>8. CASE GiveUp
    BY <1>8, <1>a, Zenon DEF GiveUp
  <1>9. CASE (Timer \/ WorkerNext \/ PublisherNext) /\ UNCHANGED <<snapshotVars, benchVars>>
    BY <1>9, <1>a, Zenon DEF benchVars, Next
  <1>10. CASE UNCHANGED allVars
    BY <1>10, <1>a, Zenon DEF allVars, benchVars
  <1> QED
    BY <1>1, <1>2, <1>3, <1>4, <1>5, <1>6, <1>7, <1>8, <1>9, <1>10, Zenon DEF BenchNext, BenchStep

LEMMA ShapeHolds == BenchSpec => []Shape
  <1>1. BenchInit => Shape
    <2> SUFFICES ASSUME BenchInit PROVE Shape
      BY Zenon
    <2>1. PICK e \in Executions : view = EmptyView(e)
      BY Zenon DEF BenchInit, SnapshotInit
    <2>2. /\ view.id = e
          /\ view = [id |-> view.id, exec |-> view.exec, tasks |-> view.tasks, total |-> view.total,
                     attempts |-> view.attempts]
      BY <2>1, EmptyViewIs, Zenon
    <2>3. target \in Tasks /\ target[1] = view.id
      BY <2>2, DefinitionAssumption, Zenon DEF BenchInit, Tasks
    <2> QED
      BY <2>2, <2>3 DEF Shape, BenchInit, SnapshotInit
  <1>2. Shape /\ [BenchNext]_allVars => Shape'
    BY ShapeSteps, Zenon
  <1> QED
    BY <1>1, <1>2, PTL DEF BenchSpec

(* The engine under the benchmark is the engine: whatever holds of it in   *)
(* every behaviour holds while it is measured.                             *)
THEOREM BenchRunsTheEngine == BenchSpec => Spec
  <1>1. BenchInit => Init
    BY Zenon DEF BenchInit
  <1>2. Shape /\ [BenchNext]_allVars => [Next]_vars
    BY ShapeSteps, Zenon
  <1> QED
    BY <1>1, <1>2, ShapeHolds, PTL DEF BenchSpec, Spec

-----------------------------------------------------------------------------
(* A finished task has the attempt that finished it on record. *)
EndHasAttempt ==
  \A t \in Tasks : /\ status[t] = "succeeded" => HasAttempt(t, "succeeded")
                   /\ status[t] = "dead_lettered" => HasAttempt(t, "failed")

LEMMA EndSteps ==
  ASSUME TypeOK, AttemptOwnership, KnownTasks, EndHasAttempt, [Next]_vars
  PROVE  EndHasAttempt'
  <1>0. StoreTypeOK /\ HistoryStays
    BY HistorySteps, Zenon DEF TypeOK
  <1> SUFFICES ASSUME NEW t \in Tasks
               PROVE  /\ status'[t] = "succeeded" => HasAttempt(t, "succeeded")'
                      /\ status'[t] = "dead_lettered" => HasAttempt(t, "failed")'
    BY Zenon DEF EndHasAttempt
  <1>a. CASE status'[t] = status[t] \/ status'[t] = "pending" \/ status'[t] = "running"
    BY <1>0, <1>a, EndedStays, Zenon DEF EndHasAttempt
  <1>1. CASE UNCHANGED <<exec, status, attempts>>
    BY <1>1, <1>a, Zenon
  <1>2. ASSUME NEW e \in Executions, CreateExecutionAndTask(e) PROVE status'[t] = status[t] \/ status'[t] = "pending"
    BY <1>0, <1>2, Zenon DEF CreateExecutionAndTask, StoreTypeOK
  <1>3. ASSUME NEW u \in Tasks, ReplayDeadLetteredTask(u) PROVE status'[t] = status[t] \/ status'[t] = "pending"
    BY <1>0, <1>3, Zenon DEF ReplayDeadLetteredTask, StoreTypeOK
  <1>4. ASSUME NEW w \in Workers, BeginAttempt(w) PROVE status'[t] = status[t] \/ status'[t] = "running"
    <2>1. \E u : status' = [status EXCEPT ![u] = "running"]
      BY <1>4, Zenon DEF BeginAttempt, StartTaskAttempt
    <2> QED
      BY <1>0, <2>1, Zenon DEF StoreTypeOK
  <1>5. ASSUME NEW w \in Workers, RetryAttempt(w) PROVE status'[t] = status[t] \/ status'[t] = "pending"
    <2>1. \E u : status' = [status EXCEPT ![u] = "pending"]
      BY <1>5, Zenon DEF RetryAttempt, ScheduleTaskRetry
    <2> QED
      BY <1>0, <2>1, Zenon DEF StoreTypeOK
  <1>6. ASSUME NEW w \in Workers, FailAttempt(w) \/ CompleteAttempt(w) \/ CompleteAndEnqueueNext(w), status'[t] # status[t]
        PROVE  /\ status'[t] = "succeeded" => HasAttempt(t, "succeeded")'
               /\ status'[t] = "dead_lettered" => HasAttempt(t, "failed")'
    <2>1. PICK u : u = TaskOf(w)
      BY Zenon
    <2>2. phase[w] = "running" /\ u \in Tasks /\ u = TaskOf(w)
      BY <1>6, <2>1, OutcomeStatuses, Zenon
    <2>3. CASE FailAttempt(w)
      <3>1. attempts' = [attempts EXCEPT ![TaskOf(w)][attempt[w]] = "failed"]
        BY <2>3, Zenon DEF FailAttempt, FailTaskAttempt
      <3>2. HasAttempt(u, "failed")'
        BY <2>2, <3>1, OutcomeOnRecord, Zenon DEF AttemptStatus
      <3>3. status' = [status EXCEPT ![u] = "dead_lettered"]
        BY <2>1, <2>3, OutcomeStatuses, Zenon
      <3>4. t = u /\ status'[t] = "dead_lettered"
        BY <1>0, <1>6, <2>2, <3>3, Zenon DEF StoreTypeOK
      <3> QED
        BY <3>2, <3>4, Zenon
    <2>4. CASE CompleteAttempt(w) \/ CompleteAndEnqueueNext(w)
      <3>1. attempts' = [attempts EXCEPT ![TaskOf(w)][attempt[w]] = "succeeded"]
        BY <2>4, Zenon
           DEF CompleteAttempt, CompleteTaskAttempt, CompleteAndEnqueueNext, CompleteTaskAttemptAndEnqueueNextTask
      <3>2. HasAttempt(u, "succeeded")'
        BY <2>2, <3>1, OutcomeOnRecord, Zenon DEF AttemptStatus
      <3>3. \/ status' = [status EXCEPT ![u] = "succeeded"]
            \/ \E q : status' = [status EXCEPT ![u] = "succeeded", ![q] = "pending"]
        BY <2>1, <2>4, OutcomeStatuses
      <3>4. (t = u /\ status'[t] = "succeeded") \/ status'[t] = "pending"
        BY <1>0, <1>6, <2>2, <3>3, Zenon DEF StoreTypeOK
      <3> QED
        BY <3>2, <3>4, Zenon
    <2> QED
      BY <1>6, <2>3, <2>4, Zenon
  <1> QED
    BY <1>a, <1>1, <1>2, <1>3, <1>4, <1>5, <1>6, StatusSteps, Zenon DEF StatusStep

LEMMA EndHasAttemptHolds == Spec => []EndHasAttempt
  <1>1. Init => EndHasAttempt
    BY Zenon DEF Init, StoreInit, EndHasAttempt
  <1>2. TypeOK /\ AttemptOwnership /\ KnownTasks /\ EndHasAttempt /\ [Next]_vars => EndHasAttempt'
    BY EndSteps, Zenon
  <1> QED
    BY <1>1, <1>2, TypeCorrect, AttemptOwnershipHolds, KnownTasksHold, PTL DEF Spec

-----------------------------------------------------------------------------
(* What a snapshot under way has shown so far is backed by the database:   *)
(* an attempt of task n with outcome s is there, will be listed under a    *)
(* task already listed, or is listed already.                              *)
Backed(n, s) ==
  /\ HasAttempt(<<view.id, n>>, s)
  /\ answered >= 2 => view.tasks[n] # "none"
  /\ answered = 3 => \E k \in DOMAIN view.attempts[n] : view.attempts[n][k] = s

SnapshotBacked ==
  /\ view.exec = "succeeded" => \E n \in TaskNames : NextTask[n] = NoTask /\ Backed(n, "succeeded")
  /\ view.exec = "failed" => \E n \in TaskNames : Backed(n, "failed")
  /\ \A n \in TaskNames :
       /\ view.tasks[n] = "succeeded" => Backed(n, "succeeded")
       /\ view.tasks[n] = "dead_lettered" => Backed(n, "failed")
       /\ view.tasks[n] = "none" => view.total[n] = 0
       /\ view.total[n] \in Nat
       /\ Len(attempts[<<view.id, n>>]) >= view.total[n]
       /\ answered = 3 => Len(view.attempts[n]) >= view.total[n]

(* Nothing has been shown yet. *)
LEMMA EmptyIsBacked ==
  ASSUME NEW e \in Executions, StoreTypeOK, view = EmptyView(e), answered = 0
  PROVE  SnapshotBacked
  <1>1. /\ view.exec = "none" /\ view.id = e
        /\ \A n \in TaskNames : view.tasks[n] = "none" /\ view.total[n] = 0
    BY EmptyViewIs
  <1>2. \A n \in TaskNames : Len(attempts[<<view.id, n>>]) \in Nat
    BY <1>1 DEF StoreTypeOK, Tasks
  <1> QED
    BY <1>1, <1>2 DEF SnapshotBacked

(* The engine goes on while the snapshot is taken. *)
LEMMA BackedStays ==
  ASSUME Shape, StoreTypeOK, StoreTypeOK', HistoryStays, SnapshotBacked, UNCHANGED snapshotVars
  PROVE  SnapshotBacked'
  <1>1. answered' = answered /\ view' = view
    BY Zenon DEF snapshotVars
  <1>2. ASSUME NEW n \in TaskNames, NEW s \in {"succeeded", "failed"}, Backed(n, s) PROVE Backed(n, s)'
    <2>1. PICK t \in Tasks : t = <<view.id, n>>
      BY Zenon DEF Shape, Tasks
    <2>2. HasAttempt(t, s)
      BY <1>2, <2>1, Zenon DEF Backed
    <2>3. HasAttempt(t, s)'
      BY <2>2, EndedStays, Zenon
    <2>4. HasAttempt(<<view.id, n>>, s)'
      BY <1>1, <2>1, <2>3, Zenon DEF HasAttempt
    <2> QED
      BY <1>1, <1>2, <2>4, Zenon DEF Backed
  <1>3. ASSUME NEW n \in TaskNames PROVE Len(attempts'[<<view.id, n>>]) >= Len(attempts[<<view.id, n>>])
    <2>1. PICK t \in Tasks : t = <<view.id, n>>
      BY Zenon DEF Shape, Tasks
    <2>2. attempts[t] \in Seq(AttemptStatus) /\ attempts'[t] \in Seq(AttemptStatus)
      BY Zenon DEF StoreTypeOK
    <2>3. DOMAIN attempts[t] \subseteq DOMAIN attempts'[t]
      BY Zenon DEF HistoryStays
    <2>4. 1 .. Len(attempts[t]) \subseteq 1 .. Len(attempts'[t])
      BY <2>2, <2>3
    <2> QED
      BY <2>1, <2>2, <2>4, SMTT(30)
  <1>4. \A n \in TaskNames : Len(attempts[<<view.id, n>>]) \in Nat /\ Len(attempts'[<<view.id, n>>]) \in Nat
    BY DEF StoreTypeOK, Tasks, Shape
  <1> QED
    BY <1>1, <1>2, <1>3, <1>4 DEF SnapshotBacked

(* A query answered backs what it adds, and keeps backing what was there. *)
LEMMA QueryIsBacked ==
  ASSUME Shape, StoreTypeOK, UNCHANGED vars, FreshTasks, OutcomeHasCause, EndHasAttempt, SnapshotBacked, ~Shown, ReadOn
  PROVE  SnapshotBacked'
  <1>0. answered \in {0, 1, 2} /\ view.id \in Executions
    BY QueriesAre DEF Shape
  <1>1. PICK e : e = view.id
    BY Zenon
  <1>2. /\ answered' = answered + 1 /\ view'.id = e /\ e \in Executions
        /\ view'.exec = IF answered = 0 THEN exec[e] ELSE view.exec
        /\ view'.tasks = IF answered = 1 THEN [n \in TaskNames |-> status[<<e, n>>]] ELSE view.tasks
        /\ view'.total = IF answered = 1 THEN [n \in TaskNames |-> Len(attempts[<<e, n>>])] ELSE view.total
        /\ view'.attempts = IF answered = 2 THEN [n \in TaskNames |-> attempts[<<e, n>>]] ELSE view.attempts
    BY <1>0, <1>1, QueryAdds, Zenon
  <1>3. attempts' = attempts
    BY Zenon DEF vars, storeVars
  <1>4. \A n \in TaskNames : <<e, n>> \in Tasks /\ Len(attempts[<<e, n>>]) \in Nat
    BY <1>2 DEF Tasks, StoreTypeOK
  <1>5. ASSUME NEW n \in TaskNames, NEW s, HasAttempt(<<e, n>>, s) PROVE status[<<e, n>>] # "none"
    <2>1. attempts[<<e, n>>] # <<>>
      BY <1>5 DEF HasAttempt
    <2> QED
      BY <1>4, <2>1, Zenon DEF FreshTasks
  <1>6. ASSUME NEW n \in TaskNames, NEW s
        PROVE  Backed(n, s) <=> /\ HasAttempt(<<e, n>>, s)
                                /\ answered >= 2 => view.tasks[n] # "none"
                                /\ answered = 3 => \E k \in DOMAIN view.attempts[n] : view.attempts[n][k] = s
    BY <1>1, Zenon DEF Backed
  <1>7. ASSUME NEW n \in TaskNames, NEW s
        PROVE  Backed(n, s)' <=> /\ HasAttempt(<<e, n>>, s)
                                 /\ answered' >= 2 => view'.tasks[n] # "none"
                                 /\ answered' = 3 => \E k \in DOMAIN view'.attempts[n] : view'.attempts[n][k] = s
    <2>1. HasAttempt(<<view.id, n>>, s)' <=> HasAttempt(<<e, n>>, s)
      BY <1>2, <1>3, Zenon DEF HasAttempt
    <2> QED
      BY <2>1, Zenon DEF Backed
  <1>8. ASSUME NEW n \in TaskNames, NEW s, Backed(n, s) PROVE Backed(n, s)'
    <2>1. HasAttempt(<<e, n>>, s) /\ status[<<e, n>>] # "none"
      BY <1>5, <1>6, <1>8, Zenon
    <2>2. answered' >= 2 => view'.tasks[n] # "none"
      BY <1>0, <1>2, <1>6, <1>8, <2>1, SMTT(30)
    <2>3. answered' = 3 => \E k \in DOMAIN view'.attempts[n] : view'.attempts[n][k] = s
      BY <1>0, <1>2, <2>1 DEF HasAttempt
    <2> QED
      BY <1>7, <2>1, <2>2, <2>3, Zenon
  <1>9. /\ view'.exec = "succeeded" => \E n \in TaskNames : NextTask[n] = NoTask /\ Backed(n, "succeeded")'
        /\ view'.exec = "failed" => \E n \in TaskNames : Backed(n, "failed")'
    <2>1. CASE answered = 0
      <3>1. view'.exec = exec[e] /\ answered' = 1
        BY <1>2, <2>1
      <3>2. ASSUME NEW n \in TaskNames, NEW s, HasAttempt(<<e, n>>, s) PROVE Backed(n, s)'
        BY <1>7, <3>1, <3>2
      <3>3. /\ exec[e] = "succeeded" => \E n \in TaskNames : NextTask[n] = NoTask /\ HasAttempt(<<e, n>>, "succeeded")
            /\ exec[e] = "failed" => \E n \in TaskNames : HasAttempt(<<e, n>>, "failed")
        BY <1>2, Zenon DEF OutcomeHasCause
      <3> QED
        BY <3>1, <3>2, <3>3, Zenon
    <2>2. CASE answered # 0
      <3>1. view'.exec = view.exec
        BY <1>2, <2>2, Zenon
      <3>2. /\ view.exec = "succeeded" => \E n \in TaskNames : NextTask[n] = NoTask /\ Backed(n, "succeeded")
            /\ view.exec = "failed" => \E n \in TaskNames : Backed(n, "failed")
        BY Zenon DEF SnapshotBacked
      <3> QED
        BY <1>8, <3>1, <3>2, Zenon
    <2> QED
      BY <2>1, <2>2, Zenon
  <1>10. ASSUME NEW n \in TaskNames
         PROVE  /\ view'.tasks[n] = "succeeded" => Backed(n, "succeeded")'
                /\ view'.tasks[n] = "dead_lettered" => Backed(n, "failed")'
                /\ view'.tasks[n] = "none" => view'.total[n] = 0
                /\ view'.total[n] \in Nat
                /\ Len(attempts'[<<view'.id, n>>]) >= view'.total[n]
                /\ answered' = 3 => Len(view'.attempts[n]) >= view'.total[n]
    <2>1. CASE answered = 1
      <3>1. view'.tasks[n] = status[<<e, n>>] /\ view'.total[n] = Len(attempts[<<e, n>>]) /\ answered' = 2
        BY <1>2, <2>1
      <3>2. view'.tasks[n] = "none" => view'.total[n] = 0
        <4>1. status[<<e, n>>] = "none" => attempts[<<e, n>>] = <<>>
          BY <1>4, Zenon DEF FreshTasks
        <4> QED
          BY <3>1, <4>1, Zenon
      <3>3. /\ view'.tasks[n] = "succeeded" => Backed(n, "succeeded")'
            /\ view'.tasks[n] = "dead_lettered" => Backed(n, "failed")'
        BY <1>4, <1>7, <3>1 DEF EndHasAttempt
      <3> QED
        BY <1>2, <1>3, <1>4, <3>1, <3>2, <3>3, SMTT(30)
    <2>2. CASE answered # 1
      <3>1. view'.tasks = view.tasks /\ view'.total = view.total
        BY <1>2, <2>2, Zenon
      <3>2. /\ view'.tasks[n] = "succeeded" => Backed(n, "succeeded")'
            /\ view'.tasks[n] = "dead_lettered" => Backed(n, "failed")'
        BY <1>8, <3>1, Zenon DEF SnapshotBacked
      <3>3. /\ view'.tasks[n] = "none" => view'.total[n] = 0
            /\ view'.total[n] \in Nat /\ Len(attempts[<<e, n>>]) >= view'.total[n]
        BY <1>1, <3>1, Zenon DEF SnapshotBacked
      <3>4. answered' = 3 => Len(view'.attempts[n]) >= view'.total[n]
        BY <1>0, <1>2, <3>3
      <3> QED
        BY <1>2, <1>3, <3>2, <3>3, <3>4, Zenon
    <2> QED
      BY <2>1, <2>2, Zenon
  <1> QED
    BY <1>9, <1>10, Zenon DEF SnapshotBacked

LEMMA SnapshotBackedHolds == BenchSpec => []SnapshotBacked
  <1>1. BenchInit /\ TypeOK => SnapshotBacked
    BY EmptyIsBacked, Zenon DEF BenchInit, SnapshotInit, TypeOK
  <1>2. /\ Shape /\ TypeOK /\ TypeOK' /\ AttemptOwnership /\ FreshTasks /\ OutcomeHasCause /\ EndHasAttempt
        /\ SnapshotBacked /\ [BenchNext]_allVars
        => SnapshotBacked'
    <2> SUFFICES ASSUME Shape, TypeOK, TypeOK', AttemptOwnership, FreshTasks, OutcomeHasCause, EndHasAttempt,
                        SnapshotBacked, [BenchNext]_allVars
                 PROVE  SnapshotBacked'
      BY Zenon
    <2>0. StoreTypeOK /\ StoreTypeOK' /\ [Next]_vars
      BY ShapeSteps, Zenon DEF TypeOK
    <2>1. HistoryStays
      BY <2>0, HistorySteps, Zenon
    <2>2. CASE UNCHANGED snapshotVars
      BY <2>0, <2>1, <2>2, BackedStays, Zenon
    <2>3. CASE NewSnapshot
      <3>1. answered' = 0 /\ view' = EmptyView(view.id) /\ view.id \in Executions
        BY <2>3, Zenon DEF NewSnapshot, Shape
      <3>2. /\ view'.exec = "none" /\ view'.id = view.id
            /\ \A n \in TaskNames : view'.tasks[n] = "none" /\ view'.total[n] = 0
        BY <3>1, EmptyViewIs, SMTT(30)
      <3>3. \A n \in TaskNames : Len(attempts'[<<view'.id, n>>]) \in Nat
        BY <2>0, <3>1, <3>2 DEF StoreTypeOK, Tasks
      <3> QED
        BY <3>1, <3>2, <3>3 DEF SnapshotBacked
    <2>4. CASE Poll
      BY <2>0, <2>4, QueryIsBacked, Zenon DEF Poll
    <2>5. UNCHANGED snapshotVars \/ NewSnapshot \/ Poll
      BY Zenon DEF BenchNext, BenchStep, Trigger, NotFinished, NextTick, ChooseReplay, Replay, Report, GiveUp, allVars
    <2> QED
      BY <2>2, <2>3, <2>4, <2>5, Zenon
  <1> QED
    BY <1>1, <1>2, ShapeHolds, BenchRunsTheEngine, TypeCorrect, AttemptOwnershipHolds, FreshHolds, OutcomeHasCauseHolds,
       EndHasAttemptHolds, PTL DEF BenchSpec

(* A snapshot shows no outcome without what it came from, for any number   *)
(* of workers, publishers, failures and duplicate messages at work between *)
(* the three queries of GetExecutionSnapshot.                              *)
THEOREM ShownOutcomeHasCauseHolds == BenchSpec => []ShownOutcomeHasCause
  <1>1. SnapshotBacked => ShownOutcomeHasCause
    <2> SUFFICES ASSUME SnapshotBacked, answered = 3
                 PROVE  /\ view.exec = "succeeded" => \E n \in TaskNames : NextTask[n] = NoTask /\ Shows(n, "succeeded")
                        /\ view.exec = "failed" => \E n \in TaskNames : Shows(n, "failed")
      BY QueriesAre, Zenon DEF ShownOutcomeHasCause
    <2>1. ASSUME NEW n \in TaskNames, NEW s, Backed(n, s) PROVE Shows(n, s)
      BY <2>1 DEF Backed, Shows, AttemptsShown
    <2> QED
      BY <2>1, Zenon DEF SnapshotBacked
  <1> QED
    BY <1>1, SnapshotBackedHolds, PTL

(* Nor a task ahead of its attempts. *)
THEOREM ShownTaskHasItsAttemptsHolds == BenchSpec => []ShownTaskHasItsAttempts
  <1>1. SnapshotBacked => ShownTaskHasItsAttempts
    <2> SUFFICES ASSUME SnapshotBacked, answered = 3, NEW n \in TaskNames
                 PROVE  /\ Len(AttemptsShown(n)) >= view.total[n]
                        /\ view.tasks[n] = "succeeded" => Shows(n, "succeeded")
                        /\ view.tasks[n] = "dead_lettered" => Shows(n, "failed")
      BY QueriesAre, Zenon DEF ShownTaskHasItsAttempts
    <2>1. Len(AttemptsShown(n)) >= view.total[n]
      <3>1. /\ Len(view.attempts[n]) >= view.total[n]
            /\ view.tasks[n] = "none" => view.total[n] = 0
        BY Zenon DEF SnapshotBacked
      <3>2. CASE view.tasks[n] = "none"
        <4>1. AttemptsShown(n) = <<>> /\ view.total[n] = 0
          BY <3>1, <3>2, Zenon DEF AttemptsShown
        <4> QED
          BY <4>1
      <3>3. CASE view.tasks[n] # "none"
        BY <3>1, <3>3, Zenon DEF AttemptsShown
      <3> QED
        BY <3>2, <3>3, Zenon
    <2>2. ASSUME NEW s, Backed(n, s) PROVE Shows(n, s)
      BY <2>2 DEF Backed, Shows, AttemptsShown
    <2>3. /\ view.tasks[n] = "succeeded" => Shows(n, "succeeded")
          /\ view.tasks[n] = "dead_lettered" => Shows(n, "failed")
      BY <2>2, Zenon DEF SnapshotBacked
    <2> QED
      BY <2>1, <2>3, Zenon
  <1> QED
    BY <1>1, SnapshotBackedHolds, PTL

-----------------------------------------------------------------------------
(* Nothing changes in an execution that has ended, but by a replay: every   *)
(* message still about, and every worker, finds its tasks finished.         *)
LEMMA EndedIsFrozen ==
  ASSUME TypeOK, KnownTasks, OneUnfinished, [Next]_vars, replays' = replays,
         NEW e \in Executions, exec[e] \in {"succeeded", "failed"}
  PROVE  /\ exec'[e] = exec[e]
         /\ \A n \in TaskNames : status'[<<e, n>>] = status[<<e, n>>] /\ attempts'[<<e, n>>] = attempts[<<e, n>>]
  <1>0. StoreTypeOK /\ replays \in Nat /\ AtMostOneUnfinished /\ RunningIsShown
    BY Zenon DEF TypeOK, StoreTypeOK, OneUnfinished
  <1>a. \A n \in TaskNames : <<e, n>> \in Tasks /\ <<e, n>>[1] = e
    BY Zenon DEF Tasks
  <1>1. CASE UNCHANGED <<exec, status, attempts>>
    BY <1>1, Zenon
  <1>2. ASSUME NEW d \in Executions, CreateExecutionAndTask(d)
        PROVE  /\ exec'[e] = exec[e] /\ attempts' = attempts
               /\ \A n \in TaskNames : status'[<<e, n>>] = status[<<e, n>>]
    <2>1. /\ exec[d] = "none" /\ exec' = [exec EXCEPT ![d] = "running"] /\ attempts' = attempts
          /\ status' = [status EXCEPT ![<<d, EntryTask>>] = "pending"]
      BY <1>2, Zenon DEF CreateExecutionAndTask
    <2>2. d # e
      BY <2>1, Zenon
    <2> QED
      BY <1>0, <1>a, <2>1, <2>2, Zenon DEF StoreTypeOK
  <1>3. ASSUME NEW u \in Tasks, ReplayDeadLetteredTask(u) PROVE FALSE
    BY <1>0, <1>3 DEF ReplayDeadLetteredTask
  <1>4. ASSUME NEW w \in Workers, BeginAttempt(w)
        PROVE  /\ exec'[e] = exec[e]
               /\ \A n \in TaskNames : status'[<<e, n>>] = status[<<e, n>>] /\ attempts'[<<e, n>>] = attempts[<<e, n>>]
    <2>1. PICK m \in batch[w] : StartTaskAttempt(stream[m])
      BY <1>4, Zenon DEF BeginAttempt
    <2>2. PICK t : t = stream[m]
      BY Zenon
    <2>3. t \in Tasks /\ m \in 1 .. Len(stream)
      BY <2>2 DEF TypeOK, WorkerTypeOK
    <2>4. status[t] # "none" /\ status[t] \notin Terminal
      BY <2>1, <2>2, <2>3, Zenon DEF KnownTasks, StartTaskAttempt
    <2>5. Open(t)
      BY <1>0, <2>3, <2>4, Zenon DEF StoreTypeOK, TaskStatus, Terminal, Open
    <2>6. t[1] # e
      BY <1>0, <2>3, <2>5, Zenon DEF AtMostOneUnfinished
    <2>7. /\ exec' = exec /\ status' = [status EXCEPT ![t] = "running"]
          /\ attempts' = [attempts EXCEPT ![t] = Append(@, "running")]
      BY <2>1, <2>2, Zenon DEF StartTaskAttempt
    <2> QED
      BY <1>0, <1>a, <2>6, <2>7, Zenon DEF StoreTypeOK
  <1>5. ASSUME NEW w \in Workers, RetryAttempt(w) \/ FailAttempt(w) \/ CompleteAttempt(w) \/ CompleteAndEnqueueNext(w)
        PROVE  /\ exec'[e] = exec[e]
               /\ \A n \in TaskNames : status'[<<e, n>>] = status[<<e, n>>] /\ attempts'[<<e, n>>] = attempts[<<e, n>>]
    <2>1. PICK t : t = TaskOf(w)
      BY Zenon
    <2>2. phase[w] = "running" /\ t \in Tasks /\ t[1] \in Executions
      BY <1>5, <2>1, OutcomeStatuses, Zenon
    <2>3. status[t] = "running"
      BY <1>0, <2>1, <2>2, Zenon DEF RunningIsShown
    <2>4. t[1] # e
      BY <1>0, <2>2, <2>3, Zenon DEF AtMostOneUnfinished, Open
    <2>5. \E x : exec' = exec \/ exec' = [exec EXCEPT ![t[1]] = x]
      BY <1>5, <2>1, OutcomeStatuses, Zenon
    <2>6. exec'[e] = exec[e]
      BY <1>0, <2>4, <2>5, Zenon DEF StoreTypeOK
    <2>7. \A n \in TaskNames : status'[<<e, n>>] = status[<<e, n>>]
      <3>1. CASE RetryAttempt(w) \/ FailAttempt(w) \/ CompleteAttempt(w)
        <4>1. \E x : status' = [status EXCEPT ![t] = x]
          BY <2>1, <3>1, OutcomeStatuses, Zenon
        <4> QED
          BY <1>0, <1>a, <2>4, <4>1, Zenon DEF StoreTypeOK
      <3>2. CASE CompleteAndEnqueueNext(w)
        <4>1. PICK q : q = Successor(t)
          BY Zenon
        <4>2. NextTask[t[2]] # NoTask /\ status' = [status EXCEPT ![t] = "succeeded", ![q] = "pending"]
          BY <2>1, <3>2, <4>1, OutcomeStatuses, Zenon
        <4>3. q[1] # e
          BY <2>2, <2>4, <4>1, <4>2, SuccessorIsTask, Zenon
        <4> QED
          BY <1>0, <1>a, <2>4, <4>2, <4>3, Zenon DEF StoreTypeOK
      <3> QED
        BY <1>5, <3>1, <3>2, Zenon
    <2>8. \A n \in TaskNames : attempts'[<<e, n>>] = attempts[<<e, n>>]
      <3>1. PICK k : k = attempt[w]
        BY Zenon
      <3>2. \E s : attempts' = [attempts EXCEPT ![t][k] = s]
        BY <1>5, <2>1, <3>1, Zenon
           DEF RetryAttempt, FailAttempt, CompleteAttempt, CompleteAndEnqueueNext,
               ScheduleTaskRetry, FailTaskAttempt, CompleteTaskAttempt, CompleteTaskAttemptAndEnqueueNextTask
      <3> QED
        BY <1>0, <1>a, <2>4, <3>2, Zenon DEF StoreTypeOK
    <2> QED
      BY <2>6, <2>7, <2>8, Zenon
  <1> QED
    BY <1>1, <1>2, <1>3, <1>4, <1>5, StatusSteps, Zenon DEF StatusStep

LEMMA NoReplayByTheEngine ==
  ASSUME Timer \/ WorkerNext \/ PublisherNext
  PROVE  replays' = replays
  <1>1. CASE Timer
    BY <1>1, Zenon DEF Timer, BackoffElapses, PendingTimesOut, storeVars
  <1>2. CASE WorkerNext
    BY <1>2, Zenon
       DEF WorkerNext, WorkerStep, WorkerFault, ClaimPending, ReadNew, ReadTimesOut, Ack, BeginAttempt, SkipDuplicate,
           RetryAttempt, FailAttempt, CompleteAttempt, CompleteAndEnqueueNext, EnqueueNextConflicts, LeavePending,
           CrashWorker, StartTaskAttempt, ScheduleTaskRetry, FailTaskAttempt, CompleteTaskAttempt,
           CompleteTaskAttemptAndEnqueueNextTask, storeVars
  <1>3. CASE PublisherNext
    BY <1>3, Zenon
       DEF PublisherNext, PublisherStep, PublisherFault, EnqueueRetries, EnqueueDueTaskRetries, ListPendingOutbox,
           Publish, MarkDispatched, MarkOutboxDispatched, PublishFails, AbortTick, storeVars
  <1> QED
    BY <1>1, <1>2, <1>3, Zenon

(* A task waiting to run goes on waiting or is given an attempt. *)
LEMMA PendingStarts ==
  ASSUME TypeOK, OneUnfinished, [Next]_vars, NEW t \in Tasks, status[t] = "pending"
  PROVE  status'[t] = "pending" \/ Len(attempts'[t]) = Len(attempts[t]) + 1
  <1>0. StoreTypeOK /\ RunningIsShown
    BY Zenon DEF TypeOK, OneUnfinished
  <1>1. CASE UNCHANGED <<exec, status, attempts>>
    BY <1>1, Zenon
  <1>2. ASSUME NEW e \in Executions, CreateExecutionAndTask(e) PROVE status'[t] = "pending"
    BY <1>0, <1>2, Zenon DEF CreateExecutionAndTask, StoreTypeOK
  <1>3. ASSUME NEW u \in Tasks, ReplayDeadLetteredTask(u) PROVE status'[t] = "pending"
    BY <1>0, <1>3, Zenon DEF ReplayDeadLetteredTask, StoreTypeOK
  <1>4. ASSUME NEW w \in Workers, BeginAttempt(w)
        PROVE  status'[t] = "pending" \/ Len(attempts'[t]) = Len(attempts[t]) + 1
    <2>1. \E u : /\ status' = [status EXCEPT ![u] = "running"]
                 /\ attempts' = [attempts EXCEPT ![u] = Append(@, "running")]
      BY <1>4, Zenon DEF BeginAttempt, StartTaskAttempt
    <2> QED
      BY <1>0, <2>1 DEF StoreTypeOK
  <1>5. ASSUME NEW w \in Workers, RetryAttempt(w) \/ FailAttempt(w) \/ CompleteAttempt(w) \/ CompleteAndEnqueueNext(w)
        PROVE  status'[t] = "pending"
    <2>1. PICK u : u = TaskOf(w)
      BY Zenon
    <2>2. u # t
      BY <1>0, <1>5, <2>1, OutcomeStatuses, Zenon DEF RunningIsShown
    <2>3. \/ \E x : status' = [status EXCEPT ![u] = x]
          \/ \E q : status' = [status EXCEPT ![u] = "succeeded", ![q] = "pending"]
      BY <1>5, <2>1, OutcomeStatuses
    <2> QED
      BY <1>0, <2>2, <2>3, Zenon DEF StoreTypeOK
  <1> QED
    BY <1>1, <1>2, <1>3, <1>4, <1>5, StatusSteps, Zenon DEF StatusStep

-----------------------------------------------------------------------------
(* Where the run stands: a snapshot is begun afresh, and a report says what *)
(* the last one showed.                                                    *)
Staged ==
  /\ bphase \in {"trigger", "wait", "replay"} => answered = 0
  /\ bphase = "reported" =>
       /\ answered = 3 /\ IsTerminal(view.exec)
       /\ report = [status |-> view.exec, attempts |-> TotalAttempts, terminalTasks |-> CountTerminalTasks]

(* A snapshot that has shown the end of the execution shows the database   *)
(* as it is, as far as it goes.                                            *)
UpToDate ==
  bphase \in {"poll", "reported"} /\ answered >= 1 /\ IsTerminal(view.exec) =>
    /\ exec[view.id] = view.exec
    /\ answered >= 2 => \A n \in TaskNames : view.tasks[n] = status[<<view.id, n>>]
    /\ answered = 3 => \A n \in TaskNames : view.attempts[n] = attempts[<<view.id, n>>]

(* The task to replay is dead-lettered until it is replayed, and then it   *)
(* waits to run or has been run again.                                     *)
Measured ==
  /\ before \in Nat
  /\ bphase = "replay" => status[target] = "dead_lettered" /\ exec[view.id] = "failed"
  /\ before > 0 =>
       /\ ~replayLeft
       /\ \/ Len(attempts[target]) > before
          \/ Len(attempts[target]) = before /\ status[target] = "pending"

LEMMA StagedSteps ==
  ASSUME Staged, [BenchNext]_allVars
  PROVE  Staged'
  <1>a. ASSUME bphase' \in {"poll", "error"} PROVE Staged'
    BY <1>a, Zenon DEF Staged
  <1>b. ASSUME answered' = 0, bphase' # "reported" PROVE Staged'
    BY <1>b, Zenon DEF Staged
  <1>c. ASSUME view' = view
        PROVE  /\ TotalAttempts' = TotalAttempts /\ CountTerminalTasks' = CountTerminalTasks
               /\ IsTerminal(view.exec)' <=> IsTerminal(view.exec)
    BY <1>c, Zenon DEF TotalAttempts, AttemptsShown, CountTerminalTasks, IsTerminal
  <1>d. ASSUME UNCHANGED <<snapshotVars, bphase, report>> PROVE Staged'
    BY <1>c, <1>d, Zenon DEF Staged, snapshotVars
  <1>1. CASE Trigger
    BY <1>1, <1>a, Zenon DEF Trigger, GoTo
  <1>2. CASE Poll
    BY <1>2, <1>a, Zenon DEF Poll, benchVars
  <1>3. CASE NotFinished
    BY <1>3, <1>b, Zenon DEF NotFinished, GoTo, NewSnapshot
  <1>4. CASE NextTick
    BY <1>4, <1>a, Zenon DEF NextTick, GoTo
  <1>5. CASE ChooseReplay
    BY <1>5, <1>a, <1>b, Zenon DEF ChooseReplay, NewSnapshot
  <1>6. CASE Replay
    BY <1>6, <1>a, Zenon DEF Replay
  <1>7. CASE Report
    <2>1. /\ answered = 3 /\ IsTerminal(view.exec) /\ answered' = answered /\ view' = view /\ bphase' = "reported"
          /\ report' = [status |-> view.exec, attempts |-> TotalAttempts, terminalTasks |-> CountTerminalTasks]
      BY <1>7, QueriesAre, Zenon DEF Report, snapshotVars
    <2> QED
      BY <1>c, <2>1, Zenon DEF Staged
  <1>8. CASE GiveUp
    BY <1>8, <1>a, Zenon DEF GiveUp
  <1>9. CASE (Timer \/ WorkerNext \/ PublisherNext) /\ UNCHANGED <<snapshotVars, benchVars>>
    BY <1>9, <1>d, Zenon DEF benchVars
  <1>10. CASE UNCHANGED allVars
    BY <1>10, <1>d, Zenon DEF allVars, benchVars
  <1> QED
    BY <1>1, <1>2, <1>3, <1>4, <1>5, <1>6, <1>7, <1>8, <1>9, <1>10, Zenon DEF BenchNext, BenchStep

LEMMA UpToDateSteps ==
  ASSUME Shape, Staged, TypeOK, KnownTasks, OneUnfinished, UpToDate, [BenchNext]_allVars
  PROVE  UpToDate'
  <1>a. ASSUME bphase' \notin {"poll", "reported"} PROVE UpToDate'
    BY <1>a, Zenon DEF UpToDate
  <1>b. ASSUME answered' = 0 PROVE UpToDate'
    BY <1>b DEF UpToDate
  <1>c. ASSUME UNCHANGED <<snapshotVars, vars>>, bphase \in {"poll", "reported"} \/ bphase' = bphase PROVE UpToDate'
    BY <1>c, Zenon DEF UpToDate, snapshotVars, vars, storeVars, IsTerminal
  <1>1. CASE Trigger
    BY <1>1, <1>b, Zenon DEF Trigger, snapshotVars, Staged
  <1>2. CASE Poll
    <2>1. ~Shown /\ ReadOn /\ UNCHANGED <<exec, status, attempts>> /\ bphase' = "poll" /\ bphase = "poll"
      BY <1>2, Zenon DEF Poll, benchVars, vars, storeVars
    <2>2. answered \in {0, 1, 2} /\ answered' = answered + 1 /\ view'.id = view.id
      BY <2>1, QueriesAre, QueryAdds DEF Shape
    <2>3. /\ view'.exec = IF answered = 0 THEN exec[view.id] ELSE view.exec
          /\ view'.tasks = IF answered = 1 THEN [n \in TaskNames |-> status[<<view.id, n>>]] ELSE view.tasks
          /\ view'.attempts = IF answered = 2 THEN [n \in TaskNames |-> attempts[<<view.id, n>>]] ELSE view.attempts
      BY <2>1, QueryAdds, Zenon
    <2>4. CASE answered = 0
      BY <2>1, <2>2, <2>3, <2>4 DEF UpToDate
    <2>5. CASE answered = 1
      BY <2>1, <2>2, <2>3, <2>5 DEF UpToDate, IsTerminal
    <2>6. CASE answered = 2
      BY <2>1, <2>2, <2>3, <2>6 DEF UpToDate, IsTerminal
    <2> QED
      BY <2>2, <2>4, <2>5, <2>6, Zenon
  <1>3. CASE NotFinished
    BY <1>3, <1>b, Zenon DEF NotFinished, NewSnapshot
  <1>4. CASE NextTick
    BY <1>4, <1>b, Zenon DEF NextTick, snapshotVars, Staged
  <1>5. CASE ChooseReplay
    BY <1>5, <1>a, Zenon DEF ChooseReplay
  <1>6. CASE Replay
    BY <1>6, <1>b, Zenon DEF Replay, snapshotVars, Staged
  <1>7. CASE Report
    BY <1>7, <1>c, Zenon DEF Report
  <1>8. CASE GiveUp
    BY <1>8, <1>a, Zenon DEF GiveUp
  <1>9. CASE (Timer \/ WorkerNext \/ PublisherNext) /\ UNCHANGED <<snapshotVars, benchVars>>
    <2>1. answered' = answered /\ view' = view /\ bphase' = bphase /\ replays' = replays /\ [Next]_vars
      BY <1>9, NoReplayByTheEngine, ShapeSteps, Zenon DEF snapshotVars, benchVars
    <2>2. SUFFICES ASSUME bphase \in {"poll", "reported"}, answered >= 1, IsTerminal(view.exec) PROVE UpToDate'
      BY <2>1, Zenon DEF UpToDate, IsTerminal
    <2>3. PICK e \in Executions : e = view.id
      BY Zenon DEF Shape
    <2>4. exec[e] = view.exec /\ exec[e] \in ExecutionStatus
      BY <2>2, <2>3, Zenon DEF UpToDate, TypeOK, StoreTypeOK
    <2>5. exec[e] \in {"succeeded", "failed"}
      BY <2>2, <2>4, Zenon DEF IsTerminal, ExecutionStatus
    <2>6. /\ exec'[e] = exec[e]
          /\ \A n \in TaskNames : status'[<<e, n>>] = status[<<e, n>>] /\ attempts'[<<e, n>>] = attempts[<<e, n>>]
      BY <2>1, <2>5, EndedIsFrozen, Zenon
    <2> QED
      BY <2>1, <2>2, <2>3, <2>6, Zenon DEF UpToDate
  <1>10. CASE UNCHANGED allVars
    BY <1>10, <1>c, Zenon DEF allVars, benchVars
  <1> QED
    BY <1>1, <1>2, <1>3, <1>4, <1>5, <1>6, <1>7, <1>8, <1>9, <1>10, Zenon DEF BenchNext, BenchStep

LEMMA MeasuredSteps ==
  ASSUME Shape, Staged, TypeOK, TypeOK', AttemptOwnership, KnownTasks, OneUnfinished, UpToDate, Measured,
         [BenchNext]_allVars
  PROVE  Measured'
  <1>0. [Next]_vars /\ target \in Tasks /\ target[1] = view.id /\ view.id \in Executions
    BY ShapeSteps, Zenon DEF Shape
  <1>1. \A t \in Tasks : Len(attempts[t]) \in Nat /\ Len(attempts'[t]) \in Nat
    <2>1. StoreTypeOK /\ StoreTypeOK'
      BY Zenon DEF TypeOK
    <2>2. \A t \in Tasks : attempts[t] \in Seq(AttemptStatus) /\ attempts'[t] \in Seq(AttemptStatus)
      BY <2>1, Zenon DEF StoreTypeOK
    <2> QED
      BY <2>2
  (* The engine takes the replayed task on. *)
  <1>2. ASSUME before > 0
        PROVE  \/ Len(attempts'[target]) > before
               \/ Len(attempts'[target]) = before /\ status'[target] = "pending"
    <2>1. PICK k, l, b : k = Len(attempts[target]) /\ l = Len(attempts'[target]) /\ b = before
      BY Zenon
    <2>2. k \in Nat /\ l \in Nat /\ b \in Nat
      BY <1>0, <1>1, <2>1, Zenon DEF Measured
    <2>3. l >= k
      <3>1. HistoryStays
        BY <1>0, HistorySteps, Zenon
      <3>2. DOMAIN attempts[target] \subseteq DOMAIN attempts'[target]
        BY <1>0, <3>1, Zenon DEF HistoryStays
      <3>3. StoreTypeOK /\ StoreTypeOK'
        BY Zenon DEF TypeOK
      <3>4. attempts[target] \in Seq(AttemptStatus) /\ attempts'[target] \in Seq(AttemptStatus)
        BY <1>0, <3>3, Zenon DEF StoreTypeOK
      <3>5. 1 .. k \subseteq 1 .. l
        BY <2>1, <3>2, <3>4
      <3> QED
        BY <2>2, <3>5
    <2>4. k > b \/ (k = b /\ status[target] = "pending")
      BY <1>2, <2>1, Zenon DEF Measured
    <2>5. status[target] = "pending" => status'[target] = "pending" \/ l = k + 1
      BY <1>0, <2>1, PendingStarts, Zenon
    <2>6. l > b \/ (l = b /\ status'[target] = "pending")
      BY <2>2, <2>3, <2>4, <2>5
    <2> QED
      BY <2>1, <2>6, Zenon
  <1>a. ASSUME UNCHANGED <<target, before, replayLeft>>, bphase' # "replay" PROVE Measured'
    BY <1>2, <1>a, Zenon DEF Measured
  <1>3. CASE Trigger
    BY <1>3, <1>a, Zenon DEF Trigger, GoTo
  <1>4. CASE Poll
    BY <1>4, <1>a, Zenon DEF Poll, benchVars
  <1>5. CASE NotFinished
    BY <1>5, <1>a, Zenon DEF NotFinished, GoTo
  <1>6. CASE NextTick
    BY <1>6, <1>a, Zenon DEF NextTick, GoTo
  <1>7. CASE ChooseReplay
    <2>1. /\ bphase = "poll" /\ answered = 3 /\ IsTerminal(view.exec) /\ replayLeft
          /\ replayLeft' = replayLeft /\ before' = before /\ UNCHANGED <<exec, status, attempts>>
      BY <1>7, QueriesAre, Zenon DEF ChooseReplay, vars, storeVars
    <2>2. CASE bphase' = "error" /\ target' = target
      BY <2>1, <2>2, <1>a, Zenon
    <2>3. ASSUME NEW n \in DeadLettered, bphase' = "replay", target' = <<view.id, n>>, NewSnapshot PROVE Measured'
      <3>1. n \in TaskNames /\ view.tasks[n] = "dead_lettered"
        BY <2>3, Zenon DEF DeadLettered
      <3>2. status[<<view.id, n>>] = "dead_lettered"
        BY <2>1, <3>1 DEF UpToDate
      <3>3. PICK t \in Tasks : t = <<view.id, n>> /\ t[1] = view.id
        <4>1. \A e \in Executions : <<e, n>> \in Tasks /\ <<e, n>>[1] = e
          BY <3>1, Zenon DEF Tasks
        <4> QED
          BY <1>0, <4>1, Zenon
      <3>4. exec[view.id] = "failed"
        BY <3>2, <3>3, Zenon DEF OneUnfinished, AtMostOneUnfinished
      <3>5. view'.id = view.id
        BY <2>3, EmptyViewIs, Zenon DEF NewSnapshot
      <3>6. before \in Nat /\ ~(before > 0)
        BY <2>1, Zenon DEF Measured
      <3> QED
        BY <2>1, <2>3, <3>2, <3>4, <3>5, <3>6, Zenon DEF Measured
    <2> QED
      BY <1>7, <2>2, <2>3, Zenon DEF ChooseReplay
  <1>8. CASE Replay
    <2>1. bphase' # "replay" /\ target' = target
      BY <1>8, Zenon DEF Replay
    <2>2. CASE status[target] # "dead_lettered"
      BY <1>8, <2>1, <2>2, <1>a, Zenon DEF Replay
    <2>3. CASE status[target] = "dead_lettered"
      <3>1. ReplayDeadLetteredTask(target) /\ replayLeft' = FALSE /\ before' = Len(attempts[target])
        BY <1>8, <2>3, Zenon DEF Replay, ReplayTask
      <3>2. attempts' = attempts /\ status'[target] = "pending"
        BY <1>0, <3>1, Zenon DEF ReplayDeadLetteredTask, TypeOK, StoreTypeOK
      <3> QED
        BY <1>0, <1>1, <2>1, <3>1, <3>2, Zenon DEF Measured
    <2> QED
      BY <2>2, <2>3, Zenon
  <1>9. CASE Report
    BY <1>9, <1>a, Zenon DEF Report
  <1>10. CASE GiveUp
    BY <1>10, <1>a, Zenon DEF GiveUp
  <1>11. CASE (Timer \/ WorkerNext \/ PublisherNext) /\ UNCHANGED <<snapshotVars, benchVars>>
    <2>1. /\ view' = view /\ UNCHANGED <<bphase, target, before, replayLeft>> /\ replays' = replays
      BY <1>11, NoReplayByTheEngine, Zenon DEF snapshotVars, benchVars
    <2>2. CASE bphase # "replay"
      BY <2>1, <2>2, <1>a, Zenon
    <2>3. CASE bphase = "replay"
      <3>1. status[target] = "dead_lettered" /\ exec[view.id] = "failed"
        BY <2>3, Zenon DEF Measured
      <3>2. PICK n \in TaskNames : target = <<view.id, n>>
        BY <1>0 DEF Tasks
      <3>3. exec'[view.id] = "failed" /\ status'[target] = "dead_lettered"
        BY <1>0, <2>1, <3>1, <3>2, EndedIsFrozen, Zenon
      <3> QED
        BY <1>2, <2>1, <3>3, Zenon DEF Measured
    <2> QED
      BY <2>2, <2>3, Zenon
  <1>12. CASE UNCHANGED allVars
    BY <1>12, Zenon DEF allVars, benchVars, snapshotVars, vars, storeVars, Measured
  <1> QED
    BY <1>3, <1>4, <1>5, <1>6, <1>7, <1>8, <1>9, <1>10, <1>11, <1>12, Zenon DEF BenchNext, BenchStep

(* The inductive invariant behind the two theorems on what is reported. *)
Followed == Staged /\ UpToDate /\ Measured

LEMMA FollowedHolds ==
  ASSUME \A v, w \in Workers : v = w
  PROVE  BenchSpec => []Followed
  <1>1. BenchInit => Followed
    BY DEF BenchInit, SnapshotInit, Followed, Staged, UpToDate, Measured
  <1>2. /\ Shape /\ TypeOK /\ TypeOK' /\ AttemptOwnership /\ KnownTasks /\ OneUnfinished /\ Followed
        /\ [BenchNext]_allVars
        => Followed'
    BY StagedSteps, UpToDateSteps, MeasuredSteps, Zenon DEF Followed
  <1> QED
    BY <1>1, <1>2, ShapeHolds, BenchRunsTheEngine, TypeCorrect, AttemptOwnershipHolds, KnownTasksHold,
       OneUnfinishedHolds, PTL DEF BenchSpec

(* What the benchmark reports is what the database says then and for ever  *)
(* after, with one worker: runExecution may read status, tasks and         *)
(* attempts in separate queries because an execution it has read as ended  *)
(* does not change, whatever is redelivered or published twice.            *)
THEOREM ReportIsFinalHolds ==
  ASSUME \A v, w \in Workers : v = w
  PROVE  BenchSpec => []ReportIsFinal
  <1>1. Shape /\ TypeOK /\ FreshTasks /\ Followed => ReportIsFinal
    <2> SUFFICES ASSUME Shape, TypeOK, FreshTasks, Followed, bphase = "reported"
                 PROVE  /\ report.status = exec[view.id]
                        /\ report.attempts = StoredAttempts
                        /\ report.terminalTasks = Cardinality({n \in TaskNames : status[<<view.id, n>>] \in Terminal})
      BY Zenon DEF ReportIsFinal
    <2>1. /\ answered = 3 /\ IsTerminal(view.exec)
          /\ report = [status |-> view.exec, attempts |-> TotalAttempts, terminalTasks |-> CountTerminalTasks]
      BY Zenon DEF Followed, Staged
    <2>2. /\ exec[view.id] = view.exec
          /\ \A n \in TaskNames : /\ view.tasks[n] = status[<<view.id, n>>]
                                  /\ view.attempts[n] = attempts[<<view.id, n>>]
      BY <2>1 DEF Followed, UpToDate
    <2>3. \A n \in TaskNames : <<view.id, n>> \in Tasks
      BY Zenon DEF Shape, Tasks
    <2>4. \A n \in TaskNames : AttemptsShown(n) = attempts[<<view.id, n>>]
      BY <2>2, <2>3, Zenon DEF AttemptsShown, FreshTasks
    <2>5. [n \in TaskNames |-> Len(AttemptsShown(n))] = [n \in TaskNames |-> Len(attempts[<<view.id, n>>])]
      BY <2>4, Zenon
    <2>6. TotalAttempts = StoredAttempts
      BY <2>5, Zenon DEF TotalAttempts, StoredAttempts
    <2>7. \A n \in TaskNames : IsTerminal(view.tasks[n]) <=> status[<<view.id, n>>] \in Terminal
      BY <2>2, <2>3, Zenon DEF IsTerminal, Terminal, TypeOK, StoreTypeOK, TaskStatus
    <2>8. {n \in TaskNames : IsTerminal(view.tasks[n])} = {n \in TaskNames : status[<<view.id, n>>] \in Terminal}
      BY <2>7, Zenon
    <2>9. CountTerminalTasks = Cardinality({n \in TaskNames : status[<<view.id, n>>] \in Terminal})
      BY <2>8, Zenon DEF CountTerminalTasks
    <2>10. /\ report.status = view.exec /\ report.attempts = TotalAttempts
           /\ report.terminalTasks = CountTerminalTasks
      BY <2>1, Zenon
    <2> QED
      BY <2>2, <2>6, <2>9, <2>10, Zenon
  <1> QED
    BY <1>1, ShapeHolds, BenchRunsTheEngine, TypeCorrect, FreshHolds, FollowedHolds, PTL

(* The replay scenario measures the replay, with one worker: the task      *)
(* chosen from a snapshot is still dead-lettered when the replay is        *)
(* posted, and the run that is reported includes an attempt made after it. *)
THEOREM ReplayIsMeasuredHolds ==
  ASSUME \A v, w \in Workers : v = w
  PROVE  BenchSpec => []ReplayIsMeasured
  <1>1. Shape /\ TypeOK /\ FreshTasks /\ OneUnfinished /\ Followed => ReplayIsMeasured
    <2> SUFFICES ASSUME Shape, TypeOK, FreshTasks, OneUnfinished, Followed
                 PROVE  ReplayIsMeasured
      BY Zenon
    <2>1. bphase = "replay" => status[target] = "dead_lettered"
      BY Zenon DEF Followed, Measured
    <2>2. ASSUME bphase = "reported", before > 0 PROVE Len(AttemptsShown(target[2])) > before
      <3>1. answered = 3 /\ IsTerminal(view.exec)
        BY <2>2, Zenon DEF Followed, Staged
      <3>2. /\ exec[view.id] = view.exec
            /\ \A n \in TaskNames : /\ view.tasks[n] = status[<<view.id, n>>]
                                    /\ view.attempts[n] = attempts[<<view.id, n>>]
        BY <2>2, <3>1 DEF Followed, UpToDate
      <3>3. PICK n \in TaskNames : target = <<view.id, n>> /\ target[2] = n /\ target[1] = view.id /\ target \in Tasks
        BY DEF Shape, Tasks
      <3>4. AttemptsShown(n) = attempts[target]
        BY <3>2, <3>3, Zenon DEF AttemptsShown, FreshTasks
      <3>5. status[target] # "pending"
        BY <3>1, <3>2, <3>3, Zenon DEF OneUnfinished, AtMostOneUnfinished, Open, IsTerminal
      <3>6. Len(attempts[target]) > before
        BY <2>2, <3>5, Zenon DEF Followed, Measured
      <3> QED
        BY <3>3, <3>4, <3>6, Zenon
    <2> QED
      BY <2>1, <2>2, Zenon DEF ReplayIsMeasured
  <1> QED
    BY <1>1, ShapeHolds, BenchRunsTheEngine, TypeCorrect, FreshHolds, OneUnfinishedHolds, FollowedHolds, PTL
=============================================================================
