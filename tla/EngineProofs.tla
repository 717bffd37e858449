---------------------------- MODULE EngineProofs ----------------------------
(***************************************************************************)
(* Types, messages and attempts of Engine, for any executions, any         *)
(* definition, any number of workers and publishers and any bounds.        *)
(* First TypeOK, with the facts about single steps that the other proofs   *)
(* about Engine use.  Then what workers hold: no message is in two hands,  *)
(* and no attempt.  ExclusiveHolding and AttemptOwnership are each         *)
(* inductive with TypeOK.  From the second follows that the record of an   *)
(* attempt is never rewritten, and with that what the record says of       *)
(* chains and outcomes.  Then the statuses of executions and tasks: a      *)
(* running execution always has work left, and with one worker the         *)
(* statuses go through the lifecycle that ARCHITECTURE.md draws, because   *)
(* OneUnfinished is inductive and makes every step one of TaskLifecycle.   *)
(* At the end, for the modules that count attempts: the order of the rows  *)
(* of a chain, and what is known of a task that has no row yet.            *)
(***************************************************************************)
EXTENDS Engine, TLAPS

-----------------------------------------------------------------------------
(* What the operators of Store return. *)

(* The row of the next task is a task. *)
LEMMA SuccessorIsTask ==
  ASSUME NEW t \in Tasks, NextTask[t[2]] # NoTask
  PROVE  Successor(t) \in Tasks /\ Successor(t)[1] = t[1] /\ Successor(t) # t
  BY DefinitionAssumption DEF Successor, Tasks

(* Inserting events keeps the ones there and only makes the outbox longer. *)
LEMMA InsertEventsFacts ==
  ASSUME StoreTypeOK, NEW S \in SUBSET Tasks
  PROVE  /\ InsertEvents(S) \in [Tasks -> Seq({"pending", "dispatched"})]
         /\ \A t \in Tasks :
              /\ Len(outbox[t]) \in Nat
              /\ DOMAIN outbox[t] = 1 .. Len(outbox[t])
              /\ DOMAIN InsertEvents(S)[t] = 1 .. Len(InsertEvents(S)[t])
              /\ Len(InsertEvents(S)[t]) \in Nat
              /\ Len(InsertEvents(S)[t]) >= Len(outbox[t])
              /\ \A k \in 1 .. Len(outbox[t]) : InsertEvents(S)[t][k] = outbox[t][k]
              /\ t \in S => /\ Len(InsertEvents(S)[t]) = Len(outbox[t]) + 1
                            /\ InsertEvents(S)[t][Len(outbox[t]) + 1] = "pending"
  BY DEF StoreTypeOK, InsertEvents

(* The task of a message in hand. *)
LEMMA TaskOfIsTask ==
  ASSUME TypeOK, NEW w \in Workers, phase[w] \in {"running", "ack"}
  PROVE  /\ msg[w] \in 1 .. delivered
         /\ msg[w] \in 1 .. Len(stream)
         /\ TaskOf(w) \in Tasks
         /\ TaskOf(w)[1] \in Executions
         /\ TaskOf(w)[2] \in TaskNames
  BY DEF TypeOK, WorkerTypeOK, TaskOf, Tasks

(* Writing one attempt keeps the attempts of every task a sequence. *)
LEMMA WriteAttemptFacts ==
  ASSUME StoreTypeOK, NEW t \in Tasks, NEW n \in Nat, NEW s \in AttemptStatus
  PROVE  /\ [attempts EXCEPT ![t][n] = s] \in [Tasks -> Seq(AttemptStatus)]
         /\ \A u \in Tasks : /\ DOMAIN [attempts EXCEPT ![t][n] = s][u] = DOMAIN attempts[u]
                             /\ Len([attempts EXCEPT ![t][n] = s][u]) = Len(attempts[u])
  <1> DEFINE row == [attempts[t] EXCEPT ![n] = s]
  <1>1. attempts[t] \in Seq(AttemptStatus)
    BY Zenon DEF StoreTypeOK
  <1>2. row \in [1 .. Len(attempts[t]) -> AttemptStatus]
    <2>1. attempts[t] \in [1 .. Len(attempts[t]) -> AttemptStatus]
      BY <1>1
    <2> QED
      BY <2>1, Zenon
  <1>3. row \in Seq(AttemptStatus) /\ Len(row) = Len(attempts[t]) /\ DOMAIN row = DOMAIN attempts[t]
    <2>1. Len(attempts[t]) \in Nat /\ DOMAIN attempts[t] = 1 .. Len(attempts[t])
      BY <1>1
    <2> HIDE DEF row
    <2> QED
      BY <1>2, <2>1, SMT
  <1> HIDE DEF row
  <1>4. [attempts EXCEPT ![t][n] = s] = [attempts EXCEPT ![t] = row]
    BY Zenon DEF row
  <1> QED
    BY <1>3, <1>4, Zenon DEF StoreTypeOK
(* Marking an event keeps the outbox of every task a sequence. *)
LEMMA MarkFacts ==
  ASSUME StoreTypeOK, NEW t \in Tasks, NEW k \in Nat
  PROVE  /\ [outbox EXCEPT ![t][k] = "dispatched"] \in [Tasks -> Seq({"pending", "dispatched"})]
         /\ \A u \in Tasks :
              /\ DOMAIN [outbox EXCEPT ![t][k] = "dispatched"][u] = DOMAIN outbox[u]
              /\ Len([outbox EXCEPT ![t][k] = "dispatched"][u]) = Len(outbox[u])
              /\ \A j \in DOMAIN outbox[u] :
                   <<u, j>> # <<t, k>> => [outbox EXCEPT ![t][k] = "dispatched"][u][j] = outbox[u][j]
  <1> DEFINE row == [outbox[t] EXCEPT ![k] = "dispatched"]
  <1>1. outbox[t] \in Seq({"pending", "dispatched"})
    BY Zenon DEF StoreTypeOK
  <1>2. row \in [1 .. Len(outbox[t]) -> {"pending", "dispatched"}]
    <2>1. outbox[t] \in [1 .. Len(outbox[t]) -> {"pending", "dispatched"}]
      BY <1>1
    <2> QED
      BY <2>1, Zenon
  <1>3. /\ row \in Seq({"pending", "dispatched"}) /\ Len(row) = Len(outbox[t])
        /\ DOMAIN row = DOMAIN outbox[t]
    <2>1. Len(outbox[t]) \in Nat /\ DOMAIN outbox[t] = 1 .. Len(outbox[t])
      BY <1>1
    <2> HIDE DEF row
    <2> QED
      BY <1>2, <2>1, SMT
  <1>4. \A j \in DOMAIN outbox[t] : j # k => row[j] = outbox[t][j]
    BY Zenon
  <1> HIDE DEF row
  <1>5. [outbox EXCEPT ![t][k] = "dispatched"] = [outbox EXCEPT ![t] = row]
    BY Zenon DEF row
  <1> QED
    BY <1>3, <1>4, <1>5, Zenon DEF StoreTypeOK

-----------------------------------------------------------------------------
(* Type correctness. *)

(* Every transaction of Store keeps the columns' types. *)
LEMMA StoreSteps ==
  ASSUME StoreTypeOK
  PROVE  /\ \A e \in Executions : CreateExecutionAndTask(e) => StoreTypeOK'
         /\ \A t \in Tasks : ReplayDeadLetteredTask(t) => StoreTypeOK'
         /\ EnqueueDueTaskRetries(PublishLimit) => StoreTypeOK'
         /\ \A t \in Tasks, k \in Nat : MarkOutboxDispatched(t, k) => StoreTypeOK'
         /\ \A t \in Tasks : StartTaskAttempt(t) => StoreTypeOK'
         /\ \A t \in Tasks, n \in Nat : CompleteTaskAttempt(t, n) => StoreTypeOK'
         /\ \A t \in Tasks, n \in Nat :
              NextTask[t[2]] # NoTask /\ CompleteTaskAttemptAndEnqueueNextTask(t, n) => StoreTypeOK'
         /\ \A t \in Tasks, n \in Nat : ScheduleTaskRetry(t, n) => StoreTypeOK'
         /\ \A t \in Tasks, n \in Nat : FailTaskAttempt(t, n) => StoreTypeOK'
         /\ \A t \in Tasks : BackoffElapses(t) => StoreTypeOK'
         /\ UNCHANGED storeVars => StoreTypeOK'
  <1> USE DEF ExecutionStatus, TaskStatus
  <1>1. ASSUME NEW e \in Executions, CreateExecutionAndTask(e) PROVE StoreTypeOK'
    <2>1. <<e, EntryTask>> \in Tasks
      BY DefinitionAssumption, Zenon DEF Tasks
    <2> QED
      BY <1>1, <2>1, InsertEventsFacts, Zenon DEF CreateExecutionAndTask, StoreTypeOK
  <1>2. ASSUME NEW t \in Tasks, ReplayDeadLetteredTask(t) PROVE StoreTypeOK'
    <2>1. t[1] \in Executions /\ {t} \in SUBSET Tasks
      BY Zenon DEF Tasks
    <2>2. outbox' \in [Tasks -> Seq({"pending", "dispatched"})]
      BY <1>2, <2>1, InsertEventsFacts, Zenon DEF ReplayDeadLetteredTask
    <2>3. replays' \in Nat
      BY <1>2, StoreBoundAssumption DEF ReplayDeadLetteredTask, StoreTypeOK
    <2> QED
      BY <1>2, <2>1, <2>2, <2>3, Zenon DEF ReplayDeadLetteredTask, StoreTypeOK
  <1>3. ASSUME EnqueueDueTaskRetries(PublishLimit) PROVE StoreTypeOK'
    <2>1. PICK S \in SUBSET DueTasks :
            /\ outbox' = InsertEvents(S)
            /\ nextRunAt' = [t \in Tasks |-> IF t \in S THEN "none" ELSE nextRunAt[t]]
            /\ UNCHANGED <<exec, status, attempts, replays>>
      BY <1>3, Zenon DEF EnqueueDueTaskRetries
    <2>2. S \in SUBSET Tasks
      BY Zenon DEF DueTasks
    <2> QED
      BY <2>1, <2>2, InsertEventsFacts, Zenon DEF StoreTypeOK
  <1>4. ASSUME NEW t \in Tasks, NEW k \in Nat, MarkOutboxDispatched(t, k) PROVE StoreTypeOK'
    <2>1. outbox' \in [Tasks -> Seq({"pending", "dispatched"})]
      BY <1>4, MarkFacts, Zenon DEF MarkOutboxDispatched
    <2> QED
      BY <1>4, <2>1, Zenon DEF MarkOutboxDispatched, StoreTypeOK
  <1>5. ASSUME NEW t \in Tasks, StartTaskAttempt(t) PROVE StoreTypeOK'
    BY <1>5 DEF StartTaskAttempt, StoreTypeOK, AttemptStatus
  <1>6. ASSUME NEW t \in Tasks, NEW n \in Nat, CompleteTaskAttempt(t, n) PROVE StoreTypeOK'
    BY <1>6, WriteAttemptFacts, Zenon DEF CompleteTaskAttempt, StoreTypeOK, AttemptStatus
  <1>7. ASSUME NEW t \in Tasks, NEW n \in Nat, NextTask[t[2]] # NoTask,
               CompleteTaskAttemptAndEnqueueNextTask(t, n)
        PROVE  StoreTypeOK'
    BY <1>7, WriteAttemptFacts, InsertEventsFacts, SuccessorIsTask
       DEF CompleteTaskAttemptAndEnqueueNextTask, StoreTypeOK, AttemptStatus
  <1>8. ASSUME NEW t \in Tasks, NEW n \in Nat, ScheduleTaskRetry(t, n) PROVE StoreTypeOK'
    BY <1>8, WriteAttemptFacts, Zenon DEF ScheduleTaskRetry, StoreTypeOK, AttemptStatus
  <1>9. ASSUME NEW t \in Tasks, NEW n \in Nat, FailTaskAttempt(t, n) PROVE StoreTypeOK'
    BY <1>9, WriteAttemptFacts, Zenon DEF FailTaskAttempt, StoreTypeOK, AttemptStatus
  <1>10. ASSUME NEW t \in Tasks, BackoffElapses(t) PROVE StoreTypeOK'
    BY <1>10, Zenon DEF BackoffElapses, StoreTypeOK
  <1>11. ASSUME UNCHANGED storeVars PROVE StoreTypeOK'
    BY <1>11, Zenon DEF storeVars, StoreTypeOK
  <1> QED
    BY <1>1, <1>2, <1>3, <1>4, <1>5, <1>6, <1>7, <1>8, <1>9, <1>10, <1>11, Zenon

(* No transaction shortens the outbox of a task. *)
OutboxGrows == \A t \in Tasks : Len(outbox'[t]) >= Len(outbox[t])

LEMMA StoreStepsGrow ==
  ASSUME StoreTypeOK
  PROVE  /\ \A e \in Executions : CreateExecutionAndTask(e) => OutboxGrows
         /\ \A t \in Tasks : ReplayDeadLetteredTask(t) => OutboxGrows
         /\ EnqueueDueTaskRetries(PublishLimit) => OutboxGrows
         /\ \A t \in Tasks, k \in Nat : MarkOutboxDispatched(t, k) => OutboxGrows
         /\ \A t \in Tasks, n \in Nat :
              NextTask[t[2]] # NoTask /\ CompleteTaskAttemptAndEnqueueNextTask(t, n) => OutboxGrows
         /\ UNCHANGED outbox => OutboxGrows
  <1>1. ASSUME NEW S \in SUBSET Tasks, outbox' = InsertEvents(S) PROVE OutboxGrows
    BY <1>1, InsertEventsFacts, Zenon DEF OutboxGrows
  <1>2. ASSUME NEW e \in Executions, CreateExecutionAndTask(e) PROVE OutboxGrows
    BY <1>1, <1>2, DefinitionAssumption DEF CreateExecutionAndTask, Tasks
  <1>3. ASSUME NEW t \in Tasks, ReplayDeadLetteredTask(t) PROVE OutboxGrows
    BY <1>1, <1>3, Zenon DEF ReplayDeadLetteredTask
  <1>4. ASSUME EnqueueDueTaskRetries(PublishLimit) PROVE OutboxGrows
    BY <1>1, <1>4, Zenon DEF EnqueueDueTaskRetries, DueTasks
  <1>5. ASSUME NEW t \in Tasks, NEW k \in Nat, MarkOutboxDispatched(t, k) PROVE OutboxGrows
    <2> SUFFICES ASSUME NEW u \in Tasks PROVE Len(outbox'[u]) >= Len(outbox[u])
      BY Zenon DEF OutboxGrows
    <2>1. Len(outbox'[u]) = Len(outbox[u])
      BY <1>5, MarkFacts DEF MarkOutboxDispatched
    <2>2. Len(outbox[u]) \in Nat
      BY InsertEventsFacts, Zenon
    <2> QED
      BY <2>1, <2>2
  <1>6. ASSUME NEW t \in Tasks, NEW n \in Nat, NextTask[t[2]] # NoTask,
               CompleteTaskAttemptAndEnqueueNextTask(t, n)
        PROVE  OutboxGrows
    BY <1>1, <1>6, SuccessorIsTask, Zenon DEF CompleteTaskAttemptAndEnqueueNextTask
  <1>7. ASSUME UNCHANGED outbox PROVE OutboxGrows
    BY <1>7, InsertEventsFacts DEF OutboxGrows
  <1> QED
    BY <1>2, <1>3, <1>4, <1>5, <1>6, <1>7, Zenon

(* A step of another process leaves the publishers well typed. *)
LEMMA PublisherFrame ==
  ASSUME TypeOK, StoreTypeOK', OutboxGrows, UNCHANGED publisherVars
  PROVE  PublisherTypeOK'
  <1>1. \A t \in Tasks : Len(outbox[t]) \in Nat /\ Len(outbox'[t]) \in Nat
    BY DEF TypeOK, StoreTypeOK
  <1>2. \A t \in Tasks, k \in Nat : k \in 1 .. Len(outbox[t]) => k \in 1 .. Len(outbox'[t])
    BY <1>1 DEF OutboxGrows
  <1>3. \A p \in Publishers : \A ev \in listed[p] : ev[1] \in Tasks /\ ev[2] \in Nat
    BY DEF TypeOK, PublisherTypeOK
  <1>4. \A p \in Publishers : \A ev \in listed[p] : ev[2] \in 1 .. Len(outbox'[ev[1]])
    BY <1>2, <1>3, Zenon DEF TypeOK, PublisherTypeOK
  <1>5. \A p \in Publishers : pphase[p] = "mark" =>
          current[p] # NoEvent /\ current[p][2] \in 1 .. Len(outbox'[current[p][1]])
    BY <1>2, Zenon DEF TypeOK, PublisherTypeOK
  <1> QED
    BY <1>4, <1>5, Zenon DEF TypeOK, PublisherTypeOK, publisherVars

(* A step of another process leaves the workers and the stream well typed, *)
(* whether or not it adds a message.                                       *)
LEMMA WorkerFrame ==
  ASSUME TypeOK, UNCHANGED workerVars,
         UNCHANGED streamVars \/ \E t \in Tasks : DispatchTask(t)
  PROVE  WorkerTypeOK'
  <1>1. CASE UNCHANGED streamVars
    BY <1>1, Zenon DEF TypeOK, WorkerTypeOK, workerVars, streamVars
  <1>2. CASE \E t \in Tasks : DispatchTask(t)
    <2> PICK t \in Tasks : DispatchTask(t)
      BY <1>2, Zenon
    <2>1. stream' \in Seq(Tasks) /\ Len(stream') = Len(stream) + 1 /\ Len(stream) \in Nat
      BY DEF DispatchTask, TypeOK, WorkerTypeOK
    <2>2. delivered' \in 0 .. Len(stream')
      BY <2>1 DEF DispatchTask, TypeOK, WorkerTypeOK
    <2> QED
      BY <2>1, <2>2, Zenon DEF DispatchTask, TypeOK, WorkerTypeOK, workerVars
  <1> QED
    BY <1>1, <1>2, Zenon

(* The worker's own bookkeeping: what each way of changing phase keeps. *)
LEMMA WorkerMoves ==
  ASSUME TypeOK, NEW w \in Workers, UNCHANGED streamVars \/ XAck(msg[w])
  PROVE  /\ \A R \in SUBSET (1 .. delivered) :
              Advance(w, R) /\ workerFaults' \in Nat => WorkerTypeOK'
         /\ \A m \in 1 .. delivered, p \in {"running", "ack"}, n \in Nat :
              Begin(w, m, p, n) => WorkerTypeOK'
         /\ Recorded(w) => WorkerTypeOK'
  <1>1. /\ stream' = stream /\ delivered' = delivered
        /\ pel' \subseteq 1 .. delivered /\ idle' \subseteq pel'
    BY Zenon DEF TypeOK, WorkerTypeOK, streamVars, XAck
  <1>2. ASSUME NEW R \in SUBSET (1 .. delivered), Advance(w, R), workerFaults' \in Nat
        PROVE  WorkerTypeOK'
    BY <1>1, <1>2 DEF TypeOK, WorkerTypeOK, Advance
  <1>3. ASSUME NEW m \in 1 .. delivered, NEW p \in {"running", "ack"}, NEW n \in Nat, Begin(w, m, p, n)
        PROVE  WorkerTypeOK'
    BY <1>1, <1>3 DEF TypeOK, WorkerTypeOK, Begin
  <1>4. ASSUME Recorded(w) PROVE WorkerTypeOK'
    BY <1>1, <1>4, Zenon DEF TypeOK, WorkerTypeOK, Recorded
  <1> QED
    BY <1>2, <1>3, <1>4, Zenon

(* The worker's actions keep every type. *)
LEMMA WorkerSteps ==
  ASSUME TypeOK, NEW w \in Workers, WorkerStep(w) \/ WorkerFault(w), UNCHANGED publisherVars
  PROVE  TypeOK'
  <1>0. StoreTypeOK /\ attempt[w] \in Nat /\ batch[w] \in SUBSET (1 .. delivered) /\ workerFaults \in Nat
    BY Zenon DEF TypeOK, WorkerTypeOK
  <1> SUFFICES StoreTypeOK' /\ OutboxGrows /\ WorkerTypeOK'
    BY PublisherFrame, Zenon DEF TypeOK
  <1>a. ASSUME UNCHANGED storeVars PROVE StoreTypeOK' /\ OutboxGrows
    BY <1>0, <1>a, StoreSteps, StoreStepsGrow, Zenon DEF storeVars
  <1>b. ASSUME NEW m \in batch[w] PROVE m \in 1 .. delivered /\ stream[m] \in Tasks
    BY <1>0 DEF TypeOK, WorkerTypeOK
  <1>c. ASSUME Recorded(w)
        PROVE  TaskOf(w) \in Tasks /\ WorkerTypeOK'
    BY <1>c, TaskOfIsTask, WorkerMoves, Zenon DEF Recorded
  <1>1. CASE ClaimPending(w)
    <2> PICK S \in SUBSET idle : AutoClaim(S) /\ Receive(w, IF S = {} THEN "read" ELSE "batch", S)
      BY <1>1, Zenon DEF ClaimPending
    <2>1. WorkerTypeOK'
      BY Zenon DEF AutoClaim, Receive, TypeOK, WorkerTypeOK
    <2> QED
      BY <1>1, <1>a, <2>1, Zenon DEF ClaimPending
  <1>2. CASE ReadNew(w)
    <2>1. /\ delivered' = delivered + 1 /\ delivered' \in 0 .. Len(stream) /\ delivered \in Nat
          /\ stream' = stream
      BY <1>2 DEF ReadNew, ReadNext, TypeOK, WorkerTypeOK
    <2>2. 1 .. delivered \subseteq 1 .. delivered' /\ delivered + 1 \in 1 .. delivered'
      BY <2>1
    <2>3. /\ pel' \subseteq 1 .. delivered' /\ idle' \subseteq pel'
          /\ batch' \in [Workers -> SUBSET (1 .. delivered')]
      BY <1>2, <2>2, Zenon DEF ReadNew, ReadNext, Receive, TypeOK, WorkerTypeOK
    <2>4. 0 .. delivered \subseteq 0 .. delivered'
      BY <2>1
    <2>5. msg' \in [Workers -> 0 .. delivered']
      BY <1>2, <2>4, Zenon DEF ReadNew, Receive, TypeOK, WorkerTypeOK
    <2>6. WorkerTypeOK'
      BY <1>2, <2>1, <2>3, <2>5, Zenon DEF ReadNew, Receive, TypeOK, WorkerTypeOK
    <2> QED
      BY <1>2, <1>a, <2>6, Zenon DEF ReadNew
  <1>3. CASE ReadTimesOut(w)
    <2>1. WorkerTypeOK'
      BY <1>3, Zenon DEF ReadTimesOut, Receive, streamVars, TypeOK, WorkerTypeOK
    <2> QED
      BY <1>3, <1>a, <2>1, Zenon DEF ReadTimesOut
  <1>4. CASE Ack(w)
    BY <1>0, <1>4, <1>a, WorkerMoves, Zenon DEF Ack
  <1>5. CASE BeginAttempt(w)
    <2> PICK m \in batch[w] : /\ StartTaskAttempt(stream[m])
                              /\ Begin(w, m, "running", Len(attempts[stream[m]]) + 1)
      BY <1>5, Zenon DEF BeginAttempt
    <2>1. stream[m] \in Tasks /\ m \in 1 .. delivered
      BY <1>b, Zenon
    <2>2. Len(attempts[stream[m]]) + 1 \in Nat
      BY <1>0, <2>1 DEF StoreTypeOK
    <2>3. StoreTypeOK' /\ OutboxGrows
      BY <1>0, <2>1, StoreSteps, StoreStepsGrow, Zenon DEF StartTaskAttempt
    <2> QED
      BY <1>5, <2>1, <2>2, <2>3, WorkerMoves, Zenon DEF BeginAttempt
  <1>6. CASE SkipDuplicate(w)
    BY <1>6, <1>a, <1>b, WorkerMoves, Zenon DEF SkipDuplicate
  <1>7. CASE RetryAttempt(w)
    BY <1>0, <1>7, <1>c, StoreSteps, StoreStepsGrow, Zenon DEF RetryAttempt, ScheduleTaskRetry
  <1>8. CASE FailAttempt(w)
    BY <1>0, <1>8, <1>c, StoreSteps, StoreStepsGrow, Zenon DEF FailAttempt, FailTaskAttempt
  <1>9. CASE CompleteAttempt(w)
    BY <1>0, <1>9, <1>c, StoreSteps, StoreStepsGrow, Zenon DEF CompleteAttempt, CompleteTaskAttempt
  <1>10. CASE CompleteAndEnqueueNext(w)
    BY <1>0, <1>10, <1>c, StoreSteps, StoreStepsGrow, Zenon DEF CompleteAndEnqueueNext
  <1>11. CASE EnqueueNextConflicts(w)
    BY <1>0, <1>11, <1>a, WorkerMoves, Zenon DEF EnqueueNextConflicts
  <1>12. CASE LeavePending(w)
    <2>1. workerFaults' \in Nat
      BY <1>0, <1>12 DEF LeavePending
    <2> QED
      BY <1>0, <1>12, <1>a, <2>1, WorkerMoves, Zenon DEF LeavePending
  <1>13. CASE CrashWorker(w)
    <2>1. workerFaults' \in Nat
      BY <1>0, <1>13 DEF CrashWorker
    <2> QED
      BY <1>0, <1>13, <1>a, <2>1, WorkerMoves, Zenon DEF CrashWorker
  <1> QED
    BY <1>1, <1>2, <1>3, <1>4, <1>5, <1>6, <1>7, <1>8, <1>9, <1>10, <1>11, <1>12, <1>13, Zenon
       DEF WorkerStep, WorkerFault

(* Changing phase keeps a publisher well typed. *)
LEMMA PublisherMoves ==
  ASSUME TypeOK, StoreTypeOK', OutboxGrows, NEW p \in Publishers,
         NEW S \in SUBSET (Tasks \X Nat),
         \A ev \in S : ev[2] \in 1 .. Len(outbox[ev[1]]),
         publisherFaults' \in Nat
  PROVE  /\ \A ph \in {"tick", "list", "send"} : Goto(p, ph, S, NoEvent) => PublisherTypeOK'
         /\ Continue(p, S) => PublisherTypeOK'
         /\ \A ev \in Tasks \X Nat :
              ev[2] \in 1 .. Len(outbox[ev[1]]) /\ Goto(p, "mark", S, ev) => PublisherTypeOK'
  <1>1. \A t \in Tasks, k \in Nat : k \in 1 .. Len(outbox[t]) => k \in 1 .. Len(outbox'[t])
    BY DEF OutboxGrows, TypeOK, StoreTypeOK
  <1>2. \A q \in Publishers : \A ev \in listed[q] : ev \in Tasks \X Nat /\ ev[2] \in 1 .. Len(outbox'[ev[1]])
    BY <1>1 DEF TypeOK, PublisherTypeOK
  <1>3. \A q \in Publishers : pphase[q] = "mark" =>
          current[q] # NoEvent /\ current[q][2] \in 1 .. Len(outbox'[current[q][1]])
    BY <1>1, Zenon DEF TypeOK, PublisherTypeOK
  <1>4. \A ev \in S : ev[2] \in 1 .. Len(outbox'[ev[1]])
    BY <1>1, Zenon
  <1>5. ASSUME NEW ph \in {"tick", "list", "send"}, Goto(p, ph, S, NoEvent)
        PROVE  PublisherTypeOK'
    BY <1>2, <1>3, <1>4, <1>5, Zenon DEF Goto, TypeOK, PublisherTypeOK
  <1>6. ASSUME Continue(p, S) PROVE PublisherTypeOK'
    BY <1>5, <1>6, Zenon DEF Continue
  <1>7. ASSUME NEW ev \in Tasks \X Nat, ev[2] \in 1 .. Len(outbox[ev[1]]), Goto(p, "mark", S, ev)
        PROVE  PublisherTypeOK'
    <2>1. ev # NoEvent /\ ev[2] \in 1 .. Len(outbox'[ev[1]])
      BY <1>1, <1>7 DEF NoEvent
    <2> QED
      BY <1>2, <1>3, <1>4, <1>7, <2>1, Zenon DEF Goto, TypeOK, PublisherTypeOK
  <1> QED
    BY <1>5, <1>6, <1>7, Zenon

(* The publisher's actions keep every type. *)
LEMMA PublisherSteps ==
  ASSUME TypeOK, NEW p \in Publishers, PublisherStep(p) \/ PublisherFault(p), UNCHANGED workerVars
  PROVE  TypeOK'
  <1>0. /\ StoreTypeOK /\ publisherFaults \in Nat
        /\ listed[p] \in SUBSET (Tasks \X Nat)
        /\ \A ev \in listed[p] : ev[2] \in 1 .. Len(outbox[ev[1]])
    BY Zenon DEF TypeOK, PublisherTypeOK
  <1>a. ASSUME UNCHANGED storeVars PROVE StoreTypeOK' /\ OutboxGrows
    BY <1>0, <1>a, StoreSteps, StoreStepsGrow, Zenon DEF storeVars
  <1>b. ASSUME UNCHANGED streamVars PROVE WorkerTypeOK'
    BY <1>b, WorkerFrame, Zenon
  <1>1. CASE EnqueueRetries(p)
    <2>1. StoreTypeOK' /\ OutboxGrows
      BY <1>0, <1>1, StoreSteps, StoreStepsGrow, Zenon DEF EnqueueRetries
    <2> QED
      BY <1>0, <1>1, <1>b, <2>1, PublisherMoves, Zenon DEF EnqueueRetries, TypeOK
  <1>2. CASE ListPendingOutbox(p)
    <2>1. PICK S \in SUBSET AllPending : Continue(p, S)
      BY <1>2, Zenon DEF ListPendingOutbox
    <2>2. /\ S \in SUBSET (Tasks \X Nat)
          /\ \A ev \in S : ev[2] \in 1 .. Len(outbox[ev[1]])
      BY <1>0 DEF AllPending, PendingEvents, StoreTypeOK
    <2>3. publisherFaults' \in Nat /\ UNCHANGED storeVars /\ UNCHANGED streamVars
      BY <1>0, <1>2, Zenon DEF ListPendingOutbox
    <2> QED
      BY <1>a, <1>b, <2>1, <2>2, <2>3, PublisherMoves, Zenon DEF TypeOK
  <1>3. CASE Publish(p)
    <2>1. PICK ev \in listed[p] : DispatchTask(ev[1]) /\ Goto(p, "mark", listed[p] \ {ev}, ev)
      BY <1>3, Zenon DEF Publish
    <2>2. ev \in Tasks \X Nat /\ ev[1] \in Tasks /\ ev[2] \in 1 .. Len(outbox[ev[1]])
      BY <1>0, Zenon
    <2>3. publisherFaults' \in Nat /\ UNCHANGED storeVars
      BY <1>0, <1>3, Zenon DEF Publish
    <2>4. WorkerTypeOK'
      BY <2>1, <2>2, WorkerFrame, Zenon
    <2>5. /\ listed[p] \ {ev} \in SUBSET (Tasks \X Nat)
          /\ \A e2 \in listed[p] \ {ev} : e2[2] \in 1 .. Len(outbox[e2[1]])
      BY <1>0, Zenon
    <2> QED
      BY <1>a, <2>1, <2>2, <2>3, <2>4, <2>5, PublisherMoves, Zenon DEF TypeOK
  <1>4. CASE MarkDispatched(p)
    <2>1. current[p][1] \in Tasks /\ current[p][2] \in Nat
      BY <1>4, Zenon DEF MarkDispatched, TypeOK, PublisherTypeOK
    <2>2. StoreTypeOK' /\ OutboxGrows
      BY <1>0, <1>4, <2>1, StoreSteps, StoreStepsGrow, Zenon DEF MarkDispatched
    <2> QED
      BY <1>0, <1>4, <1>b, <2>2, PublisherMoves, Zenon DEF MarkDispatched, TypeOK
  <1>5. CASE PublishFails(p)
    <2>1. publisherFaults' \in Nat /\ UNCHANGED storeVars /\ UNCHANGED streamVars
      BY <1>0, <1>5 DEF PublishFails
    <2>2. PICK S \in SUBSET listed[p] : Continue(p, S)
      BY <1>5, Zenon DEF PublishFails
    <2>3. /\ S \in SUBSET (Tasks \X Nat)
          /\ \A ev \in S : ev[2] \in 1 .. Len(outbox[ev[1]])
      BY <1>0, Zenon
    <2> QED
      BY <1>a, <1>b, <2>1, <2>2, <2>3, PublisherMoves, Zenon DEF TypeOK
  <1>6. CASE AbortTick(p)
    <2>1. publisherFaults' \in Nat /\ UNCHANGED storeVars /\ UNCHANGED streamVars
      BY <1>0, <1>6 DEF AbortTick
    <2> QED
      BY <1>6, <1>a, <1>b, <2>1, PublisherMoves, Zenon DEF AbortTick, TypeOK
  <1> QED
    BY <1>1, <1>2, <1>3, <1>4, <1>5, <1>6, Zenon DEF PublisherStep, PublisherFault

(* Every variable keeps its type: statuses of the columns, positions of    *)
(* the stream, and numbers of events that exist.                           *)
THEOREM TypeCorrect == Spec => []TypeOK
  <1>1. Init => TypeOK
    BY DefinitionAssumption
       DEF Init, StoreInit, RedisInit, WorkerInit, PublisherInit, TypeOK, StoreTypeOK,
           WorkerTypeOK, PublisherTypeOK, ExecutionStatus, TaskStatus, NoEvent
  <1>2. TypeOK /\ [Next]_vars => TypeOK'
    <2> SUFFICES ASSUME TypeOK, [Next]_vars PROVE TypeOK'
      BY Zenon
    <2>0. StoreTypeOK
      BY Zenon DEF TypeOK
    <2>1. ASSUME NEW e \in Executions, TriggerExecution(e) PROVE TypeOK'
      BY <2>0, <2>1, StoreSteps, StoreStepsGrow, PublisherFrame, WorkerFrame, Zenon
         DEF TriggerExecution, TypeOK
    <2>2. ASSUME NEW t \in Tasks, ReplayTask(t) PROVE TypeOK'
      BY <2>0, <2>2, StoreSteps, StoreStepsGrow, PublisherFrame, WorkerFrame, Zenon
         DEF ReplayTask, TypeOK
    <2>3. ASSUME NEW t \in Tasks, BackoffElapses(t), UNCHANGED <<streamVars, workerVars, publisherVars>>
          PROVE  TypeOK'
      BY <2>0, <2>3, StoreSteps, StoreStepsGrow, PublisherFrame, WorkerFrame, Zenon DEF BackoffElapses, TypeOK
    <2>4. ASSUME NEW m \in pel, PendingTimesOut(m), UNCHANGED publisherVars PROVE TypeOK'
      <3>1. StoreTypeOK' /\ OutboxGrows
        BY <2>0, <2>4, StoreSteps, StoreStepsGrow, Zenon DEF PendingTimesOut, storeVars
      <3>2. WorkerTypeOK'
        BY <2>4, Zenon DEF PendingTimesOut, MessageIdles, workerVars, TypeOK, WorkerTypeOK
      <3> QED
        BY <2>4, <3>1, <3>2, PublisherFrame, Zenon DEF TypeOK
    <2>5. CASE WorkerNext
      BY <2>5, WorkerSteps, Zenon DEF WorkerNext
    <2>6. CASE PublisherNext
      BY <2>6, PublisherSteps, Zenon DEF PublisherNext
    <2>7. CASE UNCHANGED vars
      BY <2>0, <2>7, StoreSteps, StoreStepsGrow, PublisherFrame, WorkerFrame, Zenon
         DEF vars, storeVars, TypeOK
    <2> QED
      BY <2>1, <2>2, <2>3, <2>4, <2>5, <2>6, <2>7, Zenon DEF Next, Api, Timer
  <1> QED
    BY <1>1, <1>2, PTL DEF Spec

-----------------------------------------------------------------------------
(* The message in hand is not also among those still to begin. *)
Apart(w) == phase[w] \in {"running", "ack"} => msg[w] \notin batch[w]

(* What a worker holds after each way of changing phase. *)
LEMMA HeldMoves ==
  ASSUME TypeOK, NEW w \in Workers
  PROVE  /\ \A R : Advance(w, R) => Held(w)' = R /\ Apart(w)'
         /\ \A m \in batch[w] : \A n : Begin(w, m, "running", n) => Held(w)' = batch[w] /\ Apart(w)'
         /\ \A m \in batch[w] : \A n : Begin(w, m, "ack", n) => Held(w)' = batch[w] /\ Apart(w)'
         /\ \A p \in {"poll", "read", "batch"} : \A S : Receive(w, p, S) => Held(w)' = S /\ Apart(w)'
         /\ Recorded(w) /\ Apart(w) => Held(w)' = Held(w) /\ Apart(w)'
  BY DEF TypeOK, WorkerTypeOK, Advance, Begin, Receive, Recorded, Held, Apart

(* The other workers hold what they held. *)
LEMMA HeldByOthers ==
  ASSUME TypeOK, NEW w \in Workers, NEW v \in Workers \ {w}
  PROVE  /\ \A R : Advance(w, R) => Held(v)' = Held(v) /\ (Apart(v) => Apart(v)')
         /\ \A m, p, n : Begin(w, m, p, n) => Held(v)' = Held(v) /\ (Apart(v) => Apart(v)')
         /\ \A p, S : Receive(w, p, S) => Held(v)' = Held(v) /\ (Apart(v) => Apart(v)')
         /\ Recorded(w) => Held(v)' = Held(v) /\ (Apart(v) => Apart(v)')
  BY Zenon DEF TypeOK, WorkerTypeOK, Advance, Begin, Receive, Recorded, Held, Apart

(* A worker's step keeps messages in one hand. *)
LEMMA ExclusiveWorkerSteps ==
  ASSUME TypeOK, ExclusiveHolding, ~SlowWorkers, NEW w \in Workers, WorkerStep(w) \/ WorkerFault(w)
  PROVE  ExclusiveHolding'
  <1>0. /\ \A v \in Workers : Held(v) \subseteq pel \ idle /\ Apart(v)
        /\ \A u, v \in Workers : u # v => Held(u) \cap Held(v) = {}
        /\ batch[w] \subseteq Held(w)
    BY Zenon DEF ExclusiveHolding, Apart, Held
  <1> DEFINE Others == \A v \in Workers \ {w} : Held(v)' = Held(v) /\ Apart(v)'
             Kept   == pel' = pel /\ idle' = idle
  <1>a. ASSUME Others, Apart(w)', Held(w)' \subseteq pel' \ idle',
               \A v \in Workers \ {w} : Held(v) \subseteq pel' \ idle' /\ Held(v) \cap Held(w)' = {}
        PROVE  ExclusiveHolding'
    BY <1>0, <1>a DEF ExclusiveHolding, Apart
  <1>b. ASSUME Others, Apart(w)', Held(w)' \subseteq Held(w), Kept
        PROVE  ExclusiveHolding'
    BY <1>0, <1>a, <1>b, Zenon
  <1>c. ASSUME NEW R \in SUBSET Held(w), Advance(w, R), Kept
        PROVE  ExclusiveHolding'
    BY <1>0, <1>b, <1>c, HeldMoves, HeldByOthers, Zenon
  <1>d. ASSUME NEW m \in batch[w], NEW n, Begin(w, m, "running", n) \/ Begin(w, m, "ack", n), Kept
        PROVE  ExclusiveHolding'
    BY <1>0, <1>b, <1>d, HeldMoves, HeldByOthers, Zenon
  <1>e. ASSUME Recorded(w) PROVE ExclusiveHolding'
    BY <1>0, <1>b, <1>e, HeldMoves, HeldByOthers, Zenon DEF Recorded, streamVars
  <1>1. CASE ClaimPending(w)
    <2> PICK S \in SUBSET idle : AutoClaim(S) /\ Receive(w, IF S = {} THEN "read" ELSE "batch", S)
      BY <1>1, Zenon DEF ClaimPending
    <2>1. Held(w)' = S /\ Apart(w)' /\ Others
      BY <1>0, HeldMoves, HeldByOthers, Zenon
    <2>2. pel' = pel /\ idle' = idle \ S /\ S \subseteq pel
      BY Zenon DEF AutoClaim, TypeOK, WorkerTypeOK
    <2> QED
      BY <1>0, <1>a, <2>1, <2>2, Zenon
  <1>2. CASE ReadNew(w)
    <2>1. Held(w)' = {delivered + 1} /\ Apart(w)' /\ Others
      BY <1>0, <1>2, HeldMoves, HeldByOthers, Zenon DEF ReadNew
    <2>2. pel' = pel \cup {delivered + 1} /\ idle' = idle /\ delivered + 1 \notin pel /\ idle \subseteq pel
      BY <1>2 DEF ReadNew, ReadNext, TypeOK, WorkerTypeOK
    <2> QED
      BY <1>0, <1>a, <2>1, <2>2
  <1>3. CASE ReadTimesOut(w)
    <2>1. Held(w)' = {} /\ Apart(w)' /\ Others
      BY <1>0, <1>3, HeldMoves, HeldByOthers, Zenon DEF ReadTimesOut
    <2> QED
      BY <1>3, <1>b, <2>1, Zenon DEF ReadTimesOut, streamVars
  <1>4. CASE Ack(w)
    <2>1. Held(w)' = batch[w] /\ Apart(w)' /\ Others
      BY <1>0, <1>4, HeldMoves, HeldByOthers, Zenon DEF Ack
    <2>2. msg[w] \in Held(w) /\ msg[w] \notin batch[w]
      BY <1>0, <1>4, Zenon DEF Ack, Held, Apart
    <2>3. pel' = pel \ {msg[w]} /\ idle' = idle \ {msg[w]}
      BY <1>4, Zenon DEF Ack, XAck
    <2>4. \A v \in Workers \ {w} : msg[w] \notin Held(v)
      BY <1>0, <2>2, Zenon
    <2> QED
      BY <1>0, <1>a, <2>1, <2>2, <2>3, <2>4
  <1>5. CASE BeginAttempt(w)
    BY <1>5, <1>d, Zenon DEF BeginAttempt, streamVars
  <1>6. CASE SkipDuplicate(w)
    BY <1>6, <1>d, Zenon DEF SkipDuplicate, streamVars
  <1>7. CASE RetryAttempt(w) \/ FailAttempt(w) \/ CompleteAttempt(w) \/ CompleteAndEnqueueNext(w)
    BY <1>7, <1>e, Zenon DEF RetryAttempt, FailAttempt, CompleteAttempt, CompleteAndEnqueueNext
  <1>8. CASE EnqueueNextConflicts(w)
    BY <1>0, <1>8, <1>c, Zenon DEF EnqueueNextConflicts, streamVars
  <1>9. CASE LeavePending(w)
    BY <1>0, <1>9, <1>c, Zenon DEF LeavePending, streamVars
  <1>10. CASE CrashWorker(w)
    BY <1>0, <1>10, <1>c, Zenon DEF CrashWorker, streamVars
  <1> QED
    BY <1>1, <1>2, <1>3, <1>4, <1>5, <1>6, <1>7, <1>8, <1>9, <1>10, Zenon DEF WorkerStep, WorkerFault

(* Two workers never hold the same message when handling is faster than    *)
(* ReclaimMinIdle, whatever crashes and failed calls there are.            *)
THEOREM ExclusiveHoldingHolds == Spec => []ExclusiveHolding
  <1>1. Init => ExclusiveHolding
    BY Zenon DEF Init, WorkerInit, RedisInit, ExclusiveHolding, Held
  <1>2. TypeOK /\ ExclusiveHolding /\ [Next]_vars => ExclusiveHolding'
    <2> SUFFICES ASSUME TypeOK, ExclusiveHolding, [Next]_vars, ~SlowWorkers
                 PROVE  ExclusiveHolding'
      BY Zenon DEF ExclusiveHolding
    <2>1. CASE UNCHANGED <<phase, batch, msg, pel, idle>>
      BY <2>1, Zenon DEF ExclusiveHolding, Held
    <2>2. CASE Api \/ UNCHANGED vars
      BY <2>1, <2>2, Zenon DEF Api, TriggerExecution, ReplayTask, streamVars, workerVars, vars
    <2>3. CASE Timer
      <3>1. ASSUME NEW m \in pel, PendingTimesOut(m) PROVE ExclusiveHolding'
        BY <3>1 DEF PendingTimesOut, MessageIdles, workerVars, ExclusiveHolding, Held
      <3> QED
        BY <2>1, <2>3, <3>1, Zenon DEF Timer, streamVars, workerVars
    <2>4. CASE WorkerNext
      BY <2>4, ExclusiveWorkerSteps, Zenon DEF WorkerNext
    <2>5. CASE PublisherNext
      <3>1. pel' = pel /\ idle' = idle
        BY <2>5, Zenon DEF PublisherNext, PublisherStep, PublisherFault, EnqueueRetries, ListPendingOutbox,
                    Publish, MarkDispatched, PublishFails, AbortTick, DispatchTask, streamVars
      <3> QED
        BY <2>1, <2>5, <3>1, Zenon DEF PublisherNext, workerVars
    <2> QED
      BY <2>2, <2>3, <2>4, <2>5, Zenon DEF Next
  <1> QED
    BY <1>1, <1>2, TypeCorrect, PTL DEF Spec

-----------------------------------------------------------------------------
(* Every step a worker's attempt survives: it stays on its message and its *)
(* number, or is no longer running.                                        *)
StaysOrStops(v) == phase'[v] = "running" => phase[v] = "running" /\ msg'[v] = msg[v] /\ attempt'[v] = attempt[v]

(* A message once in the stream keeps its task. *)
MessagesStay == \A m \in 1 .. Len(stream) : stream'[m] = stream[m]

(* A step that leaves the attempts alone and starts none. *)
LEMMA OwnershipFrame ==
  ASSUME TypeOK, AttemptOwnership, attempts' = attempts, MessagesStay, \A v \in Workers : StaysOrStops(v)
  PROVE  AttemptOwnership'
  <1>1. \A v \in Workers : phase'[v] = "running" => TaskOf(v)' = TaskOf(v)
    BY TaskOfIsTask, Zenon DEF StaysOrStops, MessagesStay, TaskOf
  <1> QED
    BY <1>1 DEF AttemptOwnership, StaysOrStops

(* The outcome of an attempt is written to the row of the worker that ran  *)
(* it, which no other worker is running.                                   *)
LEMMA OwnershipOutcome ==
  ASSUME TypeOK, AttemptOwnership, NEW w \in Workers, Recorded(w), NEW s \in AttemptStatus,
         attempts' = [attempts EXCEPT ![TaskOf(w)][attempt[w]] = s]
  PROVE  AttemptOwnership'
  <1>1. /\ stream' = stream /\ msg' = msg /\ attempt' = attempt
        /\ phase[w] = "running" /\ phase'[w] = "ack"
        /\ \A v \in Workers \ {w} : phase'[v] = phase[v]
    BY Zenon DEF Recorded, streamVars, TypeOK, WorkerTypeOK
  <1>2. StoreTypeOK /\ TaskOf(w) \in Tasks /\ attempt[w] \in Nat
    BY <1>1, TaskOfIsTask, Zenon DEF TypeOK, WorkerTypeOK
  <1>3. \A u \in Tasks : DOMAIN attempts'[u] = DOMAIN attempts[u]
    BY <1>2, WriteAttemptFacts, Zenon
  <1>4. \A u \in Tasks : \A k \in DOMAIN attempts[u] :
          u # TaskOf(w) \/ k # attempt[w] => attempts'[u][k] = attempts[u][k]
    BY <1>2, Zenon DEF StoreTypeOK
  <1>5. \A v \in Workers : TaskOf(v)' = TaskOf(v)
    BY <1>1, Zenon DEF TaskOf
  <1>6. \A v \in Workers \ {w} : phase[v] = "running" =>
          /\ TaskOf(v) \in Tasks
          /\ TaskOf(v) # TaskOf(w) \/ attempt[v] # attempt[w]
    BY <1>1, TaskOfIsTask, Zenon DEF AttemptOwnership
  <1> QED
    BY <1>1, <1>3, <1>4, <1>5, <1>6 DEF AttemptOwnership

(* A new attempt has a number of its own. *)
LEMMA OwnershipBegin ==
  ASSUME TypeOK, AttemptOwnership, NEW w \in Workers, NEW m \in batch[w], StartTaskAttempt(stream[m]),
         Begin(w, m, "running", Len(attempts[stream[m]]) + 1), UNCHANGED streamVars
  PROVE  AttemptOwnership'
  <1> DEFINE t == stream[m]
             n == Len(attempts[t]) + 1
  <1>1. t \in Tasks /\ attempts[t] \in Seq(AttemptStatus) /\ m # 0
    <2>1. m \in 1 .. delivered /\ delivered \in 0 .. Len(stream) /\ stream \in Seq(Tasks)
      BY Zenon DEF TypeOK, WorkerTypeOK
    <2>2. t \in Tasks /\ m # 0
      BY <2>1
    <2> QED
      BY <2>2, Zenon DEF TypeOK, StoreTypeOK
  <1>2. /\ phase'[w] = "running" /\ TaskOf(w)' = t /\ attempt'[w] = n
        /\ \A v \in Workers \ {w} : phase'[v] = phase[v] /\ TaskOf(v)' = TaskOf(v) /\ attempt'[v] = attempt[v]
    BY Zenon DEF Begin, TaskOf, TypeOK, WorkerTypeOK, streamVars
  <1>3. /\ attempts'[t] = Append(attempts[t], "running")
        /\ \A u \in Tasks \ {t} : attempts'[u] = attempts[u]
    BY <1>1, Zenon DEF StartTaskAttempt, TypeOK, StoreTypeOK
  <1>4. /\ n \in DOMAIN attempts'[t] /\ attempts'[t][n] = "running" /\ n \notin DOMAIN attempts[t]
        /\ \A k \in DOMAIN attempts[t] : k \in DOMAIN attempts'[t] /\ attempts'[t][k] = attempts[t][k]
    BY <1>1, <1>3, SMTT(30)
  <1>5. \A v \in Workers : phase[v] = "running" =>
          /\ TaskOf(v) \in Tasks
          /\ attempt[v] \in DOMAIN attempts[TaskOf(v)]
          /\ attempts[TaskOf(v)][attempt[v]] = "running"
    BY TaskOfIsTask, Zenon DEF AttemptOwnership
  <1> HIDE DEF t, n
  <1>6. \A v \in Workers \ {w} : phase'[v] = "running" =>
          /\ attempt'[v] \in DOMAIN attempts'[TaskOf(v)'] /\ attempts'[TaskOf(v)'][attempt'[v]] = "running"
          /\ TaskOf(v)' = t => attempt'[v] # n
    BY <1>2, <1>3, <1>4, <1>5, SMTT(30)
  <1>7. \A u, v \in Workers \ {w} : u # v /\ phase'[u] = "running" /\ phase'[v] = "running"
                                    /\ TaskOf(v)' = TaskOf(u)' => attempt'[v] # attempt'[u]
    BY <1>2 DEF AttemptOwnership
  <1> QED
    BY <1>2, <1>4, <1>6, <1>7 DEF AttemptOwnership

(* A worker's step leaves every running attempt to its worker. *)
LEMMA OwnershipWorkerSteps ==
  ASSUME TypeOK, AttemptOwnership, NEW w \in Workers, WorkerStep(w) \/ WorkerFault(w)
  PROVE  AttemptOwnership'
  <1>0. phase \in [Workers -> {"poll", "read", "batch", "running", "ack"}]
    BY Zenon DEF TypeOK, WorkerTypeOK
  <1>a. ASSUME NEW p \in {"poll", "read", "batch"}, NEW S, Receive(w, p, S) PROVE \A v \in Workers : StaysOrStops(v)
    BY <1>0, <1>a, Zenon DEF Receive, StaysOrStops
  <1>b. ASSUME NEW R, Advance(w, R) PROVE \A v \in Workers : StaysOrStops(v)
    BY <1>b, Zenon DEF Advance, StaysOrStops, TypeOK, WorkerTypeOK
  <1>1. CASE ClaimPending(w)
    <2> PICK S \in SUBSET idle : AutoClaim(S) /\ Receive(w, IF S = {} THEN "read" ELSE "batch", S)
      BY <1>1, Zenon DEF ClaimPending
    <2> QED
      BY <1>1, <1>a, OwnershipFrame, Zenon DEF ClaimPending, AutoClaim, MessagesStay, storeVars
  <1>2. CASE ReadNew(w)
    BY <1>2, <1>a, OwnershipFrame, Zenon DEF ReadNew, ReadNext, MessagesStay, storeVars
  <1>3. CASE ReadTimesOut(w)
    BY <1>3, <1>a, OwnershipFrame, Zenon DEF ReadTimesOut, MessagesStay, storeVars, streamVars
  <1>4. CASE Ack(w)
    BY <1>4, <1>b, OwnershipFrame, Zenon DEF Ack, XAck, MessagesStay, storeVars
  <1>5. CASE BeginAttempt(w)
    BY <1>5, OwnershipBegin, Zenon DEF BeginAttempt
  <1>6. CASE SkipDuplicate(w)
    <2>1. \A v \in Workers : StaysOrStops(v)
      BY <1>6, Zenon DEF SkipDuplicate, Begin, StaysOrStops, TypeOK, WorkerTypeOK
    <2> QED
      BY <1>6, <2>1, OwnershipFrame, Zenon DEF SkipDuplicate, MessagesStay, storeVars, streamVars
  <1>7. CASE RetryAttempt(w) \/ FailAttempt(w) \/ CompleteAttempt(w) \/ CompleteAndEnqueueNext(w)
    BY <1>7, OwnershipOutcome, Zenon
       DEF RetryAttempt, FailAttempt, CompleteAttempt, CompleteAndEnqueueNext, ScheduleTaskRetry, FailTaskAttempt,
           CompleteTaskAttempt, CompleteTaskAttemptAndEnqueueNextTask, AttemptStatus
  <1>8. CASE EnqueueNextConflicts(w) \/ LeavePending(w) \/ CrashWorker(w)
    <2>1. \A v \in Workers : StaysOrStops(v)
      BY <1>8, <1>b, Zenon DEF EnqueueNextConflicts, LeavePending, CrashWorker
    <2> QED
      BY <1>8, <2>1, OwnershipFrame, Zenon
         DEF EnqueueNextConflicts, LeavePending, CrashWorker, MessagesStay, storeVars, streamVars
  <1> QED
    BY <1>1, <1>2, <1>3, <1>4, <1>5, <1>6, <1>7, <1>8, Zenon DEF WorkerStep, WorkerFault

(* The steps of all other processes leave attempts and workers alone. *)
LEMMA OtherSteps ==
  ASSUME TypeOK, Api \/ Timer \/ PublisherNext \/ UNCHANGED vars
  PROVE  attempts' = attempts /\ MessagesStay /\ UNCHANGED <<phase, msg, attempt>>
  <1>0. stream \in Seq(Tasks)
    BY Zenon DEF TypeOK, WorkerTypeOK
  <1>1. CASE Api
    BY <1>1, Zenon DEF Api, TriggerExecution, ReplayTask, CreateExecutionAndTask, ReplayDeadLetteredTask, MessagesStay,
                streamVars, workerVars
  <1>2. CASE Timer
    BY <1>2, Zenon
       DEF Timer, BackoffElapses, PendingTimesOut, MessageIdles, MessagesStay, storeVars, streamVars, workerVars
  <1>3. CASE PublisherNext
    <2> PICK p \in Publishers : PublisherStep(p) \/ PublisherFault(p)
      BY <1>3, Zenon DEF PublisherNext
    <2>1. attempts' = attempts
      BY Zenon DEF PublisherStep, PublisherFault, EnqueueRetries, EnqueueDueTaskRetries, ListPendingOutbox, Publish,
                   MarkDispatched, MarkOutboxDispatched, PublishFails, AbortTick, storeVars
    <2>2. UNCHANGED streamVars \/ \E t : stream' = Append(stream, t)
      BY Zenon DEF PublisherStep, PublisherFault, EnqueueRetries, ListPendingOutbox, Publish, MarkDispatched,
                   PublishFails, AbortTick, DispatchTask
    <2>3. MessagesStay
      BY <1>0, <2>2 DEF MessagesStay, streamVars
    <2> QED
      BY <1>3, <2>1, <2>3, Zenon DEF PublisherNext, workerVars
  <1>4. CASE UNCHANGED vars
    BY <1>4, Zenon DEF vars, storeVars, streamVars, workerVars, MessagesStay
  <1> QED
    BY <1>1, <1>2, <1>3, <1>4, Zenon

(* A worker that runs an attempt is the only one to write its row, for any *)
(* workers and publishers, slow handlers, duplicate messages and failures. *)
THEOREM AttemptOwnershipHolds == Spec => []AttemptOwnership
  <1>1. Init => AttemptOwnership
    BY Zenon DEF Init, WorkerInit, AttemptOwnership
  <1>2. TypeOK /\ AttemptOwnership /\ [Next]_vars => AttemptOwnership'
    <2> SUFFICES ASSUME TypeOK, AttemptOwnership, [Next]_vars PROVE AttemptOwnership'
      BY Zenon
    <2>1. CASE Api \/ Timer \/ PublisherNext \/ UNCHANGED vars
      BY <2>1, OtherSteps, OwnershipFrame, Zenon DEF StaysOrStops
    <2>2. CASE WorkerNext
      BY <2>2, OwnershipWorkerSteps, Zenon DEF WorkerNext
    <2> QED
      BY <2>1, <2>2, Zenon DEF Next
  <1> QED
    BY <1>1, <1>2, TypeCorrect, PTL DEF Spec

(* What AttemptHistoryKept says of one step. *)
HistoryStays ==
  \A t \in Tasks : \A k \in DOMAIN attempts[t] :
    /\ k \in DOMAIN attempts'[t]
    /\ attempts[t][k] # "running" => attempts'[t][k] = attempts[t][k]

(* Outcomes are written only to attempts that are running. *)
LEMMA HistorySteps ==
  ASSUME TypeOK, AttemptOwnership, [Next]_vars
  PROVE  HistoryStays
  <1>0. StoreTypeOK
    BY Zenon DEF TypeOK
  <1>1. ASSUME attempts' = attempts PROVE HistoryStays
    BY <1>1, Zenon DEF HistoryStays
  <1>2. ASSUME NEW w \in Workers, phase[w] = "running", NEW s \in AttemptStatus,
               attempts' = [attempts EXCEPT ![TaskOf(w)][attempt[w]] = s]
        PROVE  HistoryStays
    <2>1. TaskOf(w) \in Tasks /\ attempt[w] \in Nat
      BY <1>2, TaskOfIsTask, Zenon DEF TypeOK, WorkerTypeOK
    <2>2. \A u \in Tasks : DOMAIN attempts'[u] = DOMAIN attempts[u]
      BY <1>0, <1>2, <2>1, WriteAttemptFacts, Zenon
    <2>3. \A u \in Tasks : \A k \in DOMAIN attempts[u] :
            u # TaskOf(w) \/ k # attempt[w] => attempts'[u][k] = attempts[u][k]
      BY <1>0, <1>2, <2>1, Zenon DEF StoreTypeOK
    <2> QED
      BY <1>2, <2>2, <2>3, Zenon DEF AttemptOwnership, HistoryStays
  <1>3. ASSUME NEW t \in Tasks, StartTaskAttempt(t) PROVE HistoryStays
    BY <1>0, <1>3 DEF StartTaskAttempt, StoreTypeOK, HistoryStays
  <1>4. CASE Api \/ Timer \/ PublisherNext \/ UNCHANGED vars
    BY <1>1, <1>4, OtherSteps, Zenon
  <1>5. CASE WorkerNext
    <2> PICK w \in Workers : WorkerStep(w) \/ WorkerFault(w)
      BY <1>5, Zenon DEF WorkerNext
    <2>1. CASE RetryAttempt(w) \/ FailAttempt(w) \/ CompleteAttempt(w) \/ CompleteAndEnqueueNext(w)
      BY <1>2, <2>1, Zenon
         DEF RetryAttempt, FailAttempt, CompleteAttempt, CompleteAndEnqueueNext, Recorded, ScheduleTaskRetry,
             FailTaskAttempt, CompleteTaskAttempt, CompleteTaskAttemptAndEnqueueNextTask, AttemptStatus
    <2>2. CASE BeginAttempt(w)
      BY <1>3, <2>2 DEF BeginAttempt, TypeOK, WorkerTypeOK
    <2>3. CASE \/ ClaimPending(w) \/ ReadNew(w) \/ ReadTimesOut(w) \/ Ack(w) \/ SkipDuplicate(w)
               \/ EnqueueNextConflicts(w) \/ WorkerFault(w)
      BY <1>1, <2>3, Zenon
         DEF ClaimPending, ReadNew, ReadTimesOut, Ack, SkipDuplicate, EnqueueNextConflicts, WorkerFault,
             LeavePending, CrashWorker, storeVars
    <2> QED
      BY <2>1, <2>2, <2>3, Zenon DEF WorkerStep
  <1> QED
    BY <1>4, <1>5, Zenon DEF Next

(* The record of an attempt stays, and stays what it is once it is final,  *)
(* because outcomes are written only to attempts that are running.         *)
THEOREM AttemptHistoryKeptHolds == Spec => AttemptHistoryKept
  <1>1. TypeOK /\ AttemptOwnership /\ [Next]_vars => [HistoryStays]_vars
    BY HistorySteps, Zenon
  <1> QED
    BY <1>1, TypeCorrect, AttemptOwnershipHolds, PTL DEF Spec, AttemptHistoryKept, HistoryStays

-----------------------------------------------------------------------------
(* Events and messages are of tasks that exist. *)
KnownTasks ==
  /\ \A t \in Tasks : Len(outbox[t]) > 0 => status[t] # "none"
  /\ \A m \in 1 .. Len(stream) : status[stream[m]] # "none"

(* No task's row is deleted. *)
RowsStay == \A t \in Tasks : status[t] # "none" => status'[t] # "none"

(* A row that is new is the entry task's, or comes with the success of a   *)
(* task that names it.                                                     *)
NewRowHasCause ==
  \A e \in Executions, n \in TaskNames :
    status[<<e, n>>] = "none" /\ status'[<<e, n>>] # "none" /\ n # EntryTask =>
      \E q \in TaskNames : NextTask[q] = n /\ HasAttempt(<<e, q>>, "succeeded")'

(* An outcome that is new comes with the attempt that caused it. *)
NewOutcomeHasCause ==
  \A e \in Executions : exec'[e] # exec[e] =>
    /\ exec'[e] = "succeeded" =>
         \E n \in TaskNames : NextTask[n] = NoTask /\ HasAttempt(<<e, n>>, "succeeded")'
    /\ exec'[e] = "failed" => \E n \in TaskNames : HasAttempt(<<e, n>>, "failed")'

(* An attempt that has ended has ended for ever. *)
LEMMA EndedStays ==
  ASSUME HistoryStays, NEW t \in Tasks, NEW s \in {"succeeded", "failed"}, HasAttempt(t, s)
  PROVE  HasAttempt(t, s)'
  BY Zenon DEF HistoryStays, HasAttempt

(* Events are inserted for tasks that exist. *)
LEMMA KnownInsert ==
  ASSUME StoreTypeOK, KnownTasks, RowsStay, stream' = stream, stream \in Seq(Tasks), NEW S \in SUBSET Tasks,
         outbox' = InsertEvents(S), \A t \in S : status'[t] # "none"
  PROVE  KnownTasks'
  <1>1. \A t \in Tasks \ S : outbox'[t] = outbox[t]
    BY Zenon DEF InsertEvents
  <1> QED
    BY <1>1 DEF KnownTasks, RowsStay

(* A step that inserts no event and adds no message. *)
LEMMA KnownFrame ==
  ASSUME StoreTypeOK, KnownTasks, RowsStay, stream' = stream, stream \in Seq(Tasks),
         \A t \in Tasks : Len(outbox'[t]) = Len(outbox[t])
  PROVE  KnownTasks'
  BY DEF KnownTasks, RowsStay

(* The outcome of a worker's attempt is on record, and its task exists. *)
LEMMA OutcomeOnRecord ==
  ASSUME TypeOK, AttemptOwnership, KnownTasks, NEW w \in Workers, phase[w] = "running",
         NEW t \in Tasks, t = TaskOf(w), NEW s \in AttemptStatus,
         attempts' = [attempts EXCEPT ![TaskOf(w)][attempt[w]] = s]
  PROVE  /\ t[1] \in Executions /\ t[2] \in TaskNames /\ t = <<t[1], t[2]>>
         /\ status[t] # "none"
         /\ HasAttempt(t, s)'
  <1>1. attempt[w] \in Nat /\ StoreTypeOK
    BY Zenon DEF TypeOK, WorkerTypeOK
  <1>2. attempt[w] \in DOMAIN attempts[t]
    BY Zenon DEF AttemptOwnership
  <1>3. attempt[w] \in DOMAIN attempts'[t] /\ attempts'[t][attempt[w]] = s
    BY <1>1, <1>2, WriteAttemptFacts, Zenon DEF StoreTypeOK
  <1>4. HasAttempt(t, s)'
    BY <1>3, Zenon DEF HasAttempt
  <1> QED
    BY <1>4, TaskOfIsTask DEF KnownTasks, TaskOf, Tasks

(* The steps that change a status, the outbox or the stream. *)
LEMMA CauseWorkerSteps ==
  ASSUME TypeOK, AttemptOwnership, KnownTasks, NEW w \in Workers, WorkerStep(w) \/ WorkerFault(w)
  PROVE  RowsStay /\ NewRowHasCause /\ NewOutcomeHasCause /\ KnownTasks'
  <1>0. StoreTypeOK /\ stream \in Seq(Tasks)
    BY Zenon DEF TypeOK, WorkerTypeOK
  <1>a. ASSUME UNCHANGED storeVars, stream' = stream
        PROVE  RowsStay /\ NewRowHasCause /\ NewOutcomeHasCause /\ KnownTasks'
    <2>1. RowsStay /\ NewRowHasCause /\ NewOutcomeHasCause
      BY <1>a, Zenon DEF RowsStay, NewRowHasCause, NewOutcomeHasCause, storeVars
    <2> QED
      BY <1>0, <1>a, <2>1, KnownFrame, Zenon DEF storeVars
  <1>b. ASSUME Recorded(w)
        PROVE  phase[w] = "running" /\ TaskOf(w) \in Tasks /\ stream' = stream
    BY <1>b, TaskOfIsTask, Zenon DEF Recorded, streamVars
  <1>c. ASSUME NEW t \in Tasks, status[t] # "none", NEW s \in TaskStatus \ {"none"},
               status' = [status EXCEPT ![t] = s], stream' = stream, outbox' = outbox
        PROVE  RowsStay /\ NewRowHasCause /\ KnownTasks'
    <2>0. \A u \in Tasks : status'[u] = IF u = t THEN s ELSE status[u]
      BY <1>0, <1>c, Zenon DEF StoreTypeOK
    <2>1. RowsStay /\ NewRowHasCause
      BY <1>c, <2>0, Zenon DEF RowsStay, NewRowHasCause, Tasks
    <2> QED
      BY <1>0, <1>c, <2>1, KnownFrame, Zenon
  <1>1. CASE ClaimPending(w) \/ ReadNew(w) \/ ReadTimesOut(w) \/ Ack(w) \/ SkipDuplicate(w)
               \/ EnqueueNextConflicts(w) \/ WorkerFault(w)
    <2>1. UNCHANGED storeVars /\ stream' = stream
      BY <1>1, Zenon
         DEF ClaimPending, ReadNew, ReadTimesOut, Ack, SkipDuplicate, EnqueueNextConflicts, WorkerFault,
             LeavePending, CrashWorker, AutoClaim, ReadNext, XAck, streamVars
    <2> QED
      BY <1>a, <2>1, Zenon
  <1>2. CASE BeginAttempt(w)
    <2> PICK m \in batch[w] : StartTaskAttempt(stream[m])
      BY <1>2, Zenon DEF BeginAttempt
    <2>1. stream[m] \in Tasks /\ status[stream[m]] # "none" /\ stream' = stream
      BY <1>2 DEF BeginAttempt, streamVars, TypeOK, WorkerTypeOK, KnownTasks
    <2> QED
      BY <1>c, <2>1, Zenon DEF StartTaskAttempt, NewOutcomeHasCause, TaskStatus
  <1>3. CASE RetryAttempt(w)
    <2> PICK t \in Tasks : t = TaskOf(w)
      BY <1>3, <1>b, Zenon DEF RetryAttempt
    <2>1. status[t] # "none"
      BY <1>3, <1>b, OutcomeOnRecord, Zenon DEF RetryAttempt, ScheduleTaskRetry, AttemptStatus
    <2> QED
      BY <1>3, <1>b, <1>c, <2>1, Zenon
         DEF RetryAttempt, ScheduleTaskRetry, NewOutcomeHasCause, TaskStatus
  <1>4. CASE FailAttempt(w)
    <2> PICK t \in Tasks : t = TaskOf(w)
      BY <1>4, <1>b, Zenon DEF FailAttempt
    <2>1. /\ t[1] \in Executions /\ t[2] \in TaskNames /\ t = <<t[1], t[2]>>
          /\ status[t] # "none" /\ HasAttempt(t, "failed")'
      BY <1>4, <1>b, OutcomeOnRecord, Zenon DEF FailAttempt, FailTaskAttempt, AttemptStatus
    <2>2. exec' = [exec EXCEPT ![t[1]] = "failed"]
      BY <1>4, Zenon DEF FailAttempt, FailTaskAttempt
    <2>3. NewOutcomeHasCause
      BY <1>0, <2>1, <2>2, Zenon DEF NewOutcomeHasCause, StoreTypeOK
    <2> QED
      BY <1>4, <1>b, <1>c, <2>1, <2>3, Zenon DEF FailAttempt, FailTaskAttempt, TaskStatus
  <1>5. CASE CompleteAttempt(w)
    <2> PICK t \in Tasks : t = TaskOf(w)
      BY <1>5, <1>b, Zenon DEF CompleteAttempt
    <2>1. /\ t[1] \in Executions /\ t[2] \in TaskNames /\ t = <<t[1], t[2]>>
          /\ status[t] # "none" /\ HasAttempt(t, "succeeded")'
      BY <1>5, <1>b, OutcomeOnRecord, Zenon DEF CompleteAttempt, CompleteTaskAttempt, AttemptStatus
    <2>2. exec' = [exec EXCEPT ![t[1]] = "succeeded"] /\ NextTask[t[2]] = NoTask
      BY <1>5, Zenon DEF CompleteAttempt, CompleteTaskAttempt
    <2>3. NewOutcomeHasCause
      BY <1>0, <2>1, <2>2, Zenon DEF NewOutcomeHasCause, StoreTypeOK
    <2> QED
      BY <1>5, <1>b, <1>c, <2>1, <2>3, Zenon DEF CompleteAttempt, CompleteTaskAttempt, TaskStatus
  <1>6. CASE CompleteAndEnqueueNext(w)
    <2> PICK t \in Tasks : t = TaskOf(w)
      BY <1>6, <1>b, Zenon DEF CompleteAndEnqueueNext
    <2>1. /\ t[1] \in Executions /\ t[2] \in TaskNames /\ t = <<t[1], t[2]>>
          /\ status[t] # "none" /\ HasAttempt(t, "succeeded")'
      BY <1>6, <1>b, OutcomeOnRecord, Zenon
         DEF CompleteAndEnqueueNext, CompleteTaskAttemptAndEnqueueNextTask, AttemptStatus
    <2>2. NextTask[t[2]] # NoTask /\ Successor(t) \in Tasks /\ Successor(t) # t
      BY <1>6, SuccessorIsTask, Zenon DEF CompleteAndEnqueueNext
    <2>3. /\ status' = [status EXCEPT ![t] = "succeeded", ![Successor(t)] = "pending"]
          /\ outbox' = InsertEvents({Successor(t)})
          /\ exec' = exec /\ stream' = stream
      BY <1>6, <1>b, Zenon DEF CompleteAndEnqueueNext, CompleteTaskAttemptAndEnqueueNextTask
    <2>4. /\ status'[t] = "succeeded" /\ status'[Successor(t)] = "pending"
          /\ \A u \in Tasks \ {t, Successor(t)} : status'[u] = status[u]
      BY <1>0, <2>2, <2>3, Zenon DEF StoreTypeOK
    <2>5. RowsStay
      BY <2>4, Zenon DEF RowsStay
    <2>6. NewRowHasCause
      <3> SUFFICES ASSUME NEW e \in Executions, NEW n \in TaskNames,
                          status[<<e, n>>] = "none", status'[<<e, n>>] # "none"
                   PROVE  \E q \in TaskNames : NextTask[q] = n /\ HasAttempt(<<e, q>>, "succeeded")'
        BY Zenon DEF NewRowHasCause
      <3>1. <<e, n>> = Successor(t)
        BY <2>1, <2>4, Zenon DEF Tasks
      <3>2. e = t[1] /\ n = NextTask[t[2]]
        BY <3>1, Zenon DEF Successor
      <3> QED
        BY <2>1, <3>2, Zenon
    <2>7. KnownTasks'
      <3> DEFINE S == {Successor(t)}
      <3>1. S \in SUBSET Tasks /\ outbox' = InsertEvents(S) /\ \A u \in S : status'[u] # "none"
        BY <2>2, <2>3, <2>4, Zenon
      <3> HIDE DEF S
      <3> QED
        BY <1>0, <2>3, <2>5, <3>1, KnownInsert, Zenon
    <2> QED
      BY <2>3, <2>5, <2>6, <2>7, Zenon DEF NewOutcomeHasCause
  <1> QED
    BY <1>1, <1>2, <1>3, <1>4, <1>5, <1>6, Zenon DEF WorkerStep

(* The steps of all other processes. *)
LEMMA CauseOtherSteps ==
  ASSUME TypeOK, KnownTasks, Api \/ Timer \/ PublisherNext \/ UNCHANGED vars
  PROVE  RowsStay /\ NewRowHasCause /\ NewOutcomeHasCause /\ KnownTasks'
  <1>0. StoreTypeOK /\ stream \in Seq(Tasks)
    BY Zenon DEF TypeOK, WorkerTypeOK
  <1>a. ASSUME status' = status, exec' = exec PROVE RowsStay /\ NewRowHasCause /\ NewOutcomeHasCause
    BY <1>a, Zenon DEF RowsStay, NewRowHasCause, NewOutcomeHasCause
  <1>b. ASSUME status' = status, exec' = exec, outbox' = outbox, stream' = stream
        PROVE  RowsStay /\ NewRowHasCause /\ NewOutcomeHasCause /\ KnownTasks'
    BY <1>0, <1>a, <1>b, KnownFrame, Zenon
  <1>1. ASSUME NEW e \in Executions, TriggerExecution(e)
        PROVE  RowsStay /\ NewRowHasCause /\ NewOutcomeHasCause /\ KnownTasks'
    <2> DEFINE t == <<e, EntryTask>>
               S == {t}
    <2>1. /\ exec' = [exec EXCEPT ![e] = "running"] /\ status' = [status EXCEPT ![t] = "pending"]
          /\ outbox' = InsertEvents(S) /\ stream' = stream
      BY <1>1, Zenon DEF TriggerExecution, CreateExecutionAndTask, streamVars
    <2>2. t \in Tasks
      BY DefinitionAssumption, Zenon DEF Tasks
    <2>3. \A u \in Tasks : status'[u] = IF u = t THEN "pending" ELSE status[u]
      BY <1>0, <2>1, <2>2, Zenon DEF StoreTypeOK
    <2>4. NewRowHasCause /\ RowsStay
      BY <2>3, Zenon DEF NewRowHasCause, RowsStay, Tasks
    <2>5. NewOutcomeHasCause
      BY <1>0, <2>1, Zenon DEF NewOutcomeHasCause, StoreTypeOK
    <2>6. S \in SUBSET Tasks /\ \A u \in S : status'[u] # "none"
      BY <2>2, <2>3, Zenon
    <2> HIDE DEF S
    <2> QED
      BY <1>0, <2>1, <2>4, <2>5, <2>6, KnownInsert, Zenon
  <1>2. ASSUME NEW t \in Tasks, ReplayTask(t)
        PROVE  RowsStay /\ NewRowHasCause /\ NewOutcomeHasCause /\ KnownTasks'
    <2> DEFINE S == {t}
    <2>1. /\ status[t] = "dead_lettered" /\ exec' = [exec EXCEPT ![t[1]] = "running"]
          /\ status' = [status EXCEPT ![t] = "pending"] /\ outbox' = InsertEvents(S) /\ stream' = stream
      BY <1>2, Zenon DEF ReplayTask, ReplayDeadLetteredTask, streamVars
    <2>2. \A u \in Tasks : status'[u] = IF u = t THEN "pending" ELSE status[u]
      BY <1>0, <2>1, Zenon DEF StoreTypeOK
    <2>3. status[t] # "none"
      BY <2>1, Zenon
    <2>4. NewRowHasCause /\ RowsStay
      BY <2>2, <2>3, Zenon DEF NewRowHasCause, RowsStay, Tasks
    <2>5. NewOutcomeHasCause
      BY <1>0, <2>1, Zenon DEF NewOutcomeHasCause, StoreTypeOK, Tasks
    <2>6. S \in SUBSET Tasks /\ \A u \in S : status'[u] # "none"
      BY <2>2, Zenon
    <2> HIDE DEF S
    <2> QED
      BY <1>0, <2>1, <2>4, <2>5, <2>6, KnownInsert, Zenon
  <1>3. CASE Timer
    BY <1>3, <1>b, Zenon DEF Timer, BackoffElapses, PendingTimesOut, MessageIdles, storeVars, streamVars
  <1>4. CASE PublisherNext
    <2> PICK p \in Publishers : PublisherStep(p) \/ PublisherFault(p)
      BY <1>4, Zenon DEF PublisherNext
    <2>1. CASE EnqueueRetries(p)
      <3> PICK S \in SUBSET DueTasks : outbox' = InsertEvents(S) /\ UNCHANGED <<exec, status>>
        BY <2>1, Zenon DEF EnqueueRetries, EnqueueDueTaskRetries
      <3>1. S \in SUBSET Tasks /\ (\A u \in S : status'[u] # "none") /\ stream' = stream
        BY <2>1, Zenon DEF DueTasks, EnqueueRetries, streamVars
      <3> QED
        BY <1>0, <1>a, <3>1, KnownInsert, Zenon
    <2>2. CASE Publish(p)
      <3> PICK ev \in listed[p] : stream' = Append(stream, ev[1])
        BY <2>2, Zenon DEF Publish, DispatchTask
      <3>1. ev[1] \in Tasks /\ Len(outbox[ev[1]]) > 0
        BY DEF TypeOK, PublisherTypeOK, StoreTypeOK
      <3>2. UNCHANGED storeVars
        BY <2>2, Zenon DEF Publish
      <3>3. KnownTasks'
        BY <1>0, <3>1, <3>2 DEF KnownTasks, storeVars
      <3> QED
        BY <1>a, <3>2, <3>3, Zenon DEF storeVars
    <2>3. CASE MarkDispatched(p)
      <3>1. current[p][1] \in Tasks /\ current[p][2] \in Nat
        BY <2>3, Zenon DEF MarkDispatched, TypeOK, PublisherTypeOK
      <3>2. /\ UNCHANGED <<exec, status>> /\ stream' = stream
            /\ outbox' = [outbox EXCEPT ![current[p][1]][current[p][2]] = "dispatched"]
        BY <2>3, Zenon DEF MarkDispatched, MarkOutboxDispatched, streamVars
      <3>3. \A u \in Tasks : Len(outbox'[u]) = Len(outbox[u])
        BY <1>0, <3>1, <3>2, MarkFacts
      <3> QED
        BY <1>0, <1>a, <3>2, <3>3, KnownFrame, Zenon
    <2>4. CASE ListPendingOutbox(p) \/ PublisherFault(p)
      BY <1>b, <2>4, Zenon DEF ListPendingOutbox, PublisherFault, PublishFails, AbortTick, storeVars, streamVars
    <2> QED
      BY <2>1, <2>2, <2>3, <2>4, Zenon DEF PublisherStep
  <1>5. CASE UNCHANGED vars
    BY <1>b, <1>5, Zenon DEF vars, storeVars, streamVars
  <1> QED
    BY <1>1, <1>2, <1>3, <1>4, <1>5, Zenon DEF Api

(* Every step has a cause for what it makes new. *)
LEMMA CauseSteps ==
  ASSUME TypeOK, AttemptOwnership, KnownTasks, [Next]_vars
  PROVE  RowsStay /\ NewRowHasCause /\ NewOutcomeHasCause /\ KnownTasks'
  BY CauseOtherSteps, CauseWorkerSteps, Zenon DEF Next, WorkerNext

(* Events and messages are never of a task without a row. *)
LEMMA KnownTasksHold == Spec => []KnownTasks
  <1>1. Init => KnownTasks
    BY DEF Init, StoreInit, RedisInit, KnownTasks
  <1>2. TypeOK /\ AttemptOwnership /\ KnownTasks /\ [Next]_vars => KnownTasks'
    BY CauseSteps, Zenon
  <1> QED
    BY <1>1, <1>2, TypeCorrect, AttemptOwnershipHolds, PTL DEF Spec

(* Tasks start in the order of the definition, through duplicate messages, *)
(* overlapping attempts, replays and failures of any number.               *)
THEOREM ChainOrderHolds == Spec => []ChainOrder
  <1>1. Init => ChainOrder
    BY Zenon DEF Init, StoreInit, ChainOrder, Tasks
  <1>2. TypeOK /\ AttemptOwnership /\ KnownTasks /\ ChainOrder /\ [Next]_vars => ChainOrder'
    <2> SUFFICES ASSUME TypeOK, AttemptOwnership, KnownTasks, ChainOrder, [Next]_vars,
                        NEW e \in Executions, NEW n \in TaskNames, status'[<<e, n>>] # "none", n # EntryTask
                 PROVE  \E q \in TaskNames : NextTask[q] = n /\ HasAttempt(<<e, q>>, "succeeded")'
      BY Zenon DEF ChainOrder
    <2>1. CASE status[<<e, n>>] = "none"
      BY <2>1, CauseSteps, Zenon DEF NewRowHasCause
    <2>2. CASE status[<<e, n>>] # "none"
      <3> PICK q \in TaskNames : NextTask[q] = n /\ HasAttempt(<<e, q>>, "succeeded")
        BY <2>2, Zenon DEF ChainOrder
      <3>1. <<e, q>> \in Tasks /\ HistoryStays
        BY HistorySteps, Zenon DEF Tasks
      <3> QED
        BY <3>1, EndedStays, Zenon
    <2> QED
      BY <2>1, <2>2, Zenon
  <1> QED
    BY <1>1, <1>2, TypeCorrect, AttemptOwnershipHolds, KnownTasksHold, PTL DEF Spec

(* An outcome of an execution always has the attempt on record that caused *)
(* it, although the outcome may be taken back and given again.             *)
THEOREM OutcomeHasCauseHolds == Spec => []OutcomeHasCause
  <1>1. Init => OutcomeHasCause
    BY Zenon DEF Init, StoreInit, OutcomeHasCause
  <1>2. TypeOK /\ AttemptOwnership /\ KnownTasks /\ OutcomeHasCause /\ [Next]_vars => OutcomeHasCause'
    <2> SUFFICES ASSUME TypeOK, AttemptOwnership, KnownTasks, OutcomeHasCause, [Next]_vars, NEW e \in Executions
                 PROVE  /\ exec'[e] = "succeeded" =>
                             \E n \in TaskNames : NextTask[n] = NoTask /\ HasAttempt(<<e, n>>, "succeeded")'
                        /\ exec'[e] = "failed" => \E n \in TaskNames : HasAttempt(<<e, n>>, "failed")'
      BY Zenon DEF OutcomeHasCause
    <2>1. CASE exec'[e] # exec[e]
      BY <2>1, CauseSteps, Zenon DEF NewOutcomeHasCause
    <2>2. CASE exec'[e] = exec[e]
      <3>1. HistoryStays /\ \A n \in TaskNames : <<e, n>> \in Tasks
        BY HistorySteps, Zenon DEF Tasks
      <3>2. /\ exec[e] = "succeeded" =>
                 \E n \in TaskNames : NextTask[n] = NoTask /\ HasAttempt(<<e, n>>, "succeeded")
            /\ exec[e] = "failed" => \E n \in TaskNames : HasAttempt(<<e, n>>, "failed")
        BY Zenon DEF OutcomeHasCause
      <3>3. \A n \in TaskNames : \A s \in {"succeeded", "failed"} :
              HasAttempt(<<e, n>>, s) => HasAttempt(<<e, n>>, s)'
        BY <3>1, EndedStays, Zenon
      <3> QED
        BY <2>2, <3>2, <3>3, Zenon
    <2> QED
      BY <2>1, <2>2, Zenon
  <1> QED
    BY <1>1, <1>2, TypeCorrect, AttemptOwnershipHolds, KnownTasksHold, PTL DEF Spec

-----------------------------------------------------------------------------
(* The statuses of executions and tasks. *)

(* The steps that change a status. *)
StatusStep ==
  \/ \E e \in Executions : CreateExecutionAndTask(e) /\ UNCHANGED <<streamVars, workerVars>>
  \/ \E t \in Tasks : ReplayDeadLetteredTask(t) /\ UNCHANGED <<streamVars, workerVars>>
  \/ \E w \in Workers :
       BeginAttempt(w) \/ RetryAttempt(w) \/ FailAttempt(w) \/ CompleteAttempt(w) \/ CompleteAndEnqueueNext(w)

LEMMA StatusSteps ==
  ASSUME TypeOK, [Next]_vars
  PROVE  \/ StatusStep
         \/ /\ UNCHANGED <<exec, status, attempts>> /\ MessagesStay
            /\ \A w \in Workers : StaysOrStops(w)
            /\ \A t \in Tasks : nextRunAt[t] = "none" => nextRunAt'[t] = "none"
  <1>0. StoreTypeOK
    BY Zenon DEF TypeOK
  <1>1. CASE Api
    BY <1>1, Zenon DEF Api, TriggerExecution, ReplayTask, StatusStep
  <1>2. CASE Timer \/ UNCHANGED vars
    <2>1. UNCHANGED <<exec, status>>
      BY <1>2, Zenon DEF Timer, BackoffElapses, PendingTimesOut, storeVars, vars
    <2>2. \A t \in Tasks : nextRunAt[t] = "none" => nextRunAt'[t] = "none"
      BY <1>0, <1>2, Zenon DEF Timer, BackoffElapses, PendingTimesOut, storeVars, vars, StoreTypeOK
    <2> QED
      BY <1>2, <2>1, <2>2, OtherSteps, Zenon DEF StaysOrStops
  <1>3. CASE PublisherNext
    <2>1. exec' = exec /\ status' = status
      BY <1>3, Zenon DEF PublisherNext, PublisherStep, PublisherFault, EnqueueRetries, EnqueueDueTaskRetries,
                  ListPendingOutbox, Publish, MarkDispatched, MarkOutboxDispatched, PublishFails, AbortTick, storeVars
    <2>2. \/ nextRunAt' = nextRunAt
          \/ \E S : nextRunAt' = [t \in Tasks |-> IF t \in S THEN "none" ELSE nextRunAt[t]]
      BY <1>3, Zenon DEF PublisherNext, PublisherStep, PublisherFault, EnqueueRetries, EnqueueDueTaskRetries,
                  ListPendingOutbox, Publish, MarkDispatched, MarkOutboxDispatched, PublishFails, AbortTick, storeVars
    <2>3. \A t \in Tasks : nextRunAt[t] = "none" => nextRunAt'[t] = "none"
      BY <2>2, Zenon
    <2> QED
      BY <1>3, <2>1, <2>3, OtherSteps, Zenon DEF StaysOrStops
  <1>4. CASE WorkerNext
    <2> PICK w \in Workers : WorkerStep(w) \/ WorkerFault(w)
      BY <1>4, Zenon DEF WorkerNext
    <2>1. CASE BeginAttempt(w) \/ RetryAttempt(w) \/ FailAttempt(w) \/ CompleteAttempt(w) \/ CompleteAndEnqueueNext(w)
      BY <2>1, Zenon DEF StatusStep
    <2>2. CASE \/ ClaimPending(w) \/ ReadNew(w) \/ ReadTimesOut(w) \/ Ack(w) \/ SkipDuplicate(w)
               \/ EnqueueNextConflicts(w) \/ WorkerFault(w)
      <3>1. UNCHANGED storeVars /\ stream' = stream
        BY <2>2, Zenon
           DEF ClaimPending, ReadNew, ReadTimesOut, Ack, SkipDuplicate, EnqueueNextConflicts, WorkerFault,
               LeavePending, CrashWorker, AutoClaim, ReadNext, XAck, streamVars
      <3>2. exec' = exec /\ status' = status /\ attempts' = attempts /\ nextRunAt' = nextRunAt /\ MessagesStay
        BY <3>1, Zenon DEF storeVars, MessagesStay
      <3>3. ASSUME NEW v \in Workers PROVE StaysOrStops(v)
        <4>0. phase \in [Workers -> {"poll", "read", "batch", "running", "ack"}] /\ msg \in [Workers -> 0 .. delivered]
              /\ attempt \in [Workers -> Nat]
          BY Zenon DEF TypeOK, WorkerTypeOK
        <4>1. ASSUME NEW p \in {"poll", "read", "batch"}, NEW S, Receive(w, p, S) PROVE StaysOrStops(v)
          BY <4>0, <4>1, Zenon DEF Receive, StaysOrStops
        <4>2. ASSUME NEW R, Advance(w, R) PROVE StaysOrStops(v)
          BY <4>0, <4>2, Zenon DEF Advance, StaysOrStops
        <4>3. ASSUME NEW m, Begin(w, m, "ack", 0) PROVE StaysOrStops(v)
          BY <4>0, <4>3, Zenon DEF Begin, StaysOrStops
        <4>4. CASE ClaimPending(w)
          <5>1. PICK S \in SUBSET idle : Receive(w, IF S = {} THEN "read" ELSE "batch", S)
            BY <4>4, Zenon DEF ClaimPending
          <5> QED
            BY <4>1, <5>1, Zenon
        <4> QED
          BY <2>2, <4>1, <4>2, <4>3, <4>4, Zenon
             DEF ReadNew, ReadTimesOut, Ack, SkipDuplicate, EnqueueNextConflicts, WorkerFault, LeavePending, CrashWorker
      <3> QED
        BY <3>2, <3>3, Zenon
    <2> QED
      BY <2>1, <2>2, Zenon DEF WorkerStep
  <1> QED
    BY <1>1, <1>2, <1>3, <1>4, Zenon DEF Next

(* What the outcome of worker w does to the statuses; t is its task. *)
LEMMA OutcomeStatuses ==
  ASSUME TypeOK, NEW w \in Workers, NEW t, t = TaskOf(w),
         RetryAttempt(w) \/ FailAttempt(w) \/ CompleteAttempt(w) \/ CompleteAndEnqueueNext(w)
  PROVE  /\ phase[w] = "running" /\ phase'[w] = "ack" /\ stream' = stream /\ msg' = msg
         /\ \A v \in Workers \ {w} : phase'[v] = phase[v]
         /\ t \in Tasks /\ t[1] \in Executions /\ t[2] \in TaskNames /\ t = <<t[1], t[2]>>
         /\ RetryAttempt(w) => status' = [status EXCEPT ![t] = "pending"] /\ exec' = exec
         /\ FailAttempt(w) => /\ status' = [status EXCEPT ![t] = "dead_lettered"]
                              /\ exec' = [exec EXCEPT ![t[1]] = "failed"]
         /\ CompleteAttempt(w) => /\ NextTask[t[2]] = NoTask
                                  /\ status' = [status EXCEPT ![t] = "succeeded"]
                                  /\ exec' = [exec EXCEPT ![t[1]] = "succeeded"]
         /\ CompleteAndEnqueueNext(w) =>
              /\ NextTask[t[2]] # NoTask /\ exec' = exec /\ status[Successor(t)] = "none"
              /\ status' = [status EXCEPT ![t] = "succeeded", ![Successor(t)] = "pending"]
  <1>1. Recorded(w)
    BY Zenon DEF RetryAttempt, FailAttempt, CompleteAttempt, CompleteAndEnqueueNext
  <1>2. /\ phase[w] = "running" /\ phase'[w] = "ack" /\ stream' = stream /\ msg' = msg
        /\ \A v \in Workers \ {w} : phase'[v] = phase[v]
    BY <1>1, Zenon DEF Recorded, streamVars, TypeOK, WorkerTypeOK
  <1>3. t \in Tasks /\ t[1] \in Executions /\ t[2] \in TaskNames /\ t = <<t[1], t[2]>>
    BY <1>2, TaskOfIsTask DEF Tasks
  <1>4. RetryAttempt(w) => status' = [status EXCEPT ![t] = "pending"] /\ exec' = exec
    BY Zenon DEF RetryAttempt, ScheduleTaskRetry
  <1>5. FailAttempt(w) => /\ status' = [status EXCEPT ![t] = "dead_lettered"]
                          /\ exec' = [exec EXCEPT ![t[1]] = "failed"]
    BY Zenon DEF FailAttempt, FailTaskAttempt
  <1>6. CompleteAttempt(w) => /\ NextTask[t[2]] = NoTask
                              /\ status' = [status EXCEPT ![t] = "succeeded"]
                              /\ exec' = [exec EXCEPT ![t[1]] = "succeeded"]
    BY Zenon DEF CompleteAttempt, CompleteTaskAttempt
  <1>7. CompleteAndEnqueueNext(w) =>
          /\ NextTask[t[2]] # NoTask /\ exec' = exec /\ status[Successor(t)] = "none"
          /\ status' = [status EXCEPT ![t] = "succeeded", ![Successor(t)] = "pending"]
    BY Zenon DEF CompleteAndEnqueueNext, CompleteTaskAttemptAndEnqueueNextTask
  <1> QED
    BY <1>2, <1>3, <1>4, <1>5, <1>6, <1>7, Zenon

-----------------------------------------------------------------------------
(* An execution in which one task changes, and is open afterwards or takes *)
(* the execution out of running.                                           *)
LEMMA WorkFrame ==
  ASSUME RunningExecutionHasWork, NEW e0 \in Executions,
         \A e \in Executions \ {e0} : exec'[e] = exec[e] /\ \A n \in TaskNames : status'[<<e, n>>] = status[<<e, n>>],
         exec'[e0] = "running" => \E n \in TaskNames : Open(<<e0, n>>)'
  PROVE  RunningExecutionHasWork'
  <1> SUFFICES ASSUME NEW e \in Executions, exec'[e] = "running"
               PROVE  \E n \in TaskNames : Open(<<e, n>>)'
    BY Zenon DEF RunningExecutionHasWork
  <1>1. CASE e = e0
    BY <1>1, Zenon
  <1>2. CASE e # e0
    BY <1>2, Zenon DEF RunningExecutionHasWork, Open
  <1> QED
    BY <1>1, <1>2, Zenon

(* A task set to status s, alone. *)
LEMMA OneStatus ==
  ASSUME StoreTypeOK, NEW t \in Tasks, NEW s, status' = [status EXCEPT ![t] = s]
  PROVE  /\ status'[t] = s /\ t[1] \in Executions /\ t[2] \in TaskNames /\ t = <<t[1], t[2]>>
         /\ \A u \in Tasks \ {t} : status'[u] = status[u]
         /\ \A e \in Executions \ {t[1]} : \A n \in TaskNames : status'[<<e, n>>] = status[<<e, n>>]
  <1>1. t[1] \in Executions /\ t[2] \in TaskNames /\ t = <<t[1], t[2]>>
    BY DEF Tasks
  <1>2. status'[t] = s /\ \A u \in Tasks \ {t} : status'[u] = status[u]
    BY Zenon DEF StoreTypeOK
  <1>3. \A e \in Executions \ {t[1]} : \A n \in TaskNames : <<e, n>> \in Tasks \ {t}
    BY <1>1 DEF Tasks
  <1> QED
    BY <1>1, <1>2, <1>3, Zenon

LEMMA WorkSteps ==
  ASSUME TypeOK, RunningExecutionHasWork, [Next]_vars
  PROVE  RunningExecutionHasWork'
  <1>0. StoreTypeOK
    BY Zenon DEF TypeOK
  <1>1. CASE UNCHANGED <<exec, status>>
    BY <1>1, Zenon DEF RunningExecutionHasWork, Open
  <1>a. ASSUME NEW t \in Tasks, NEW s, status' = [status EXCEPT ![t] = s], NEW x,
               exec' = exec \/ exec' = [exec EXCEPT ![t[1]] = x],
               s \in {"pending", "running"} \/ (exec' = [exec EXCEPT ![t[1]] = x] /\ x # "running")
        PROVE  RunningExecutionHasWork'
    <2>1. /\ status'[t] = s /\ t[1] \in Executions /\ t[2] \in TaskNames /\ t = <<t[1], t[2]>>
          /\ \A e \in Executions \ {t[1]} : \A n \in TaskNames : status'[<<e, n>>] = status[<<e, n>>]
      BY <1>0, <1>a, OneStatus, Zenon
    <2>2. /\ \A e \in Executions \ {t[1]} : exec'[e] = exec[e]
          /\ exec' = [exec EXCEPT ![t[1]] = x] => exec'[t[1]] = x
      BY <1>0, <1>a, <2>1, Zenon DEF StoreTypeOK
    <2>3. exec'[t[1]] = "running" => \E n \in TaskNames : Open(<<t[1], n>>)'
      BY <1>a, <2>1, <2>2, Zenon DEF Open
    <2> QED
      BY <2>1, <2>2, <2>3, WorkFrame, Zenon
  <1>2. ASSUME NEW e \in Executions, CreateExecutionAndTask(e) PROVE RunningExecutionHasWork'
    <2>1. <<e, EntryTask>> \in Tasks /\ <<e, EntryTask>>[1] = e
      BY DefinitionAssumption, Zenon DEF Tasks
    <2> QED
      BY <1>2, <1>a, <2>1, Zenon DEF CreateExecutionAndTask
  <1>3. ASSUME NEW t \in Tasks, ReplayDeadLetteredTask(t) PROVE RunningExecutionHasWork'
    BY <1>3, <1>a, Zenon DEF ReplayDeadLetteredTask
  <1>4. ASSUME NEW w \in Workers, BeginAttempt(w) PROVE RunningExecutionHasWork'
    <2>1. PICK m \in batch[w] : StartTaskAttempt(stream[m])
      BY <1>4, Zenon DEF BeginAttempt
    <2>2. stream[m] \in Tasks
      BY DEF TypeOK, WorkerTypeOK
    <2> QED
      BY <1>a, <2>1, <2>2, Zenon DEF StartTaskAttempt
  <1>5. ASSUME NEW w \in Workers, RetryAttempt(w) \/ FailAttempt(w) \/ CompleteAttempt(w)
        PROVE  RunningExecutionHasWork'
    <2>1. PICK t : t = TaskOf(w)
      BY Zenon
    <2> QED
      BY <1>5, <1>a, <2>1, OutcomeStatuses, SMTT(30)
  <1>6. ASSUME NEW w \in Workers, CompleteAndEnqueueNext(w) PROVE RunningExecutionHasWork'
    <2>1. PICK t : t = TaskOf(w)
      BY Zenon
    <2>2. /\ t \in Tasks /\ t[1] \in Executions /\ t[2] \in TaskNames /\ t = <<t[1], t[2]>>
          /\ NextTask[t[2]] # NoTask /\ exec' = exec
          /\ status' = [status EXCEPT ![t] = "succeeded", ![Successor(t)] = "pending"]
      BY <1>6, <2>1, OutcomeStatuses, Zenon
    <2>3. Successor(t) \in Tasks /\ Successor(t)[1] = t[1] /\ Successor(t) # t
      BY <2>2, SuccessorIsTask, Zenon
    <2>4. /\ status'[Successor(t)] = "pending"
          /\ \A u \in Tasks \ {t, Successor(t)} : status'[u] = status[u]
      BY <1>0, <2>2, <2>3, Zenon DEF StoreTypeOK
    <2>5. Successor(t) = <<t[1], NextTask[t[2]]>> /\ NextTask[t[2]] \in TaskNames
      BY <2>2, DefinitionAssumption, Zenon DEF Successor
    <2>6. \A e \in Executions \ {t[1]} : \A n \in TaskNames : <<e, n>> \in Tasks \ {t, Successor(t)}
      BY <2>2, <2>3 DEF Tasks
    <2>7. Open(<<t[1], NextTask[t[2]]>>)'
      BY <2>4, <2>5, Zenon DEF Open
    <2> QED
      BY <2>2, <2>4, <2>5, <2>6, <2>7, WorkFrame, Zenon
  <1> QED
    BY <1>1, <1>2, <1>3, <1>4, <1>5, <1>6, StatusSteps, Zenon DEF StatusStep

(* No order of completions, failures and replays leaves an execution       *)
(* running with nothing left to do: for any definition, cyclic ones        *)
(* included, any number of workers and publishers and any failures.        *)
THEOREM RunningExecutionHasWorkHolds == Spec => []RunningExecutionHasWork
  <1>1. Init => RunningExecutionHasWork
    BY Zenon DEF Init, StoreInit, RunningExecutionHasWork
  <1>2. TypeOK /\ RunningExecutionHasWork /\ [Next]_vars => RunningExecutionHasWork'
    BY WorkSteps, Zenon
  <1> QED
    BY <1>1, <1>2, TypeCorrect, PTL DEF Spec

-----------------------------------------------------------------------------
(* One worker: its crashes and its messages that come again included, an   *)
(* execution has one task at most that has not succeeded.                  *)

Unfinished(t) == status[t] \in {"pending", "running", "dead_lettered"}

(* The execution's status follows the one task that has not succeeded. *)
AtMostOneUnfinished ==
  \A t \in Tasks :
    /\ status[t] # "none" => exec[t[1]] # "none"
    /\ Open(t) => exec[t[1]] = "running"
    /\ status[t] = "dead_lettered" => exec[t[1]] = "failed"
    /\ \A u \in Tasks : t[1] = u[1] /\ Unfinished(t) /\ Unfinished(u) => t = u

(* The task a worker is on is shown as running. *)
RunningIsShown == \A w \in Workers : phase[w] = "running" => status[TaskOf(w)] = "running"

(* The inductive invariant behind ImplementsLifecycle. *)
OneUnfinished == AtMostOneUnfinished /\ RunningIsShown

(* Only execution e changes, and of its tasks all but t are new or done. *)
LEMMA UnfinishedMove ==
  ASSUME StoreTypeOK, AtMostOneUnfinished, NEW t \in Tasks, NEW e, e = t[1],
         \A d \in Executions \ {e} : exec'[d] = exec[d],
         \A u \in Tasks : u[1] # e => status'[u] = status[u],
         exec'[e] # "none",
         Open(t)' => exec'[e] = "running",
         status'[t] = "dead_lettered" => exec'[e] = "failed",
         \A u \in Tasks \ {t} : u[1] = e => status'[u] \in {"none", "succeeded"}
  PROVE  AtMostOneUnfinished'
  <1> SUFFICES ASSUME NEW u \in Tasks
               PROVE  /\ status'[u] # "none" => exec'[u[1]] # "none"
                      /\ Open(u)' => exec'[u[1]] = "running"
                      /\ status'[u] = "dead_lettered" => exec'[u[1]] = "failed"
                      /\ \A v \in Tasks : u[1] = v[1] /\ Unfinished(u)' /\ Unfinished(v)' => u = v
    BY Zenon DEF AtMostOneUnfinished, Open, Unfinished
  <1>1. u[1] \in Executions
    BY Zenon DEF Tasks
  <1>2. CASE u[1] # e
    <2>1. exec'[u[1]] = exec[u[1]] /\ \A v \in Tasks : u[1] = v[1] => status'[v] = status[v]
      BY <1>1, <1>2, Zenon
    <2> QED
      BY <1>2, <2>1 DEF AtMostOneUnfinished, Open, Unfinished
  <1>3. CASE u[1] = e
    BY <1>3, Zenon DEF Open, Unfinished
  <1> QED
    BY <1>2, <1>3, Zenon

(* A task of the same execution as an unfinished one. *)
LEMMA OthersFinished ==
  ASSUME StoreTypeOK, AtMostOneUnfinished, NEW t \in Tasks, Unfinished(t),
         NEW u \in Tasks \ {t}, u[1] = t[1]
  PROVE  status[u] \in {"none", "succeeded"}
  <1>1. ~Unfinished(u)
    BY Zenon DEF AtMostOneUnfinished
  <1>2. status[u] \in {"none", "pending", "running", "succeeded", "dead_lettered"}
    BY Zenon DEF StoreTypeOK, TaskStatus
  <1> QED
    BY <1>1, <1>2, Zenon DEF Unfinished

(* What each step that changes a status finds and leaves. *)
LEMMA CreateUnfinished ==
  ASSUME StoreTypeOK, AtMostOneUnfinished, NEW e \in Executions, CreateExecutionAndTask(e)
  PROVE  AtMostOneUnfinished' /\ Lifecycle!Create(e)
  <1>1. PICK t : t = <<e, EntryTask>>
    BY Zenon
  <1>2. t \in Tasks /\ e = t[1]
    BY <1>1, DefinitionAssumption, Zenon DEF Tasks
  <1>3. exec[e] = "none" /\ exec' = [exec EXCEPT ![e] = "running"] /\ status' = [status EXCEPT ![t] = "pending"]
    BY <1>1, Zenon DEF CreateExecutionAndTask
  <1>4. \A u \in Tasks : u[1] = e => status[u] = "none"
    BY <1>3, Zenon DEF AtMostOneUnfinished
  <1>5. /\ \A d \in Executions \ {e} : exec'[d] = exec[d]
        /\ exec'[e] = "running"
    BY <1>3, Zenon DEF StoreTypeOK
  <1>6. status'[t] = "pending" /\ \A u \in Tasks \ {t} : status'[u] = status[u]
    BY <1>2, <1>3, OneStatus, Zenon
  <1>7. \A u \in Tasks : u[1] # e => status'[u] = status[u]
    BY <1>2, <1>6, Zenon
  <1>8. \A u \in Tasks \ {t} : u[1] = e => status'[u] \in {"none", "succeeded"}
    BY <1>4, <1>6, Zenon
  <1>9. AtMostOneUnfinished'
    BY <1>2, <1>5, <1>6, <1>7, <1>8, UnfinishedMove
  <1> QED
    BY <1>1, <1>3, <1>9, Zenon DEF Lifecycle!Create

(* One task that was unfinished moves to status s. *)
LEMMA MoveUnfinished ==
  ASSUME StoreTypeOK, AtMostOneUnfinished, NEW t \in Tasks, Unfinished(t), NEW s, NEW x,
         status' = [status EXCEPT ![t] = s], exec' = [exec EXCEPT ![t[1]] = x],
         \/ s \in {"pending", "running"} /\ x = "running"
         \/ s = "dead_lettered" /\ x = "failed"
         \/ s = "succeeded" /\ x \in {"running", "succeeded"}
  PROVE  AtMostOneUnfinished'
  <1>1. PICK e : e = t[1]
    BY Zenon
  <1>2. e \in Executions
    BY <1>1, Zenon DEF Tasks
  <1>3. exec'[e] = x /\ \A d \in Executions \ {e} : exec'[d] = exec[d]
    BY <1>1, <1>2, Zenon DEF StoreTypeOK
  <1>4. status'[t] = s /\ \A u \in Tasks \ {t} : status'[u] = status[u]
    BY OneStatus, Zenon
  <1>5. \A u \in Tasks : u[1] # e => status'[u] = status[u]
    BY <1>1, <1>4, Zenon
  <1>6. \A u \in Tasks \ {t} : u[1] = e => status'[u] \in {"none", "succeeded"}
    BY <1>1, <1>4, OthersFinished, Zenon
  <1>7. exec'[e] # "none" /\ (Open(t)' => exec'[e] = "running") /\ (status'[t] = "dead_lettered" => exec'[e] = "failed")
    BY <1>3, <1>4, Zenon DEF Open
  <1> QED
    BY <1>1, <1>3, <1>5, <1>6, <1>7, UnfinishedMove

LEMMA ReplayUnfinished ==
  ASSUME StoreTypeOK, AtMostOneUnfinished, NEW t \in Tasks, ReplayDeadLetteredTask(t)
  PROVE  AtMostOneUnfinished' /\ Lifecycle!Replay(t)
  <1>1. /\ status[t] = "dead_lettered" /\ status' = [status EXCEPT ![t] = "pending"]
        /\ exec' = [exec EXCEPT ![t[1]] = "running"]
    BY Zenon DEF ReplayDeadLetteredTask
  <1>2. exec[t[1]] = "failed" /\ Unfinished(t)
    BY <1>1, Zenon DEF AtMostOneUnfinished, Unfinished
  <1>3. AtMostOneUnfinished'
    BY <1>1, <1>2, MoveUnfinished, Zenon
  <1> QED
    BY <1>1, <1>2, <1>3, Zenon DEF Lifecycle!Replay

LEMMA StartUnfinished ==
  ASSUME StoreTypeOK, AtMostOneUnfinished, NEW t \in Tasks, status[t] # "none", StartTaskAttempt(t)
  PROVE  /\ AtMostOneUnfinished' /\ status'[t] = "running"
         /\ Lifecycle!Start(t) \/ UNCHANGED <<exec, status>>
  <1>1. status[t] \notin Terminal /\ status' = [status EXCEPT ![t] = "running"] /\ exec' = exec
    BY Zenon DEF StartTaskAttempt
  <1>2. status[t] \in {"pending", "running"}
    BY <1>1, Zenon DEF StoreTypeOK, TaskStatus, Terminal
  <1>3. exec[t[1]] = "running" /\ Unfinished(t) /\ t[1] \in Executions
    BY <1>2, Zenon DEF AtMostOneUnfinished, Open, Unfinished, Tasks
  <1>4. exec' = [exec EXCEPT ![t[1]] = "running"]
    BY <1>1, <1>3, Zenon DEF StoreTypeOK
  <1>5. AtMostOneUnfinished'
    BY <1>1, <1>3, <1>4, MoveUnfinished, Zenon
  <1>6. status'[t] = "running"
    BY <1>1, Zenon DEF StoreTypeOK
  <1>7. CASE status[t] = "pending"
    BY <1>1, <1>3, <1>5, <1>6, <1>7, Zenon DEF Lifecycle!Start, Lifecycle!Move
  <1>8. CASE status[t] = "running"
    <2>1. status' = status
      BY <1>1, <1>8, Zenon DEF StoreTypeOK
    <2> QED
      BY <1>1, <1>5, <1>6, <2>1, Zenon
  <1> QED
    BY <1>2, <1>7, <1>8, Zenon

(* The outcome of an attempt at a task shown as running. *)
LEMMA OutcomeUnfinished ==
  ASSUME TypeOK, AtMostOneUnfinished, NEW w \in Workers, NEW t, t = TaskOf(w), status[t] = "running",
         RetryAttempt(w) \/ FailAttempt(w) \/ CompleteAttempt(w) \/ CompleteAndEnqueueNext(w)
  PROVE  /\ AtMostOneUnfinished' /\ t \in Tasks
         /\ \/ Lifecycle!ScheduleRetry(t) \/ Lifecycle!DeadLetter(t) \/ Lifecycle!Finish(t)
            \/ Lifecycle!HandOver(t)
  <1>0. StoreTypeOK /\ t \in Tasks /\ t[1] \in Executions /\ t[2] \in TaskNames /\ t = <<t[1], t[2]>>
    BY OutcomeStatuses, Zenon DEF TypeOK
  <1>1. exec[t[1]] = "running" /\ Unfinished(t)
    BY <1>0, Zenon DEF AtMostOneUnfinished, Open, Unfinished
  <1>2. exec = [exec EXCEPT ![t[1]] = "running"]
    BY <1>0, <1>1, Zenon DEF StoreTypeOK
  <1>3. CASE RetryAttempt(w)
    <2>1. status' = [status EXCEPT ![t] = "pending"] /\ exec' = exec
      BY <1>3, OutcomeStatuses, Zenon
    <2>2. AtMostOneUnfinished'
      BY <1>0, <1>1, <1>2, <2>1, MoveUnfinished, Zenon
    <2> QED
      BY <1>0, <1>1, <2>1, <2>2, Zenon DEF Lifecycle!ScheduleRetry, Lifecycle!Move
  <1>4. CASE FailAttempt(w)
    <2>1. status' = [status EXCEPT ![t] = "dead_lettered"] /\ exec' = [exec EXCEPT ![t[1]] = "failed"]
      BY <1>4, OutcomeStatuses
    <2>2. AtMostOneUnfinished'
      BY <1>0, <1>1, <2>1, MoveUnfinished, Zenon
    <2> QED
      BY <1>0, <1>1, <2>1, <2>2, Zenon DEF Lifecycle!DeadLetter, Lifecycle!Move
  <1>5. CASE CompleteAttempt(w)
    <2>1. /\ NextTask[t[2]] = NoTask /\ status' = [status EXCEPT ![t] = "succeeded"]
          /\ exec' = [exec EXCEPT ![t[1]] = "succeeded"]
      BY <1>5, OutcomeStatuses, Zenon
    <2>2. AtMostOneUnfinished'
      BY <1>0, <1>1, <2>1, MoveUnfinished, Zenon
    <2> QED
      BY <1>0, <1>1, <2>1, <2>2, Zenon DEF Lifecycle!Finish, Lifecycle!Move
  <1>6. CASE CompleteAndEnqueueNext(w)
    <2>1. PICK u : u = Successor(t)
      BY Zenon
    <2>2. /\ NextTask[t[2]] # NoTask /\ exec' = exec /\ status[u] = "none"
          /\ status' = [status EXCEPT ![t] = "succeeded", ![u] = "pending"]
      BY <1>6, <2>1, OutcomeStatuses, Zenon
    <2>3. u \in Tasks /\ u[1] = t[1] /\ u # t
      BY <1>0, <2>1, <2>2, SuccessorIsTask, Zenon
    <2>4. /\ status'[u] = "pending" /\ status'[t] = "succeeded"
          /\ \A v \in Tasks \ {t, u} : status'[v] = status[v]
      BY <1>0, <2>2, <2>3, Zenon DEF StoreTypeOK
    <2>5. \A v \in Tasks \ {u} : v[1] = u[1] => status'[v] \in {"none", "succeeded"}
      BY <1>0, <1>1, <2>3, <2>4, OthersFinished
    <2>6. \A v \in Tasks : v[1] # u[1] => status'[v] = status[v]
      BY <2>3, <2>4, Zenon
    <2>7. exec'[u[1]] = "running" /\ \A d \in Executions \ {u[1]} : exec'[d] = exec[d]
      BY <1>1, <2>2, <2>3, Zenon
    <2>8. AtMostOneUnfinished'
      BY <1>0, <2>3, <2>4, <2>5, <2>6, <2>7, UnfinishedMove
    <2>9. u = <<t[1], NextTask[t[2]]>>
      BY <2>1, Zenon DEF Successor
    <2> QED
      BY <1>0, <1>1, <2>2, <2>8, <2>9, Zenon DEF Lifecycle!HandOver
  <1> QED
    BY <1>0, <1>3, <1>4, <1>5, <1>6, Zenon

(* No two workers run attempts of the same task. *)
SoleWorker ==
  \A v, w \in Workers : phase[v] = "running" /\ phase[w] = "running" /\ TaskOf(v) = TaskOf(w) => v = w

LEMMA LifecycleSteps ==
  ASSUME TypeOK, KnownTasks, SoleWorker, OneUnfinished, [Next]_vars
  PROVE  OneUnfinished' /\ [Lifecycle!LifecycleNext]_<<exec, status>>
  <1>0. StoreTypeOK /\ AtMostOneUnfinished /\ RunningIsShown
    BY Zenon DEF TypeOK, OneUnfinished
  <1>1. CASE UNCHANGED <<exec, status>> /\ MessagesStay /\ \A w \in Workers : StaysOrStops(w)
    <2>1. AtMostOneUnfinished'
      BY <1>0, <1>1, Zenon DEF AtMostOneUnfinished, Open, Unfinished
    <2>2. ASSUME NEW w \in Workers, phase'[w] = "running" PROVE status'[TaskOf(w)'] = "running"
      <3>1. phase[w] = "running" /\ msg'[w] = msg[w]
        BY <1>1, <2>2, Zenon DEF StaysOrStops
      <3>2. msg[w] \in 1 .. Len(stream)
        BY <3>1 DEF TypeOK, WorkerTypeOK
      <3>3. TaskOf(w)' = TaskOf(w)
        BY <1>1, <3>1, <3>2 DEF MessagesStay, TaskOf
      <3> QED
        BY <1>0, <1>1, <3>1, <3>3, Zenon DEF RunningIsShown
    <2> QED
      BY <1>1, <2>1, <2>2, Zenon DEF OneUnfinished, RunningIsShown
  (* A request: the worker is left alone, and so is the task it is on. *)
  <1>a. ASSUME UNCHANGED <<streamVars, workerVars>>, NEW t \in Tasks, status[t] # "running",
               NEW s, status' = [status EXCEPT ![t] = s]
        PROVE  RunningIsShown'
    <2> SUFFICES ASSUME NEW w \in Workers, phase'[w] = "running" PROVE status'[TaskOf(w)'] = "running"
      BY Zenon DEF RunningIsShown
    <2>1. phase[w] = "running" /\ TaskOf(w)' = TaskOf(w)
      BY <1>a, Zenon DEF workerVars, streamVars, TaskOf
    <2>2. TaskOf(w) \in Tasks /\ status[TaskOf(w)] = "running"
      BY <1>0, <2>1, TaskOfIsTask, Zenon DEF RunningIsShown
    <2> QED
      BY <1>0, <1>a, <2>1, <2>2, OneStatus
  <1>2. ASSUME NEW e \in Executions, CreateExecutionAndTask(e), UNCHANGED <<streamVars, workerVars>>
        PROVE  OneUnfinished' /\ [Lifecycle!LifecycleNext]_<<exec, status>>
    <2>1. AtMostOneUnfinished' /\ Lifecycle!Create(e)
      BY <1>0, <1>2, CreateUnfinished, Zenon
    <2>2. PICK t : t = <<e, EntryTask>>
      BY Zenon
    <2>3. t \in Tasks /\ t[1] = e
      BY <2>2, DefinitionAssumption, Zenon DEF Tasks
    <2>4. exec[e] = "none" /\ status' = [status EXCEPT ![t] = "pending"]
      BY <1>2, <2>2, Zenon DEF CreateExecutionAndTask
    <2>5. status[t] # "running"
      BY <1>0, <2>3, <2>4, Zenon DEF AtMostOneUnfinished
    <2>6. RunningIsShown'
      BY <1>2, <1>a, <2>3, <2>4, <2>5, Zenon
    <2> QED
      BY <2>1, <2>6, Zenon DEF OneUnfinished, Lifecycle!LifecycleNext
  <1>3. ASSUME NEW t \in Tasks, ReplayDeadLetteredTask(t), UNCHANGED <<streamVars, workerVars>>
        PROVE  OneUnfinished' /\ [Lifecycle!LifecycleNext]_<<exec, status>>
    <2>1. AtMostOneUnfinished' /\ Lifecycle!Replay(t)
      BY <1>0, <1>3, ReplayUnfinished, Zenon
    <2>2. status[t] # "running" /\ status' = [status EXCEPT ![t] = "pending"]
      BY <1>3, Zenon DEF ReplayDeadLetteredTask
    <2>3. RunningIsShown'
      BY <1>3, <1>a, <2>2, Zenon
    <2> QED
      BY <2>1, <2>3, Zenon DEF OneUnfinished, Lifecycle!LifecycleNext, Tasks
  <1>4. ASSUME NEW w \in Workers, BeginAttempt(w)
        PROVE  OneUnfinished' /\ [Lifecycle!LifecycleNext]_<<exec, status>>
    <2>1. PICK m \in batch[w] : /\ StartTaskAttempt(stream[m]) /\ stream' = stream
                                /\ msg' = [msg EXCEPT ![w] = m] /\ phase' = [phase EXCEPT ![w] = "running"]
      BY <1>4, Zenon DEF BeginAttempt, Begin, streamVars
    <2>2. PICK t : t = stream[m]
      BY Zenon
    <2>3. /\ m \in 1 .. Len(stream) /\ t \in Tasks /\ msg'[w] = m
          /\ \A v \in Workers \ {w} : msg'[v] = msg[v] /\ phase'[v] = phase[v]
      BY <2>1, <2>2 DEF TypeOK, WorkerTypeOK
    <2>4. status[t] # "none"
      BY <2>2, <2>3, Zenon DEF KnownTasks
    <2>5. /\ AtMostOneUnfinished' /\ status'[t] = "running"
          /\ Lifecycle!Start(t) \/ UNCHANGED <<exec, status>>
      BY <1>0, <2>1, <2>2, <2>3, <2>4, StartUnfinished, Zenon
    <2>6. TaskOf(w)' = t /\ \A v \in Workers \ {w} : TaskOf(v)' = TaskOf(v)
      BY <2>1, <2>2, <2>3, Zenon DEF TaskOf
    <2>7. \A u \in Tasks \ {t} : status'[u] = status[u]
      BY <1>0, <2>1, <2>2, <2>3, OneStatus, Zenon DEF StartTaskAttempt
    <2>8. \A v \in Workers \ {w} : phase[v] = "running" => TaskOf(v) \in Tasks
      BY TaskOfIsTask, Zenon
    <2>9. RunningIsShown'
      BY <1>0, <2>3, <2>5, <2>6, <2>7, <2>8 DEF RunningIsShown
    <2> QED
      BY <2>3, <2>5, <2>9, Zenon DEF OneUnfinished, Lifecycle!LifecycleNext, Tasks
  <1>5. ASSUME NEW w \in Workers,
               RetryAttempt(w) \/ FailAttempt(w) \/ CompleteAttempt(w) \/ CompleteAndEnqueueNext(w)
        PROVE  OneUnfinished' /\ [Lifecycle!LifecycleNext]_<<exec, status>>
    <2>1. PICK t : t = TaskOf(w)
      BY Zenon
    <2>2. /\ phase[w] = "running" /\ phase'[w] = "ack" /\ stream' = stream /\ msg' = msg
          /\ \A v \in Workers \ {w} : phase'[v] = phase[v]
      BY <1>5, <2>1, OutcomeStatuses, Zenon
    <2>3. status[t] = "running"
      BY <1>0, <2>1, <2>2, Zenon DEF RunningIsShown
    <2>4. /\ AtMostOneUnfinished' /\ t \in Tasks
          /\ \/ Lifecycle!ScheduleRetry(t) \/ Lifecycle!DeadLetter(t) \/ Lifecycle!Finish(t)
             \/ Lifecycle!HandOver(t)
      BY <1>0, <1>5, <2>1, <2>3, OutcomeUnfinished, Zenon
    <2>5. \A u \in Tasks \ {t} : status[u] = "running" => status'[u] = "running"
      <3>1. CASE RetryAttempt(w) \/ FailAttempt(w) \/ CompleteAttempt(w)
        BY <1>0, <2>1, <2>4, <3>1, OutcomeStatuses, OneStatus
      <3>2. CASE CompleteAndEnqueueNext(w)
        <4>1. PICK u : u = Successor(t)
          BY Zenon
        <4>2. /\ status[u] = "none" /\ NextTask[t[2]] # NoTask
              /\ status' = [status EXCEPT ![t] = "succeeded", ![u] = "pending"]
          BY <2>1, <3>2, <4>1, OutcomeStatuses, Zenon
        <4>3. u \in Tasks
          BY <2>4, <4>1, <4>2, SuccessorIsTask, Zenon
        <4> QED
          BY <1>0, <2>4, <4>2, <4>3, Zenon DEF StoreTypeOK
      <3> QED
        BY <1>5, <3>1, <3>2, Zenon
    <2>6. \A v \in Workers \ {w} : phase[v] = "running" => TaskOf(v) \in Tasks \ {t}
      BY <2>1, <2>2, TaskOfIsTask, Zenon DEF SoleWorker
    <2>7. \A v \in Workers : TaskOf(v)' = TaskOf(v)
      BY <2>2, Zenon DEF TaskOf
    <2>8. RunningIsShown'
      BY <1>0, <2>2, <2>5, <2>6, <2>7, Zenon DEF RunningIsShown
    <2> QED
      BY <2>4, <2>8, Zenon DEF OneUnfinished, Lifecycle!LifecycleNext, Tasks
  <1> QED
    BY <1>1, <1>2, <1>3, <1>4, <1>5, StatusSteps, Zenon DEF StatusStep

(* A succeeded task stays so under every step that keeps to the lifecycle. *)
LEMMA SucceededStays ==
  ASSUME AtMostOneUnfinished, [Lifecycle!LifecycleNext]_<<exec, status>>, StoreTypeOK,
         NEW t \in Tasks, status[t] = "succeeded"
  PROVE  status'[t] = "succeeded"
  <1>1. CASE UNCHANGED <<exec, status>>
    BY <1>1, Zenon
  <1>2. ASSUME NEW e \in Executions, Lifecycle!Create(e) PROVE status'[t] = "succeeded"
    <2>1. exec[e] = "none" /\ status' = [status EXCEPT ![<<e, EntryTask>>] = "pending"]
      BY <1>2, Zenon DEF Lifecycle!Create
    <2>2. t # <<e, EntryTask>>
      BY <2>1, Zenon DEF AtMostOneUnfinished
    <2> QED
      BY <2>1, <2>2, Zenon DEF StoreTypeOK
  <1>3. ASSUME NEW u \in Executions \X TaskNames,
               \/ Lifecycle!Start(u) \/ Lifecycle!ScheduleRetry(u) \/ Lifecycle!DeadLetter(u)
               \/ Lifecycle!Finish(u) \/ Lifecycle!Replay(u)
        PROVE  status'[t] = "succeeded"
    <2>1. status[u] # "succeeded" /\ \E s : status' = [status EXCEPT ![u] = s]
      BY <1>3, Zenon DEF Lifecycle!Start, Lifecycle!ScheduleRetry, Lifecycle!DeadLetter, Lifecycle!Finish, Lifecycle!Replay,
                  Lifecycle!Move
    <2> QED
      BY <2>1, Zenon DEF StoreTypeOK
  <1>4. ASSUME NEW u \in Executions \X TaskNames, Lifecycle!HandOver(u) PROVE status'[t] = "succeeded"
    BY <1>4, Zenon DEF Lifecycle!HandOver, StoreTypeOK
  <1> QED
    BY <1>1, <1>2, <1>3, <1>4, Zenon DEF Lifecycle!LifecycleNext

LEMMA OneUnfinishedHolds ==
  ASSUME \A v, w \in Workers : v = w
  PROVE  Spec => []OneUnfinished
  <1>1. Init => OneUnfinished
    BY DEF Init, StoreInit, WorkerInit, OneUnfinished, AtMostOneUnfinished, RunningIsShown, Open, Unfinished, Tasks
  <1>2. TypeOK /\ KnownTasks /\ OneUnfinished /\ [Next]_vars => OneUnfinished'
    BY LifecycleSteps, Zenon DEF SoleWorker
  <1> QED
    BY <1>1, <1>2, TypeCorrect, KnownTasksHold, PTL DEF Spec

(* With one worker every step of every process, through crashes, messages  *)
(* that come again, slow handlers and any number of publishers, moves the  *)
(* statuses as the lifecycle of ARCHITECTURE.md does or leaves them alone: *)
(* for any definition, cyclic ones included.                               *)
THEOREM ImplementsLifecycleHolds ==
  ASSUME \A v, w \in Workers : v = w
  PROVE  Spec => ImplementsLifecycle
  <1>1. Init => Lifecycle!LifecycleInit
    BY Zenon DEF Init, StoreInit, Lifecycle!LifecycleInit, Tasks
  <1>2. TypeOK /\ KnownTasks /\ OneUnfinished /\ [Next]_vars => [Lifecycle!LifecycleNext]_<<exec, status>>
    BY LifecycleSteps, Zenon DEF SoleWorker
  <1> QED
    BY <1>1, <1>2, TypeCorrect, KnownTasksHold, OneUnfinishedHolds, PTL
       DEF Spec, ImplementsLifecycle, Lifecycle!LifecycleSpec, Lifecycle!lifecycleVars

(* With one worker a task that has succeeded stays so.  SucceededIsFinal   *)
(* fails with two workers, so it takes overlapping attempts to undo a      *)
(* success; no failure or repeated message does it alone.                  *)
THEOREM SucceededIsFinalForOneWorker ==
  ASSUME \A v, w \in Workers : v = w
  PROVE  Spec => SucceededIsFinal
  <1> DEFINE Stays == \A t \in Tasks : status[t] = "succeeded" => status'[t] = "succeeded"
  <1>1. TypeOK /\ KnownTasks /\ OneUnfinished /\ [Next]_vars => Stays
    <2> SUFFICES ASSUME TypeOK, KnownTasks, OneUnfinished, [Next]_vars PROVE Stays
      BY Zenon
    <2>1. [Lifecycle!LifecycleNext]_<<exec, status>>
      BY LifecycleSteps, Zenon DEF SoleWorker
    <2> QED
      BY <2>1, SucceededStays, Zenon DEF OneUnfinished, TypeOK
  <1> QED
    BY <1>1, TypeCorrect, KnownTasksHold, OneUnfinishedHolds, PTL DEF Spec, SucceededIsFinal

-----------------------------------------------------------------------------
(* The definition is a chain, as README.md describes it, not a loop: tasks  *)
(* can be numbered so that next_task always goes up.                        *)
Ordered(rank) ==
  /\ rank \in [TaskNames -> Nat]
  /\ \A n \in TaskNames : NextTask[n] # NoTask => rank[n] < rank[NextTask[n]]

(* The task that has not succeeded is the furthest of its execution, so     *)
(* the row of its next task is free.                                        *)
InOrder(rank) ==
  \A t, u \in Tasks : t[1] = u[1] /\ Unfinished(t) /\ status[u] # "none" => rank[u[2]] <= rank[t[2]]

LEMMA InOrderSteps ==
  ASSUME NEW rank, Ordered(rank), StoreTypeOK, AtMostOneUnfinished, InOrder(rank),
         [Lifecycle!LifecycleNext]_<<exec, status>>
  PROVE  InOrder(rank)'
  <1>0. \A n \in TaskNames : rank[n] \in Nat
    BY Zenon DEF Ordered
  <1>1. CASE UNCHANGED <<exec, status>>
    BY <1>1, Zenon DEF InOrder, Unfinished
  <1>2. ASSUME NEW e \in Executions, Lifecycle!Create(e) PROVE InOrder(rank)'
    <2>1. exec[e] = "none" /\ status' = [status EXCEPT ![<<e, EntryTask>>] = "pending"]
      BY <1>2, Zenon DEF Lifecycle!Create
    <2>2. \A u \in Tasks : u[1] = e => status[u] = "none"
      BY <2>1, Zenon DEF AtMostOneUnfinished
    <2>3. \A u \in Tasks : u # <<e, EntryTask>> => status'[u] = status[u]
      BY <2>1, Zenon DEF StoreTypeOK
    <2> SUFFICES ASSUME NEW t \in Tasks, NEW u \in Tasks, t[1] = u[1], Unfinished(t)', status'[u] # "none"
                 PROVE  rank[u[2]] <= rank[t[2]]
      BY Zenon DEF InOrder
    <2>4. rank[u[2]] \in Nat
      BY <1>0, Zenon DEF Tasks
    <2>5. CASE t[1] = e
      <3>1. t = <<e, EntryTask>>
        BY <2>2, <2>3, <2>5, Zenon DEF Unfinished
      <3>2. u = <<e, EntryTask>>
        BY <2>2, <2>3, <2>5, Zenon
      <3> QED
        BY <2>4, <3>1, <3>2
    <2>6. CASE t[1] # e
      <3>1. status'[t] = status[t] /\ status'[u] = status[u]
        BY <2>3, <2>6
      <3> QED
        BY <3>1, Zenon DEF InOrder, Unfinished
    <2> QED
      BY <2>5, <2>6, Zenon
  <1>3. ASSUME NEW v \in Tasks,
               \/ Lifecycle!Start(v) \/ Lifecycle!ScheduleRetry(v) \/ Lifecycle!DeadLetter(v)
               \/ Lifecycle!Finish(v) \/ Lifecycle!Replay(v)
        PROVE  InOrder(rank)'
    <2>1. Unfinished(v) /\ status[v] # "none" /\ \E s : status' = [status EXCEPT ![v] = s]
      BY <1>3, Zenon DEF Lifecycle!Start, Lifecycle!ScheduleRetry, Lifecycle!DeadLetter, Lifecycle!Finish, Lifecycle!Replay,
                  Lifecycle!Move, Unfinished
    <2>2. \A u \in Tasks : u # v => status'[u] = status[u]
      BY <2>1, Zenon DEF StoreTypeOK
    <2>3. \A u \in Tasks : (Unfinished(u)' => Unfinished(u)) /\ (status'[u] # "none" => status[u] # "none")
      BY <2>1, <2>2, Zenon DEF Unfinished
    <2> QED
      BY <2>3, Zenon DEF InOrder
  <1>4. ASSUME NEW v \in Tasks, Lifecycle!HandOver(v) PROVE InOrder(rank)'
    <2>1. PICK n : n = Successor(v)
      BY Zenon
    <2>2. /\ NextTask[v[2]] # NoTask /\ status[v] = "running" /\ status[n] = "none"
          /\ status' = [status EXCEPT ![v] = "succeeded", ![n] = "pending"]
      BY <1>4, <2>1, Zenon DEF Lifecycle!HandOver, Successor
    <2>3. n \in Tasks /\ n[1] = v[1] /\ n # v /\ n[2] = NextTask[v[2]]
      BY <2>1, <2>2, SuccessorIsTask, Zenon DEF Successor
    <2>4. /\ status'[v] = "succeeded" /\ status'[n] = "pending"
          /\ \A u \in Tasks : u # v /\ u # n => status'[u] = status[u]
      BY <2>2, <2>3, Zenon DEF StoreTypeOK
    <2>5. Unfinished(v) /\ status[v] # "none" /\ rank[v[2]] < rank[n[2]]
      BY <2>2, <2>3, Zenon DEF Unfinished, Ordered, Tasks
    <2> SUFFICES ASSUME NEW t \in Tasks, NEW u \in Tasks, t[1] = u[1], Unfinished(t)', status'[u] # "none"
                 PROVE  rank[u[2]] <= rank[t[2]]
      BY Zenon DEF InOrder
    <2>6. rank[u[2]] \in Nat /\ rank[t[2]] \in Nat /\ rank[v[2]] \in Nat /\ rank[n[2]] \in Nat
      BY <1>0, <2>3, Zenon DEF Tasks
    <2>7. CASE t[1] # v[1]
      <3>1. status'[t] = status[t] /\ status'[u] = status[u]
        BY <2>3, <2>4, <2>7, Zenon
      <3> QED
        BY <3>1, Zenon DEF InOrder, Unfinished
    <2>8. CASE t[1] = v[1]
      <3>1. t = n
        <4>1. t # v
          BY <2>4, Zenon DEF Unfinished
        <4>2. t # n => status'[t] = status[t]
          BY <2>4, <4>1, Zenon
        <4>3. t # n => Unfinished(t)
          BY <4>2, Zenon DEF Unfinished
        <4> QED
          BY <2>5, <2>8, <4>1, <4>3, Zenon DEF AtMostOneUnfinished
      <3>2. u # n => rank[u[2]] <= rank[v[2]]
        <4>1. u # n => status[u] # "none"
          BY <2>4, <2>5, Zenon
        <4> QED
          BY <2>5, <2>8, <4>1, Zenon DEF InOrder
      <3> QED
        BY <2>5, <2>6, <3>1, <3>2
    <2> QED
      BY <2>7, <2>8, Zenon
  <1> QED
    BY <1>1, <1>2, <1>3, <1>4, Zenon DEF Lifecycle!LifecycleNext, Tasks

(* A worker finds the row of the next task taken only out of order. *)
LEMMA NextRowIsFree ==
  ASSUME NEW rank, Ordered(rank), TypeOK, RunningIsShown, InOrder(rank), NEW w \in Workers
  PROVE  ~EnqueueNextConflicts(w)
  <1> SUFFICES ASSUME EnqueueNextConflicts(w) PROVE FALSE
    BY Zenon
  <1>1. PICK t : t = TaskOf(w)
    BY Zenon
  <1>2. PICK n : n = Successor(t)
    BY Zenon
  <1>3. phase[w] = "running" /\ NextTask[t[2]] # NoTask /\ status[n] # "none"
    BY <1>1, <1>2, Zenon DEF EnqueueNextConflicts
  <1>4. t \in Tasks /\ Unfinished(t)
    BY <1>1, <1>3, TaskOfIsTask, Zenon DEF RunningIsShown, Unfinished
  <1>5. n \in Tasks /\ n[1] = t[1] /\ n[2] = NextTask[t[2]] /\ t[2] \in TaskNames /\ n[2] \in TaskNames
    BY <1>2, <1>3, <1>4, SuccessorIsTask, Zenon DEF Successor, Tasks
  <1>6. rank[n[2]] <= rank[t[2]] /\ rank[t[2]] < rank[n[2]] /\ rank[n[2]] \in Nat /\ rank[t[2]] \in Nat
    BY <1>3, <1>4, <1>5, Zenon DEF InOrder, Ordered
  <1> QED
    BY <1>6

-----------------------------------------------------------------------------
(* An execution that does not exist has no tasks, and a task without a row *)
(* no attempts and no retry time.                                          *)
FreshTasks ==
  \A t \in Tasks : /\ exec[t[1]] = "none" => status[t] = "none"
                   /\ status[t] = "none" => attempts[t] = <<>> /\ nextRunAt[t] = "none"

LEMMA FreshSteps ==
  ASSUME TypeOK, KnownTasks, FreshTasks, [Next]_vars
  PROVE  FreshTasks'
  <1>0. StoreTypeOK
    BY Zenon DEF TypeOK
  (* Task t gets a status, in an execution that is there. *)
  <1>a. ASSUME NEW t \in Tasks, \A u \in Tasks \ {t} : status'[u] = status[u] /\ attempts'[u] = attempts[u],
               \A u \in Tasks \ {t} : nextRunAt'[u] = nextRunAt[u], status'[t] # "none",
               \A d \in Executions \ {t[1]} : exec'[d] = exec[d], exec'[t[1]] # "none"
        PROVE  FreshTasks'
    <2> SUFFICES ASSUME NEW u \in Tasks
                 PROVE  /\ exec'[u[1]] = "none" => status'[u] = "none"
                        /\ status'[u] = "none" => attempts'[u] = <<>> /\ nextRunAt'[u] = "none"
      BY Zenon DEF FreshTasks
    <2>1. u[1] \in Executions
      BY Zenon DEF Tasks
    <2> QED
      BY <1>a, <2>1 DEF FreshTasks
  <1>1. CASE /\ UNCHANGED <<exec, status, attempts>>
             /\ \A t \in Tasks : nextRunAt[t] = "none" => nextRunAt'[t] = "none"
    BY <1>1, Zenon DEF FreshTasks
  <1>2. ASSUME NEW e \in Executions, CreateExecutionAndTask(e) PROVE FreshTasks'
    <2>1. PICK t : t = <<e, EntryTask>>
      BY Zenon
    <2>2. t \in Tasks /\ t[1] = e
      BY <2>1, DefinitionAssumption, Zenon DEF Tasks
    <2>3. /\ exec' = [exec EXCEPT ![e] = "running"] /\ status' = [status EXCEPT ![t] = "pending"]
          /\ attempts' = attempts /\ nextRunAt' = nextRunAt
      BY <1>2, <2>1, Zenon DEF CreateExecutionAndTask
    <2> QED
      BY <1>0, <1>a, <2>2, <2>3, Zenon DEF StoreTypeOK
  <1>3. ASSUME NEW t \in Tasks, ReplayDeadLetteredTask(t) PROVE FreshTasks'
    <2>1. t[1] \in Executions
      BY Zenon DEF Tasks
    <2> QED
      BY <1>0, <1>3, <1>a, <2>1, Zenon DEF ReplayDeadLetteredTask, StoreTypeOK
  <1>4. ASSUME NEW w \in Workers, BeginAttempt(w) PROVE FreshTasks'
    <2>1. PICK m \in batch[w] : StartTaskAttempt(stream[m])
      BY <1>4, Zenon DEF BeginAttempt
    <2>2. PICK t : t = stream[m]
      BY Zenon
    <2>3. m \in 1 .. Len(stream) /\ t \in Tasks
      BY <2>2 DEF TypeOK, WorkerTypeOK
    <2>4. status[t] # "none" /\ exec[t[1]] # "none"
      BY <2>2, <2>3, Zenon DEF KnownTasks, FreshTasks
    <2> QED
      BY <1>0, <1>a, <2>1, <2>2, <2>3, <2>4, Zenon DEF StartTaskAttempt, StoreTypeOK
  <1>5. ASSUME NEW w \in Workers,
               RetryAttempt(w) \/ FailAttempt(w) \/ CompleteAttempt(w) \/ CompleteAndEnqueueNext(w)
        PROVE  FreshTasks'
    <2>1. PICK t : t = TaskOf(w)
      BY Zenon
    <2>2. phase[w] = "running" /\ t \in Tasks /\ t[1] \in Executions
      BY <1>5, <2>1, OutcomeStatuses, Zenon
    <2>3. msg[w] \in 1 .. Len(stream)
      BY <2>2, TaskOfIsTask, Zenon
    <2>4. status[t] # "none" /\ exec[t[1]] # "none"
      BY <2>1, <2>2, <2>3, Zenon DEF KnownTasks, FreshTasks, TaskOf
    <2>5. \E s \in AttemptStatus : attempts' = [attempts EXCEPT ![t][attempt[w]] = s]
      BY <1>5, <2>1, Zenon
         DEF RetryAttempt, FailAttempt, CompleteAttempt, CompleteAndEnqueueNext, ScheduleTaskRetry, FailTaskAttempt,
             CompleteTaskAttempt, CompleteTaskAttemptAndEnqueueNextTask, AttemptStatus
    <2>6. \A u \in Tasks \ {t} : attempts'[u] = attempts[u] /\ nextRunAt'[u] = nextRunAt[u]
      <3>1. nextRunAt' = nextRunAt \/ \E x : nextRunAt' = [nextRunAt EXCEPT ![t] = x]
        BY <1>5, <2>1, Zenon
           DEF RetryAttempt, FailAttempt, CompleteAttempt, CompleteAndEnqueueNext, ScheduleTaskRetry, FailTaskAttempt,
               CompleteTaskAttempt, CompleteTaskAttemptAndEnqueueNextTask
      <3> QED
        BY <1>0, <2>2, <2>5, <3>1, Zenon DEF StoreTypeOK
    <2>7. CASE RetryAttempt(w) \/ FailAttempt(w) \/ CompleteAttempt(w)
      <3>1. /\ \E s \in {"pending", "dead_lettered", "succeeded"} : status' = [status EXCEPT ![t] = s]
            /\ exec' = exec \/ \E x \in {"failed", "succeeded"} : exec' = [exec EXCEPT ![t[1]] = x]
        BY <2>1, <2>7, OutcomeStatuses, Zenon
      <3>2. /\ \A u \in Tasks \ {t} : status'[u] = status[u]
            /\ status'[t] # "none"
        BY <1>0, <2>2, <3>1, Zenon DEF StoreTypeOK
      <3>3. /\ \A d \in Executions \ {t[1]} : exec'[d] = exec[d]
            /\ exec'[t[1]] # "none"
        BY <1>0, <2>2, <2>4, <3>1, Zenon DEF StoreTypeOK
      <3> QED
        BY <1>a, <2>2, <2>6, <3>2, <3>3, Zenon
    <2>8. CASE CompleteAndEnqueueNext(w)
      <3>1. PICK u : u = Successor(t)
        BY Zenon
      <3>2. /\ NextTask[t[2]] # NoTask /\ exec' = exec
            /\ status' = [status EXCEPT ![t] = "succeeded", ![u] = "pending"]
        BY <2>1, <2>8, <3>1, OutcomeStatuses, Zenon
      <3>3. u \in Tasks /\ u[1] = t[1] /\ u # t
        BY <2>2, <3>1, <3>2, SuccessorIsTask, Zenon
      <3>4. /\ status'[t] = "succeeded" /\ status'[u] = "pending"
            /\ \A v \in Tasks \ {t, u} : status'[v] = status[v]
        BY <1>0, <2>2, <3>2, <3>3, Zenon DEF StoreTypeOK
      <3>5. ASSUME NEW v \in Tasks
            PROVE  /\ exec'[v[1]] = "none" => status'[v] = "none"
                   /\ status'[v] = "none" => attempts'[v] = <<>> /\ nextRunAt'[v] = "none"
        <4>1. CASE v \in {t, u}
          BY <2>4, <3>2, <3>3, <3>4, <4>1, Zenon
        <4>2. CASE v \notin {t, u}
          BY <2>6, <3>2, <3>4, <4>2, ZenonT(30) DEF FreshTasks
        <4> QED
          BY <4>1, <4>2, Zenon
      <3> QED
        BY <3>5, Zenon DEF FreshTasks
    <2> QED
      BY <1>5, <2>7, <2>8, Zenon
  <1> QED
    BY <1>1, <1>2, <1>3, <1>4, <1>5, StatusSteps, Zenon DEF StatusStep

LEMMA FreshHolds == Spec => []FreshTasks
  <1>1. Init => FreshTasks
    BY Zenon DEF Init, StoreInit, FreshTasks
  <1>2. TypeOK /\ KnownTasks /\ FreshTasks /\ [Next]_vars => FreshTasks'
    BY FreshSteps, Zenon
  <1> QED
    BY <1>1, <1>2, TypeCorrect, KnownTasksHold, PTL DEF Spec
=============================================================================
