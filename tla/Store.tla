------------------------------- MODULE Store -------------------------------
(***************************************************************************)
(* The PostgreSQL side of the engine (internal/db/store.go): executions,   *)
(* task instances, task attempts and the transactional outbox, with one    *)
(* operator per transaction.  A transaction takes the row lock it needs    *)
(* and commits or rolls back as a whole, so each is one atomic step.       *)
(*                                                                         *)
(* A task instance is identified by its execution and its task name: the   *)
(* unique idempotency key "<execution>:<task name>" allows at most one row *)
(* for the pair.  Payloads, outputs, error texts and time stamps other     *)
(* than next_run_at are left out.                                          *)
(***************************************************************************)
EXTENDS Naturals, Sequences, FiniteSets

CONSTANTS
  Executions,   \* the workflow executions that may be triggered
  TaskNames,    \* the task names of the workflow definition
  EntryTask,    \* its entry_task
  NextTask,     \* next_task of every task, or NoTask
  NoTask,       \* "no next_task"
  AttemptCap,   \* bound: attempts one task may start
  ReplayCap     \* bound: manual replays in one behaviour

ASSUME DefinitionAssumption ==
  /\ EntryTask \in TaskNames
  /\ NoTask \notin TaskNames
  /\ NextTask \in [TaskNames -> TaskNames \cup {NoTask}]
  /\ \A n \in TaskNames : NextTask[n] # n

ASSUME StoreBoundAssumption == AttemptCap \in Nat /\ ReplayCap \in Nat

VARIABLES
  exec,        \* workflow_executions.status
  status,      \* task_instances.status, "none" before the row is inserted
  nextRunAt,   \* task_instances.next_run_at: NULL, in the future, or due
  attempts,    \* task_attempts.status by attempt number; attempts_total is
               \* the length: StartTaskAttempt alone writes both, in one
               \* transaction
  outbox,      \* outbox_events of the task: "pending" until dispatched_at
  replays      \* manual replays so far

storeVars == <<exec, status, nextRunAt, attempts, outbox, replays>>

-----------------------------------------------------------------------------
Tasks == Executions \X TaskNames

ExecutionStatus == {"none", "running", "succeeded", "failed"}
TaskStatus      == {"none", "pending", "running", "succeeded", "dead_lettered"}
AttemptStatus   == {"running", "succeeded", "failed"}

(* The statuses for which a redelivered message is acknowledged unhandled. *)
Terminal == {"succeeded", "dead_lettered"}

(* The row the next task of t has, or would have, in t's execution. *)
Successor(t) == <<t[1], NextTask[t[2]]>>

(* The outbox events of t still without dispatched_at. *)
PendingEvents(t) == {k \in DOMAIN outbox[t] : outbox[t][k] = "pending"}

(* Rows the retry scan selects: pending, with a next_run_at that has come. *)
DueTasks == {t \in Tasks : status[t] = "pending" /\ nextRunAt[t] = "due"}

(* INSERT INTO outbox_events for every task in S. *)
InsertEvents(S) ==
  [t \in Tasks |-> IF t \in S THEN Append(outbox[t], "pending") ELSE outbox[t]]

StoreTypeOK ==
  /\ exec \in [Executions -> ExecutionStatus]
  /\ status \in [Tasks -> TaskStatus]
  /\ nextRunAt \in [Tasks -> {"none", "future", "due"}]
  /\ attempts \in [Tasks -> Seq(AttemptStatus)]
  /\ outbox \in [Tasks -> Seq({"pending", "dispatched"})]
  /\ replays \in Nat

StoreInit ==
  /\ exec = [e \in Executions |-> "none"]
  /\ status = [t \in Tasks |-> "none"]
  /\ nextRunAt = [t \in Tasks |-> "none"]
  /\ attempts = [t \in Tasks |-> <<>>]
  /\ outbox = [t \in Tasks |-> <<>>]
  /\ replays = 0

-----------------------------------------------------------------------------
(* Transactions run by the API process. *)

(* The execution, its entry task and the task's outbox event, together. *)
CreateExecutionAndTask(e) ==
  /\ exec[e] = "none"
  /\ exec' = [exec EXCEPT ![e] = "running"]
  /\ status' = [status EXCEPT ![<<e, EntryTask>>] = "pending"]
  /\ outbox' = InsertEvents({<<e, EntryTask>>})
  /\ UNCHANGED <<nextRunAt, attempts, replays>>

(* Faulty variant: any finished task may be replayed. *)
ReplayFinishedTask(t) ==
  /\ replays < ReplayCap
  /\ status[t] \in Terminal
  /\ status' = [status EXCEPT ![t] = "pending"]
  /\ nextRunAt' = [nextRunAt EXCEPT ![t] = "none"]
  /\ exec' = [exec EXCEPT ![t[1]] = "running"]
  /\ outbox' = InsertEvents({t})
  /\ replays' = replays + 1
  /\ UNCHANGED attempts

(* Faulty variant: the execution stays failed. *)
ReplayTaskOnly(t) ==
  /\ replays < ReplayCap
  /\ status[t] = "dead_lettered"
  /\ status' = [status EXCEPT ![t] = "pending"]
  /\ nextRunAt' = [nextRunAt EXCEPT ![t] = "none"]
  /\ outbox' = InsertEvents({t})
  /\ replays' = replays + 1
  /\ UNCHANGED <<exec, attempts>>

(* Only a dead-lettered task; the attempts it has used are kept. *)
ReplayDeadLetteredTask(t) ==
  /\ replays < ReplayCap
  /\ status[t] = "dead_lettered"
  /\ status' = [status EXCEPT ![t] = "pending"]
  /\ nextRunAt' = [nextRunAt EXCEPT ![t] = "none"]
  /\ exec' = [exec EXCEPT ![t[1]] = "running"]
  /\ outbox' = InsertEvents({t})
  /\ replays' = replays + 1
  /\ UNCHANGED attempts

(* Faulty variant: next_run_at is not cleared. *)
EnqueueDueTaskRetriesAgain(limit) ==
  \E S \in SUBSET DueTasks :
    /\ Cardinality(S) <= limit
    /\ S # DueTasks => Cardinality(S) = limit
    /\ outbox' = InsertEvents(S)
    /\ UNCHANGED <<exec, status, nextRunAt, attempts, replays>>

(* Due rows get an event and lose next_run_at.  The scan takes up to limit *)
(* rows, here any of the largest choices; a row SKIP LOCKED passes over is *)
(* one whose other transaction comes first.                                *)
EnqueueDueTaskRetries(limit) ==
  \E S \in SUBSET DueTasks :
    /\ Cardinality(S) <= limit
    /\ S # DueTasks => Cardinality(S) = limit
    /\ outbox' = InsertEvents(S)
    /\ nextRunAt' = [t \in Tasks |-> IF t \in S THEN "none" ELSE nextRunAt[t]]
    /\ UNCHANGED <<exec, status, attempts, replays>>

MarkOutboxDispatched(t, k) ==
  /\ outbox' = [outbox EXCEPT ![t][k] = "dispatched"]
  /\ UNCHANGED <<exec, status, nextRunAt, attempts, replays>>

-----------------------------------------------------------------------------
(* Transactions run by a worker for attempt n of task t.  None of those    *)
(* that record an outcome looks at the task's status or at which attempt   *)
(* is the latest.                                                          *)

(* Faulty variant: an abandoned running attempt is taken over. *)
ResumeTaskAttempt(t) ==
  /\ status[t] \notin Terminal
  /\ Len(attempts[t]) < AttemptCap
  /\ attempts' = IF status[t] = "running" THEN attempts
                 ELSE [attempts EXCEPT ![t] = Append(@, "running")]
  /\ status' = [status EXCEPT ![t] = "running"]
  /\ nextRunAt' = [nextRunAt EXCEPT ![t] = "none"]
  /\ UNCHANGED <<exec, outbox, replays>>

(* A new attempt, unless the task is terminal. *)
StartTaskAttempt(t) ==
  /\ status[t] \notin Terminal
  /\ Len(attempts[t]) < AttemptCap
  /\ attempts' = [attempts EXCEPT ![t] = Append(@, "running")]
  /\ status' = [status EXCEPT ![t] = "running"]
  /\ nextRunAt' = [nextRunAt EXCEPT ![t] = "none"]
  /\ UNCHANGED <<exec, outbox, replays>>

CompleteTaskAttempt(t, n) ==
  /\ attempts' = [attempts EXCEPT ![t][n] = "succeeded"]
  /\ status' = [status EXCEPT ![t] = "succeeded"]
  /\ exec' = [exec EXCEPT ![t[1]] = "succeeded"]
  /\ UNCHANGED <<nextRunAt, outbox, replays>>

(* Faulty variant: the attempt's own row is not updated. *)
EnqueueNextTaskOnly(t, n) ==
  /\ status[Successor(t)] = "none"
  /\ status' = [status EXCEPT ![t] = "succeeded", ![Successor(t)] = "pending"]
  /\ outbox' = InsertEvents({Successor(t)})
  /\ UNCHANGED <<exec, nextRunAt, attempts, replays>>

(* The unique idempotency key makes the insert of an existing row fail,    *)
(* and with it the whole transaction.                                      *)
CompleteTaskAttemptAndEnqueueNextTask(t, n) ==
  /\ status[Successor(t)] = "none"
  /\ attempts' = [attempts EXCEPT ![t][n] = "succeeded"]
  /\ status' = [status EXCEPT ![t] = "succeeded", ![Successor(t)] = "pending"]
  /\ outbox' = InsertEvents({Successor(t)})
  /\ UNCHANGED <<exec, nextRunAt, replays>>

(* Faulty variant: the task goes back to pending without a time. *)
ScheduleTaskRetryWithoutTime(t, n) ==
  /\ attempts' = [attempts EXCEPT ![t][n] = "failed"]
  /\ status' = [status EXCEPT ![t] = "pending"]
  /\ UNCHANGED <<exec, nextRunAt, outbox, replays>>

(* The time chosen is now plus the backoff: it comes due later. *)
ScheduleTaskRetry(t, n) ==
  /\ attempts' = [attempts EXCEPT ![t][n] = "failed"]
  /\ status' = [status EXCEPT ![t] = "pending"]
  /\ nextRunAt' = [nextRunAt EXCEPT ![t] = "future"]
  /\ UNCHANGED <<exec, outbox, replays>>

(* Faulty variant: the execution is not told. *)
FailTaskOnly(t, n) ==
  /\ attempts' = [attempts EXCEPT ![t][n] = "failed"]
  /\ status' = [status EXCEPT ![t] = "dead_lettered"]
  /\ nextRunAt' = [nextRunAt EXCEPT ![t] = "none"]
  /\ UNCHANGED <<exec, outbox, replays>>

(* Faulty variant: every attempt of the task is written, not the one. *)
FailAllAttempts(t, n) ==
  /\ attempts' = [attempts EXCEPT ![t] = [k \in DOMAIN @ |-> "failed"]]
  /\ status' = [status EXCEPT ![t] = "dead_lettered"]
  /\ nextRunAt' = [nextRunAt EXCEPT ![t] = "none"]
  /\ exec' = [exec EXCEPT ![t[1]] = "failed"]
  /\ UNCHANGED <<outbox, replays>>

(* The task is dead-lettered and its execution failed. *)
FailTaskAttempt(t, n) ==
  /\ attempts' = [attempts EXCEPT ![t][n] = "failed"]
  /\ status' = [status EXCEPT ![t] = "dead_lettered"]
  /\ nextRunAt' = [nextRunAt EXCEPT ![t] = "none"]
  /\ exec' = [exec EXCEPT ![t[1]] = "failed"]
  /\ UNCHANGED <<outbox, replays>>

-----------------------------------------------------------------------------
(* The clock passes next_run_at of a task. *)
BackoffElapses(t) ==
  /\ nextRunAt[t] = "future"
  /\ nextRunAt' = [nextRunAt EXCEPT ![t] = "due"]
  /\ UNCHANGED <<exec, status, attempts, outbox, replays>>

-----------------------------------------------------------------------------
(* The store by itself: transactions one after the other, each on the      *)
(* state the one before it left.  A retry scan that skips locked rows is a *)
(* scan of fewer rows, as if the time of the others had not yet come.      *)
StoreNext ==
  \/ \E e \in Executions : CreateExecutionAndTask(e)
  \/ \E t \in Tasks : ReplayDeadLetteredTask(t) \/ StartTaskAttempt(t) \/ BackoffElapses(t)
  \/ \E t \in Tasks : \E n \in DOMAIN attempts[t] :
       \/ NextTask[t[2]] = NoTask /\ CompleteTaskAttempt(t, n)
       \/ NextTask[t[2]] # NoTask /\ CompleteTaskAttemptAndEnqueueNextTask(t, n)
       \/ ScheduleTaskRetry(t, n)
       \/ FailTaskAttempt(t, n)
  \/ \E S \in SUBSET DueTasks :
       /\ outbox' = InsertEvents(S)
       /\ nextRunAt' = [t \in Tasks |-> IF t \in S THEN "none" ELSE nextRunAt[t]]
       /\ UNCHANGED <<exec, status, attempts, replays>>

StoreSpec == StoreInit /\ [][StoreNext]_storeVars
=============================================================================
