------------------------------- MODULE Worker -------------------------------
(***************************************************************************)
(* The worker processes: the consume loop of internal/queue/               *)
(* redis_streams.go around HandleDispatchedTask of internal/orchestrator/  *)
(* worker.go.  A worker claims idle messages, or reads one new message,    *)
(* and handles what it got one message at a time.  Handling is two         *)
(* transactions with the handler's run between them; the acknowledgement   *)
(* comes after the second.  A worker is in one of the phases               *)
(*   poll     about to ask for idle messages (XAUTOCLAIM)                  *)
(*   read     nothing was idle: waiting for a new message (XREADGROUP)     *)
(*   batch    holding messages, none of them started                       *)
(*   running  attempt started, its handler running                         *)
(*   ack      outcome recorded, or message skipped: about to XACK          *)
(***************************************************************************)
EXTENDS Store, RedisStreams

CONSTANTS
  Workers,         \* the worker processes
  MaxAttempts,     \* max_attempts of every task; 0 when not specified
  Registered,      \* the tasks whose handler_key is in the registry
  SlowWorkers,     \* may handling outlast ReclaimMinIdle?
  WorkerFaultCap   \* bound: worker crashes and failed calls

ASSUME WorkerAssumption ==
  /\ MaxAttempts \in [TaskNames -> Nat]
  /\ Registered \subseteq TaskNames
  /\ SlowWorkers \in BOOLEAN
  /\ WorkerFaultCap \in Nat

VARIABLES
  phase,          \* where each worker is
  batch,          \* messages it got and has not begun
  msg,            \* the message it is handling, 0 outside running and ack
  attempt,        \* the attempt number StartTaskAttempt gave it
  workerFaults    \* crashes and failed calls so far

workerVars == <<phase, batch, msg, attempt, workerFaults>>

WorkerTypeOK ==
  /\ stream \in Seq(Tasks)
  /\ delivered \in 0 .. Len(stream)
  /\ pel \subseteq 1 .. delivered
  /\ idle \subseteq pel
  /\ phase \in [Workers -> {"poll", "read", "batch", "running", "ack"}]
  /\ batch \in [Workers -> SUBSET (1 .. delivered)]
  /\ msg \in [Workers -> 0 .. delivered]
  /\ \A w \in Workers : phase[w] \in {"running", "ack"} => msg[w] # 0
  /\ attempt \in [Workers -> Nat]
  /\ workerFaults \in Nat

WorkerInit ==
  /\ phase = [w \in Workers |-> "poll"]
  /\ batch = [w \in Workers |-> {}]
  /\ msg = [w \in Workers |-> 0]
  /\ attempt = [w \in Workers |-> 0]
  /\ workerFaults = 0

-----------------------------------------------------------------------------
(* The messages worker w has been given and is not finished with. *)
Held(w) == batch[w] \cup (IF phase[w] \in {"running", "ack"} THEN {msg[w]} ELSE {})

(* The task of the message w is handling. *)
TaskOf(w) == stream[msg[w]]

(* max_attempts, 1 when it is left out. *)
AttemptBudget(n) == IF MaxAttempts[n] = 0 THEN 1 ELSE MaxAttempts[n]

(* The message processMessages takes next. *)
First(m, S) == m \in S /\ \A n \in S : m <= n

(* w is done with its current message; rest is what it still holds. *)
Advance(w, rest) ==
  /\ phase' = [phase EXCEPT ![w] = IF rest = {} THEN "poll" ELSE "batch"]
  /\ batch' = [batch EXCEPT ![w] = rest]
  /\ msg' = [msg EXCEPT ![w] = 0]
  /\ attempt' = [attempt EXCEPT ![w] = 0]

(* w begins message m; its next phase is p, its attempt n. *)
Begin(w, m, p, n) ==
  /\ phase' = [phase EXCEPT ![w] = p]
  /\ batch' = [batch EXCEPT ![w] = @ \ {m}]
  /\ msg' = [msg EXCEPT ![w] = m]
  /\ attempt' = [attempt EXCEPT ![w] = n]
  /\ UNCHANGED workerFaults

Receive(w, p, S) ==
  /\ phase' = [phase EXCEPT ![w] = p]
  /\ batch' = [batch EXCEPT ![w] = S]
  /\ UNCHANGED <<msg, attempt, workerFaults>>

-----------------------------------------------------------------------------
(* The consume loop. *)

(* Faulty variant: pending messages are never claimed. *)
ClaimNothing(w) ==
  /\ phase[w] = "poll"
  /\ Receive(w, "read", {})
  /\ UNCHANGED <<storeVars, streamVars>>

(* Idle messages come first; without any the worker goes on to read. *)
ClaimPending(w) ==
  /\ phase[w] = "poll"
  /\ \E S \in SUBSET idle :
       /\ AutoClaim(S)
       /\ Receive(w, IF S = {} THEN "read" ELSE "batch", S)
  /\ UNCHANGED storeVars

ReadNew(w) ==
  /\ phase[w] = "read"
  /\ ReadNext
  /\ Receive(w, "batch", {delivered + 1})
  /\ UNCHANGED storeVars

(* XREADGROUP blocked for its time and returned nothing. *)
ReadTimesOut(w) ==
  /\ phase[w] = "read"
  /\ Unread = {}
  /\ Receive(w, "poll", {})
  /\ UNCHANGED <<storeVars, streamVars>>

Ack(w) ==
  /\ phase[w] = "ack"
  /\ XAck(msg[w])
  /\ Advance(w, batch[w])
  /\ UNCHANGED <<storeVars, workerFaults>>

-----------------------------------------------------------------------------
(* HandleDispatchedTask. *)

BeginAttempt(w) ==
  /\ phase[w] = "batch"
  /\ \E m \in batch[w] :
       /\ First(m, batch[w])
       /\ StartTaskAttempt(stream[m])
       /\ Begin(w, m, "running", Len(attempts[stream[m]]) + 1)
  /\ UNCHANGED streamVars

SkipDuplicate(w) ==
  /\ phase[w] = "batch"
  /\ \E m \in batch[w] :
       /\ First(m, batch[w])
       /\ status[stream[m]] \in Terminal
       /\ Begin(w, m, "ack", 0)
  /\ UNCHANGED <<storeVars, streamVars>>

(* The transaction recording the outcome committed. *)
Recorded(w) ==
  /\ phase[w] = "running"
  /\ phase' = [phase EXCEPT ![w] = "ack"]
  /\ UNCHANGED <<batch, msg, attempt, workerFaults, streamVars>>

(* Faulty variant: >= for >. *)
RetryOnceMore(w) ==
  /\ Recorded(w)
  /\ TaskOf(w)[2] \in Registered
  /\ attempt[w] <= AttemptBudget(TaskOf(w)[2])
  /\ ScheduleTaskRetry(TaskOf(w), attempt[w])

(* The handler failed and the attempt was not the last one allowed. *)
RetryAttempt(w) ==
  /\ Recorded(w)
  /\ TaskOf(w)[2] \in Registered
  /\ attempt[w] < AttemptBudget(TaskOf(w)[2])
  /\ ScheduleTaskRetry(TaskOf(w), attempt[w])

(* No handler is registered, or it failed on the last attempt. *)
FailAttempt(w) ==
  /\ Recorded(w)
  /\ TaskOf(w)[2] \in Registered => attempt[w] >= AttemptBudget(TaskOf(w)[2])
  /\ FailTaskAttempt(TaskOf(w), attempt[w])

(* Faulty variant: the first task to succeed completes the execution. *)
CompleteAnyAttempt(w) ==
  /\ Recorded(w)
  /\ TaskOf(w)[2] \in Registered
  /\ CompleteTaskAttempt(TaskOf(w), attempt[w])

(* The handler succeeded and the task has no next_task. *)
CompleteAttempt(w) ==
  /\ Recorded(w)
  /\ TaskOf(w)[2] \in Registered
  /\ NextTask[TaskOf(w)[2]] = NoTask
  /\ CompleteTaskAttempt(TaskOf(w), attempt[w])

(* The handler succeeded and the task has a next_task. *)
CompleteAndEnqueueNext(w) ==
  /\ Recorded(w)
  /\ TaskOf(w)[2] \in Registered
  /\ NextTask[TaskOf(w)[2]] # NoTask
  /\ CompleteTaskAttemptAndEnqueueNextTask(TaskOf(w), attempt[w])

(* As above, but the next task exists already: the transaction fails and   *)
(* the message stays pending.                                              *)
EnqueueNextConflicts(w) ==
  /\ phase[w] = "running"
  /\ TaskOf(w)[2] \in Registered
  /\ NextTask[TaskOf(w)[2]] # NoTask
  /\ status[Successor(TaskOf(w))] # "none"
  /\ Advance(w, batch[w])
  /\ UNCHANGED <<storeVars, streamVars, workerFaults>>

-----------------------------------------------------------------------------
(* Failures. *)

(* HandleDispatchedTask returned an error: no XACK, on to the next message.*)
(* In batch the task could not be loaded or the attempt not started; in    *)
(* running the outcome was not recorded; in ack it was, but the reply to   *)
(* the commit was lost.                                                    *)
LeavePending(w) ==
  /\ workerFaults < WorkerFaultCap
  /\ \/ /\ phase[w] = "batch"
        /\ \E m \in batch[w] : First(m, batch[w]) /\ Advance(w, batch[w] \ {m})
     \/ /\ phase[w] \in {"running", "ack"}
        /\ Advance(w, batch[w])
  /\ workerFaults' = workerFaults + 1
  /\ UNCHANGED <<storeVars, streamVars>>

(* The process dies, or a Redis error ends the consume loop and with it    *)
(* the process; it starts again with nothing in hand.                      *)
CrashWorker(w) ==
  /\ workerFaults < WorkerFaultCap
  /\ phase[w] \in {"batch", "running", "ack"}
  /\ Advance(w, {})
  /\ workerFaults' = workerFaults + 1
  /\ UNCHANGED <<storeVars, streamVars>>

(* ReclaimMinIdle passes for message m.  When no handling takes that long  *)
(* this only happens to messages no worker is holding.                     *)
PendingTimesOut(m) ==
  /\ SlowWorkers \/ \A w \in Workers : m \notin Held(w)
  /\ MessageIdles(m)
  /\ UNCHANGED <<storeVars, workerVars>>

-----------------------------------------------------------------------------
WorkerStep(w) ==
  \/ ClaimPending(w) \/ ReadNew(w) \/ ReadTimesOut(w) \/ Ack(w)
  \/ BeginAttempt(w) \/ SkipDuplicate(w)
  \/ RetryAttempt(w) \/ FailAttempt(w)
  \/ CompleteAttempt(w) \/ CompleteAndEnqueueNext(w) \/ EnqueueNextConflicts(w)

WorkerFault(w) == LeavePending(w) \/ CrashWorker(w)
=============================================================================
