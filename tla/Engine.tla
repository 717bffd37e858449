------------------------------- MODULE Engine -------------------------------
(***************************************************************************)
(* The durable workflow engine: the API's requests, the outbox publishers  *)
(* and the workers, over one PostgreSQL database and one Redis stream.     *)
(* Every operator of Store that a process calls is one transaction, every  *)
(* operator of RedisStreams one command; between two of them any other     *)
(* process may take steps.                                                 *)
(***************************************************************************)
EXTENDS Worker, Publisher

vars == <<storeVars, streamVars, workerVars, publisherVars>>

Init == StoreInit /\ RedisInit /\ WorkerInit /\ PublisherInit

(* POST /executions *)
TriggerExecution(e) ==
  /\ CreateExecutionAndTask(e)
  /\ UNCHANGED <<streamVars, workerVars, publisherVars>>

(* POST /tasks/{id}/replay *)
ReplayTask(t) ==
  /\ ReplayDeadLetteredTask(t)
  /\ UNCHANGED <<streamVars, workerVars, publisherVars>>

Api == (\E e \in Executions : TriggerExecution(e)) \/ (\E t \in Tasks : ReplayTask(t))

Timer ==
  \/ \E t \in Tasks : BackoffElapses(t) /\ UNCHANGED <<streamVars, workerVars, publisherVars>>
  \/ \E m \in pel : PendingTimesOut(m) /\ UNCHANGED publisherVars

WorkerNext ==
  /\ \E w \in Workers : WorkerStep(w) \/ WorkerFault(w)
  /\ UNCHANGED publisherVars

PublisherNext ==
  /\ \E p \in Publishers : PublisherStep(p) \/ PublisherFault(p)
  /\ UNCHANGED workerVars

Next == Api \/ Timer \/ WorkerNext \/ PublisherNext

Spec == Init /\ [][Next]_vars

-----------------------------------------------------------------------------
(* Values every variable takes: the columns' statuses, positions of the    *)
(* stream, the phases of the processes.                                    *)
TypeOK == StoreTypeOK /\ WorkerTypeOK /\ PublisherTypeOK

Open(t) == status[t] \in {"pending", "running"}

(* A task that is not finished is never forgotten: it has an outbox event  *)
(* still to be dispatched, or a message the group still owes, or a retry   *)
(* time the scan will find.  Without one of these nothing in the system    *)
(* would ever run it again.                                                *)
NoLostTask ==
  \A t \in Tasks : Open(t) =>
    \/ PendingEvents(t) # {}
    \/ \E m \in Unacked : stream[m] = t
    \/ status[t] = "pending" /\ nextRunAt[t] # "none"

(* No message is in two hands: with handling faster than ReclaimMinIdle,   *)
(* what a worker holds is pending, not idle, and held by no other worker,  *)
(* through crashes, reclaims and batches only partly worked off.           *)
ExclusiveHolding ==
  ~SlowWorkers =>
    \A w \in Workers :
      /\ Held(w) \subseteq pel \ idle
      /\ phase[w] \in {"running", "ack"} => msg[w] \notin batch[w]
      /\ \A v \in Workers \ {w} : Held(v) \cap Held(w) = {}

(* The strengthening of NoLostTask that every step preserves.  An event    *)
(* about to be marked dispatched, and a message about to be acknowledged,  *)
(* no longer count: something else must be there to take over from them.   *)
EventCover(t) ==
  \E k \in PendingEvents(t) :
    \A p \in Publishers : pphase[p] = "mark" => current[p] # <<t, k>>

MessageCover(t) ==
  \E m \in Unacked :
    stream[m] = t /\ \A w \in Workers : phase[w] = "ack" => msg[w] # m

RetryCover(t) == status[t] = "pending" /\ nextRunAt[t] # "none"

Covered ==
  \A t \in Tasks : Open(t) => EventCover(t) \/ MessageCover(t) \/ RetryCover(t)

(* An execution shown as running has a task that is still to finish: no    *)
(* order of completions, failures and replays leaves it running with       *)
(* nothing left to do.                                                     *)
RunningExecutionHasWork ==
  \A e \in Executions : exec[e] = "running" =>
    \E n \in TaskNames : Open(<<e, n>>)

HasAttempt(t, s) == \E k \in DOMAIN attempts[t] : attempts[t][k] = s

(* Tasks start in the order of the definition: a task other than the entry *)
(* task exists only when one that names it as next_task had an attempt     *)
(* succeed, whatever duplicates, retries and replays happened since.       *)
ChainOrder ==
  \A e \in Executions, n \in TaskNames :
    status[<<e, n>>] # "none" /\ n # EntryTask =>
      \E q \in TaskNames : NextTask[q] = n /\ HasAttempt(<<e, q>>, "succeeded")

(* An execution reported as succeeded had the last task of its chain       *)
(* succeed once, and one reported as failed had an attempt fail.           *)
OutcomeHasCause ==
  \A e \in Executions :
    /\ exec[e] = "succeeded" =>
         \E n \in TaskNames : NextTask[n] = NoTask /\ HasAttempt(<<e, n>>, "succeeded")
    /\ exec[e] = "failed" => \E n \in TaskNames : HasAttempt(<<e, n>>, "failed")

(* A worker between StartTaskAttempt and its outcome has an attempt row of *)
(* its own, still running: no other worker, even one given the same        *)
(* message, writes to it.                                                  *)
AttemptOwnership ==
  \A w \in Workers : phase[w] = "running" =>
    /\ attempt[w] \in DOMAIN attempts[TaskOf(w)]
    /\ attempts[TaskOf(w)][attempt[w]] = "running"
    /\ \A v \in Workers \ {w} :
         phase[v] = "running" /\ TaskOf(v) = TaskOf(w) => attempt[v] # attempt[w]

(* The record of a finished attempt is never rewritten or removed. *)
AttemptHistoryKept ==
  [][\A t \in Tasks : \A k \in DOMAIN attempts[t] :
       /\ k \in DOMAIN attempts'[t]
       /\ attempts[t][k] # "running" => attempts'[t][k] = attempts[t][k]]_vars

(* A succeeded task stays succeeded, and so keeps its output: no outcome   *)
(* that another attempt reports later undoes it.                           *)
SucceededIsFinal ==
  [][\A t \in Tasks : status[t] = "succeeded" => status'[t] = "succeeded"]_vars

(* A task that is not finished has a worker on it or one of the ways of    *)
(* NoLostTask to get one: a crash or a failed write never strands it.      *)
NoStrandedTask ==
  \A t \in Tasks : Open(t) =>
    \/ PendingEvents(t) # {}
    \/ \E m \in Unacked : stream[m] = t
    \/ status[t] = "pending" /\ nextRunAt[t] # "none"
    \/ \E w \in Workers : phase[w] = "running" /\ TaskOf(w) = t

-----------------------------------------------------------------------------
(* What holds as long as deliveries are unique, or with one worker:        *)
(* attempts of a task then follow one another.                             *)

(* As long as nothing has failed, one publisher runs and no worker is      *)
(* slow: a task shown as running has exactly one attempt under way, any    *)
(* other task has none, whatever retries and replays there were.           *)
OneAttemptAtATime ==
  workerFaults + publisherFaults = 0 /\ ~SlowWorkers /\ Cardinality(Publishers) = 1 =>
    \A t \in Tasks :
      Cardinality({k \in DOMAIN attempts[t] : attempts[t][k] = "running"})
        = IF status[t] = "running" THEN 1 ELSE 0

(* A task is attempted no more often than its max_attempts, once more for  *)
(* every manual replay and once more for every failure that made a message *)
(* come again: retries, redeliveries and replays together never multiply.  *)
AttemptsBounded ==
  \A t \in Tasks :
    Len(attempts[t]) <= AttemptBudget(t[2]) + replays + workerFaults + publisherFaults

Lifecycle == INSTANCE TaskLifecycle WITH exec <- exec, status <- status

(* What the statuses of an execution and its tasks go through is what      *)
(* ARCHITECTURE.md draws: every step of every process is a step of         *)
(* TaskLifecycle or changes no status.  It holds with one worker, whatever *)
(* fails; SucceededIsFinal shows where two workers leave it.               *)
ImplementsLifecycle == Lifecycle!LifecycleSpec

-----------------------------------------------------------------------------
(* Fairness: a process that can take a step takes one (crashed workers and *)
(* publishers are restarted), and time passes.  Nothing makes a request    *)
(* arrive, a call fail or a handler succeed.                               *)
Fairness ==
  /\ \A w \in Workers : WF_vars(WorkerStep(w) /\ UNCHANGED publisherVars)
  /\ \A p \in Publishers : WF_vars(PublisherStep(p) /\ UNCHANGED workerVars)
  /\ \A t \in Tasks : WF_vars(BackoffElapses(t) /\ UNCHANGED <<streamVars, workerVars, publisherVars>>)
  /\ WF_vars(\E m \in pel : PendingTimesOut(m) /\ UNCHANGED publisherVars)

LiveSpec == Spec /\ Fairness

(* With one worker a running execution comes to an end, through retries,   *)
(* crashes, lost replies and duplicate messages.                           *)
ExecutionFinishes ==
  \A e \in Executions : exec[e] = "running" ~> exec[e] \in {"succeeded", "failed"}

(* With one worker the pending-entries list does not keep messages for     *)
(* ever: each one the group owes is handled and acknowledged in the end.   *)
QueueDrains == (Unacked # {}) ~> (Unacked = {})
=============================================================================
