--------------------------- MODULE TaskLifecycle ---------------------------
(***************************************************************************)
(* What the engine promises to whoever looks at an execution: the task     *)
(* lifecycle drawn in ARCHITECTURE.md, with the execution's status along   *)
(* it.  There are no workers, messages, attempts or failures here.  Engine *)
(* is shown to implement this specification wherever attempts of a task    *)
(* follow one another.                                                     *)
(***************************************************************************)
CONSTANTS Executions, TaskNames, EntryTask, NextTask, NoTask

VARIABLES
  exec,     \* status shown for an execution
  status    \* status shown for a task, "none" while it has no row

lifecycleVars == <<exec, status>>

LifecycleInit ==
  /\ exec = [e \in Executions |-> "none"]
  /\ status = [t \in Executions \X TaskNames |-> "none"]

(* An execution begins with its entry task. *)
Create(e) ==
  /\ exec[e] = "none"
  /\ exec' = [exec EXCEPT ![e] = "running"]
  /\ status' = [status EXCEPT ![<<e, EntryTask>>] = "pending"]

(* Task t moves from one status to another within a running execution. *)
Move(t, from, to) ==
  /\ exec[t[1]] = "running"
  /\ status[t] = from
  /\ status' = [status EXCEPT ![t] = to]

Start(t) == Move(t, "pending", "running") /\ UNCHANGED exec

ScheduleRetry(t) == Move(t, "running", "pending") /\ UNCHANGED exec

DeadLetter(t) ==
  /\ Move(t, "running", "dead_lettered")
  /\ exec' = [exec EXCEPT ![t[1]] = "failed"]

(* The last task of the chain succeeds, and with it the execution. *)
Finish(t) ==
  /\ NextTask[t[2]] = NoTask
  /\ Move(t, "running", "succeeded")
  /\ exec' = [exec EXCEPT ![t[1]] = "succeeded"]

(* Any other task hands over to a next task that had no row before. *)
HandOver(t) ==
  LET next == <<t[1], NextTask[t[2]]>>
  IN  /\ NextTask[t[2]] # NoTask
      /\ exec[t[1]] = "running"
      /\ status[t] = "running"
      /\ status[next] = "none"
      /\ status' = [status EXCEPT ![t] = "succeeded", ![next] = "pending"]
      /\ UNCHANGED exec

Replay(t) ==
  /\ exec[t[1]] = "failed"
  /\ status[t] = "dead_lettered"
  /\ exec' = [exec EXCEPT ![t[1]] = "running"]
  /\ status' = [status EXCEPT ![t] = "pending"]

LifecycleNext ==
  \/ \E e \in Executions : Create(e)
  \/ \E t \in Executions \X TaskNames :
       Start(t) \/ ScheduleRetry(t) \/ DeadLetter(t) \/ Finish(t) \/ HandOver(t) \/ Replay(t)

LifecycleSpec == LifecycleInit /\ [][LifecycleNext]_lifecycleVars
=============================================================================
