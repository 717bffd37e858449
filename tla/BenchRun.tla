------------------------------ MODULE BenchRun ------------------------------
(***************************************************************************)
(* One execution as the benchmark drives it (runExecution of               *)
(* cmd/bench/main.go) beside the engine: it triggers the execution, polls  *)
(* its snapshot until the execution is terminal, in one scenario replays   *)
(* the dead-lettered task and polls on, and reports what the last snapshot *)
(* shows.  It is the engine's only client.  Its phases are                 *)
(*   trigger   about to POST the execution                                 *)
(*   poll      its GET under way, or answered and about to be looked at    *)
(*   wait      for the next tick of the poll interval                      *)
(*   replay    about to POST the replay                                    *)
(*   reported, error   returned                                            *)
(***************************************************************************)
EXTENDS Snapshot, Functions

CONSTANT BenchFaultCap   \* bound: requests that fail, and the time-out

ASSUME BenchAssumption == BenchFaultCap \in Nat

VARIABLES
  bphase,       \* where the run is
  replayLeft,   \* replayAfterTerminal, which the scenario sets: a replay is still to be made
  target,       \* the task to replay
  report,       \* the executionRun returned
  before,       \* auxiliary: the attempts it had had by then
  benchFaults   \* failures so far

benchVars == <<bphase, replayLeft, target, report, before, benchFaults>>

NoReport == [status |-> "none", attempts |-> 0, terminalTasks |-> 0]

BenchInit ==
  /\ Init /\ SnapshotInit
  /\ bphase = "trigger"
  /\ replayLeft \in BOOLEAN
  /\ target = <<view.id, EntryTask>>
  /\ report = NoReport
  /\ before = 0
  /\ benchFaults = 0

-----------------------------------------------------------------------------
(* isTerminal, for the status of an execution or of a task. *)
IsTerminal(s) == s \in {"succeeded", "failed", "dead_lettered"}

TotalAttempts == SumFunction([n \in TaskNames |-> Len(AttemptsShown(n))])

CountTerminalTasks == Cardinality({n \in TaskNames : IsTerminal(view.tasks[n])})

DeadLettered == {n \in TaskNames : view.tasks[n] = "dead_lettered"}

GoTo(ph) == bphase' = ph /\ UNCHANGED <<replayLeft, target, report, before, benchFaults>>

NewSnapshot == answered' = 0 /\ view' = EmptyView(view.id)

(* POST /executions, accepted. *)
Trigger ==
  /\ bphase = "trigger"
  /\ TriggerExecution(view.id)
  /\ GoTo("poll")
  /\ UNCHANGED snapshotVars

(* One of the reads behind the GET. *)
Poll ==
  /\ bphase = "poll"
  /\ ~Shown
  /\ ReadOn
  /\ UNCHANGED <<vars, benchVars>>

NotFinished ==
  /\ bphase = "poll"
  /\ Shown
  /\ ~IsTerminal(view.exec)
  /\ GoTo("wait")
  /\ NewSnapshot
  /\ UNCHANGED vars

NextTick ==
  /\ bphase = "wait"
  /\ GoTo("poll")
  /\ UNCHANGED <<vars, snapshotVars>>

(* firstDeadLetteredTaskID: there is one, or the run ends with an error. *)
ChooseReplay ==
  /\ bphase = "poll"
  /\ Shown
  /\ IsTerminal(view.exec)
  /\ replayLeft
  /\ \/ \E n \in DeadLettered :
          /\ bphase' = "replay"
          /\ target' = <<view.id, n>>
          /\ NewSnapshot
     \/ /\ DeadLettered = {}
        /\ bphase' = "error"
        /\ UNCHANGED <<target, snapshotVars>>
  /\ UNCHANGED <<vars, replayLeft, report, before, benchFaults>>

(* POST /tasks/{id}/replay.  When it is accepted the next GET follows at   *)
(* once; it is refused when the task is no longer dead-lettered.           *)
Replay ==
  /\ bphase = "replay"
  /\ IF status[target] = "dead_lettered"
     THEN /\ ReplayTask(target)
          /\ bphase' = "poll"
          /\ replayLeft' = FALSE
          /\ before' = Len(attempts[target])
     ELSE /\ bphase' = "error"
          /\ UNCHANGED <<vars, replayLeft, before>>
  /\ UNCHANGED <<target, report, benchFaults, snapshotVars>>

(* An execution that has reached its end has both its time stamps: they    *)
(* are written, and read, together with the status.                        *)
Report ==
  /\ bphase = "poll"
  /\ Shown
  /\ IsTerminal(view.exec)
  /\ ~replayLeft
  /\ bphase' = "reported"
  /\ report' = [status |-> view.exec, attempts |-> TotalAttempts,
                terminalTasks |-> CountTerminalTasks]
  /\ UNCHANGED <<vars, snapshotVars, replayLeft, target, before, benchFaults>>

(* A request fails, before or after it took effect, or the time of the run *)
(* is up: the run ends, what it started goes on.                           *)
GiveUp ==
  /\ benchFaults < BenchFaultCap
  /\ bphase \in {"trigger", "poll", "wait", "replay"}
  /\ bphase' = "error"
  /\ benchFaults' = benchFaults + 1
  /\ UNCHANGED <<vars, snapshotVars, replayLeft, target, report, before>>

BenchStep ==
  Trigger \/ Poll \/ NotFinished \/ NextTick \/ ChooseReplay \/ Replay \/ Report

BenchNext ==
  \/ BenchStep \/ GiveUp
  \/ (Timer \/ WorkerNext \/ PublisherNext) /\ UNCHANGED <<snapshotVars, benchVars>>

allVars == <<vars, snapshotVars, benchVars>>

BenchSpec == BenchInit /\ [][BenchNext]_allVars

BenchLiveSpec ==
  /\ BenchSpec
  /\ WF_allVars(BenchStep)
  /\ \A w \in Workers :
       WF_allVars(WorkerStep(w) /\ UNCHANGED <<publisherVars, snapshotVars, benchVars>>)
  /\ \A p \in Publishers :
       WF_allVars(PublisherStep(p) /\ UNCHANGED <<workerVars, snapshotVars, benchVars>>)
  /\ WF_allVars(Timer /\ UNCHANGED <<snapshotVars, benchVars>>)

-----------------------------------------------------------------------------
StoredAttempts == SumFunction([n \in TaskNames |-> Len(attempts[<<view.id, n>>])])

(* With one worker what the benchmark reports is the end of the story: the *)
(* status, the attempts and the finished tasks it counted are those in the *)
(* database then and for ever after, although it read them piecemeal and   *)
(* messages may still be delivered again.  With more workers, which        *)
(* docs/benchmarks.md measures too, a late attempt may still change them.  *)
ReportIsFinal ==
  bphase = "reported" =>
    /\ report.status = exec[view.id]
    /\ report.attempts = StoredAttempts
    /\ report.terminalTasks = Cardinality({n \in TaskNames : status[<<view.id, n>>] \in Terminal})

(* With one worker the replay scenario measures the replay: the task       *)
(* chosen from a snapshot can still be replayed when the request arrives,  *)
(* and the outcome reported in the end includes an attempt made after it,  *)
(* never the outcome from before.                                          *)
ReplayIsMeasured ==
  /\ bphase = "replay" => status[target] = "dead_lettered"
  /\ bphase = "reported" /\ before > 0 =>
       Len(AttemptsShown(target[2])) > before

(* With one worker the run ends, with a report unless one of its own       *)
(* requests failed or the handlers made the task succeed that the scenario *)
(* means to replay.                                                        *)
BenchEnds ==
  <>(\/ bphase = "reported"
     \/ bphase = "error" /\ (benchFaults > 0 \/ exec[view.id] = "succeeded"))
=============================================================================
