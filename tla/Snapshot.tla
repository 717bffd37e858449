------------------------------ MODULE Snapshot ------------------------------
(***************************************************************************)
(* GET /executions/{id}: GetExecutionSnapshot of internal/db/store.go      *)
(* reads the execution, then its tasks, then their attempts, in three      *)
(* statements outside any transaction.  The engine goes on between them,   *)
(* so the parts of a snapshot are of different moments.                    *)
(***************************************************************************)
EXTENDS Engine

VARIABLES
  answered,   \* queries of the current snapshot that have been answered
  view        \* what they returned

snapshotVars == <<answered, view>>

(* Faulty variant: details first, the execution last. *)
QueriesReversed == <<"attempts", "tasks", "execution">>

(* Faulty variant: the attempts before the tasks. *)
QueriesAttemptsFirst == <<"execution", "attempts", "tasks">>

Queries == <<"execution", "tasks", "attempts">>

(* Nothing read yet for execution e. *)
EmptyView(e) ==
  [id |-> e, exec |-> "none",
   tasks |-> [n \in TaskNames |-> "none"],
   total |-> [n \in TaskNames |-> 0],
   attempts |-> [n \in TaskNames |-> <<>>]]

SnapshotInit == answered = 0 /\ view \in {EmptyView(e) : e \in Executions}

(* View v after query q. *)
Answer(q, v) ==
  CASE q = "execution" -> [v EXCEPT !.exec = exec[v.id]]
    [] q = "tasks"     -> [v EXCEPT !.tasks = [n \in TaskNames |-> status[<<v.id, n>>]],
                                    !.total = [n \in TaskNames |-> Len(attempts[<<v.id, n>>])]]
    [] q = "attempts"  -> [v EXCEPT !.attempts = [n \in TaskNames |-> attempts[<<v.id, n>>]]]

(* The next query, the first one again when the snapshot is complete.      *)
(* Without an execution the request ends in 404.                           *)
ReadOn ==
  /\ exec[view.id] # "none"
  /\ IF answered < Len(Queries)
     THEN answered' = answered + 1 /\ view' = Answer(Queries[answered + 1], view)
     ELSE answered' = 1 /\ view' = Answer(Queries[1], EmptyView(view.id))

Shown == answered = Len(Queries)

(* The attempts listed under task n; those of a task that was not returned *)
(* are dropped.                                                            *)
AttemptsShown(n) == IF view.tasks[n] = "none" THEN <<>> ELSE view.attempts[n]

-----------------------------------------------------------------------------
Shows(n, s) == \E k \in DOMAIN AttemptsShown(n) : AttemptsShown(n)[k] = s

(* A snapshot with an outcome shows what it came from: succeeded with a    *)
(* succeeded attempt of the last task of the chain, failed with a failed   *)
(* attempt, although they are read later and the engine does not wait.     *)
ShownOutcomeHasCause ==
  Shown =>
    /\ view.exec = "succeeded" =>
         \E n \in TaskNames : NextTask[n] = NoTask /\ Shows(n, "succeeded")
    /\ view.exec = "failed" => \E n \in TaskNames : Shows(n, "failed")

(* No task is shown ahead of its attempts: at least attempts_total of them *)
(* are listed, with a succeeded one under a succeeded task and a failed    *)
(* one under a dead-lettered task.                                         *)
ShownTaskHasItsAttempts ==
  Shown =>
    \A n \in TaskNames :
      /\ Len(AttemptsShown(n)) >= view.total[n]
      /\ view.tasks[n] = "succeeded" => Shows(n, "succeeded")
      /\ view.tasks[n] = "dead_lettered" => Shows(n, "failed")
=============================================================================
