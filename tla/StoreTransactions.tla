------------------------- MODULE StoreTransactions -------------------------
(***************************************************************************)
(* The transactions of internal/db/store.go statement by statement, as     *)
(* sessions of one PostgreSQL server run them at READ COMMITTED: SELECT    *)
(* ... FOR UPDATE and UPDATE lock the row until the transaction ends, a    *)
(* statement waits for a row another session has locked, what a            *)
(* transaction writes is seen by others when it commits, and a session     *)
(* may be cut off, and so rolled back, between any two statements.         *)
(*                                                                         *)
(* The variables named as in Store hold what is committed.  A transaction  *)
(* in progress is its operation, its task and attempt, the statements it   *)
(* has run and what its SELECT saw; its effect is computed from those at   *)
(* the commit, never from the rows as they are by then.  Store, with one   *)
(* atomic step per transaction, is what this module implements.            *)
(***************************************************************************)
EXTENDS Naturals, Sequences, FiniteSets

CONSTANTS
  Executions, TaskNames, EntryTask, NextTask, NoTask,
  AttemptCap,   \* bound: attempts one task may start
  ReplayCap,    \* bound: manual replays in one behaviour
  RetryLimit,   \* rows one retry scan takes: 20 in the code
  Sessions      \* connections of API and worker processes

ASSUME TransactionsAssumption ==
  /\ EntryTask \in TaskNames
  /\ NoTask \notin TaskNames
  /\ NextTask \in [TaskNames -> TaskNames \cup {NoTask}]
  /\ \A n \in TaskNames : NextTask[n] # n
  /\ AttemptCap \in Nat

VARIABLES
  exec, status, nextRunAt, outbox, replays,
  total,   \* task_instances.attempts_total
  rows,    \* the task_attempts rows of a task, in the order of their commit
  locks,   \* <<row, session>> for every row lock
  tx,      \* the transaction each session is in
  mine     \* the attempt a session has started and not yet reported on

committed == <<exec, status, nextRunAt, outbox, replays, total, rows>>
transactionVars == <<committed, locks, tx, mine>>

Atomic == INSTANCE Store WITH
  attempts <- [t \in Executions \X TaskNames |->
                 [k \in DOMAIN rows[t] |-> rows[t][k].status]]

Tasks == Executions \X TaskNames

NoTx == [op |-> "none", t |-> <<>>, n |-> 0, step |-> 0, seen |-> "none", count |-> 0, due |-> {}]
NoAttempt == <<>>

TransactionsInit ==
  /\ rows = [t \in Tasks |-> <<>>]
  /\ total = [t \in Tasks |-> 0]
  /\ Atomic!StoreInit
  /\ locks = {}
  /\ tx = [s \in Sessions |-> NoTx]
  /\ mine = [s \in Sessions |-> NoAttempt]

-----------------------------------------------------------------------------
(* The statements of a transaction that meet a row other transactions may  *)
(* use, in order.  Inserts of attempts and of outbox events meet none: the *)
(* share lock a foreign key takes on the row it refers to is compatible    *)
(* with updates that leave the row's key alone, as all updates here do.    *)
TaskRow(t)       == <<"task", t>>
AttemptRow(t, n) == <<"attempt", t, n>>
ExecutionRow(t)  == <<"execution", t[1]>>

Select(row) == [kind |-> "select", row |-> row]
Update(row) == [kind |-> "update", row |-> row]
Insert(row) == [kind |-> "insert", row |-> row]

(* Faulty variant: the replay and the outcomes lock in opposite orders. *)
StatementsCrossed(op, t, n) ==
  CASE op = "start"    -> <<Select(TaskRow(t)), Update(TaskRow(t))>>
    [] op = "replay"   -> <<Update(ExecutionRow(t)), Select(TaskRow(t)), Update(TaskRow(t))>>
    [] op = "complete" -> <<Select(TaskRow(t)), Update(AttemptRow(t, n)), Update(TaskRow(t)), Update(ExecutionRow(t))>>
    [] op = "next"     -> <<Select(TaskRow(t)), Update(AttemptRow(t, n)), Update(TaskRow(t)), Insert(TaskRow(Atomic!Successor(t)))>>
    [] op = "retry"    -> <<Update(AttemptRow(t, n)), Update(TaskRow(t))>>
    [] op = "fail"     -> <<Select(TaskRow(t)), Update(AttemptRow(t, n)), Update(TaskRow(t)), Update(ExecutionRow(t))>>
    [] op = "scan"     -> <<>>

Statements(op, t, n) ==
  CASE op = "start"    -> <<Select(TaskRow(t)), Update(TaskRow(t))>>
    [] op = "replay"   -> <<Select(TaskRow(t)), Update(TaskRow(t)), Update(ExecutionRow(t))>>
    [] op = "complete" -> <<Select(TaskRow(t)), Update(AttemptRow(t, n)), Update(TaskRow(t)), Update(ExecutionRow(t))>>
    [] op = "next"     -> <<Select(TaskRow(t)), Update(AttemptRow(t, n)), Update(TaskRow(t)), Insert(TaskRow(Atomic!Successor(t)))>>
    [] op = "retry"    -> <<Update(AttemptRow(t, n)), Update(TaskRow(t))>>
    [] op = "fail"     -> <<Select(TaskRow(t)), Update(AttemptRow(t, n)), Update(TaskRow(t)), Update(ExecutionRow(t))>>
    [] op = "scan"     -> <<>>

StatementsOf(s) == Statements(tx[s].op, tx[s].t, tx[s].n)

Pending(s) == tx[s].op # "none" /\ tx[s].step < Len(StatementsOf(s))

NextStatement(s) == StatementsOf(s)[tx[s].step + 1]

LockedByOther(row, s) == \E u \in Sessions \ {s} : <<row, u>> \in locks

(* The early returns: StartTaskAttempt on a terminal task, and a replay of *)
(* a task that is not dead-lettered.                                       *)
Refused(s) ==
  \/ tx[s].op = "start" /\ tx[s].seen \in {"succeeded", "dead_lettered"}
  \/ tx[s].op = "replay" /\ tx[s].seen \notin {"none", "dead_lettered"}

(* The transaction of s is over: its locks go, a is what s goes on with. *)
End(s, a) ==
  /\ tx' = [tx EXCEPT ![s] = NoTx]
  /\ locks' = {l \in locks : l[2] # s}
  /\ mine' = [mine EXCEPT ![s] = a]

-----------------------------------------------------------------------------
(* Session s begins an operation on task t, and on its attempt n. *)
Begin(s, op, t, n) ==
  /\ tx[s].op = "none"
  /\ tx' = [tx EXCEPT ![s] = [NoTx EXCEPT !.op = op, !.t = t, !.n = n]]
  /\ UNCHANGED <<committed, locks, mine>>

BeginStart(s) ==
  /\ mine[s] = NoAttempt
  /\ \E t \in Tasks : status[t] # "none" /\ Begin(s, "start", t, 0)

BeginReplay(s) ==
  /\ mine[s] = NoAttempt
  /\ \E t \in Tasks : status[t] # "none" /\ Begin(s, "replay", t, 0)

BeginOutcome(s) ==
  /\ mine[s] # NoAttempt
  /\ LET t == mine[s][1]
         success == IF NextTask[t[2]] = NoTask THEN "complete" ELSE "next"
     IN  \E op \in {success, "retry", "fail"} : Begin(s, op, t, mine[s][2])

(* SELECT ... LIMIT ... FOR UPDATE SKIP LOCKED. *)
BeginScan(s) ==
  LET unlocked == {t \in Atomic!DueTasks : ~LockedByOther(TaskRow(t), s)}
  IN  /\ tx[s].op = "none"
      /\ mine[s] = NoAttempt
      /\ \E S \in SUBSET unlocked :
           /\ Cardinality(S) <= RetryLimit
           /\ S # unlocked => Cardinality(S) = RetryLimit
           /\ tx' = [tx EXCEPT ![s] = [NoTx EXCEPT !.op = "scan", !.due = S]]
           /\ locks' = locks \cup {<<TaskRow(t), s>> : t \in S}
      /\ UNCHANGED <<committed, mine>>

(* Faulty variant: SELECT without FOR UPDATE. *)
StatementWithoutForUpdate(s) ==
  /\ Pending(s)
  /\ ~Refused(s)
  /\ LET x == tx[s]
         q == NextStatement(s)
     IN  /\ q.kind # "select" => ~LockedByOther(q.row, s)
         /\ q.kind = "insert" => status[q.row[2]] = "none"
         /\ locks' = IF q.kind = "select" THEN locks ELSE locks \cup {<<q.row, s>>}
         /\ tx' = [tx EXCEPT ![s] = IF q.kind = "select"
              THEN [x EXCEPT !.step = x.step + 1, !.seen = status[q.row[2]], !.count = total[q.row[2]]]
              ELSE [x EXCEPT !.step = x.step + 1]]
  /\ UNCHANGED <<committed, mine>>

(* The next statement runs once no other session has its row locked; a     *)
(* SELECT sees the row as last committed.                                  *)
Statement(s) ==
  /\ Pending(s)
  /\ ~Refused(s)
  /\ LET x == tx[s]
         q == NextStatement(s)
     IN  /\ ~LockedByOther(q.row, s)
         /\ q.kind = "insert" => status[q.row[2]] = "none"
         /\ locks' = locks \cup {<<q.row, s>>}
         /\ tx' = [tx EXCEPT ![s] = IF q.kind = "select"
              THEN [x EXCEPT !.step = x.step + 1, !.seen = status[q.row[2]], !.count = total[q.row[2]]]
              ELSE [x EXCEPT !.step = x.step + 1]]
  /\ UNCHANGED <<committed, mine>>

(* The transaction ends without effect: an early return, the unique key of *)
(* the next task violated, a call that failed, a process that died.        *)
Rollback(s) ==
  /\ tx[s].op # "none"
  /\ End(s, NoAttempt)
  /\ UNCHANGED committed

-----------------------------------------------------------------------------
(* Commits.  The values written are the ones the statements were given.    *)
Ready(s, op) ==
  /\ tx[s].op = op
  /\ ~Pending(s)
  /\ ~Refused(s)

(* UPDATE task_attempts: the row with attempt n of t gets status st. *)
Report(t, n, st) == rows' = [rows EXCEPT ![t][n].status = st]

CreateExecutionAndTask(e) ==
  /\ exec[e] = "none"
  /\ exec' = [exec EXCEPT ![e] = "running"]
  /\ status' = [status EXCEPT ![<<e, EntryTask>>] = "pending"]
  /\ outbox' = Atomic!InsertEvents({<<e, EntryTask>>})
  /\ UNCHANGED <<nextRunAt, replays, total, rows, locks, tx, mine>>

CommitStart(s) ==
  LET t == tx[s].t
      n == tx[s].count + 1
  IN  /\ Ready(s, "start")
      /\ n <= AttemptCap
      /\ rows' = [rows EXCEPT ![t] = Append(@, [number |-> n, status |-> "running"])]
      /\ total' = [total EXCEPT ![t] = n]
      /\ status' = [status EXCEPT ![t] = "running"]
      /\ nextRunAt' = [nextRunAt EXCEPT ![t] = "none"]
      /\ End(s, <<t, Len(rows[t]) + 1>>)
      /\ UNCHANGED <<exec, outbox, replays>>

CommitReplay(s) ==
  LET t == tx[s].t
  IN  /\ Ready(s, "replay")
      /\ replays < ReplayCap
      /\ status' = [status EXCEPT ![t] = "pending"]
      /\ nextRunAt' = [nextRunAt EXCEPT ![t] = "none"]
      /\ exec' = [exec EXCEPT ![t[1]] = "running"]
      /\ outbox' = Atomic!InsertEvents({t})
      /\ replays' = replays + 1
      /\ End(s, NoAttempt)
      /\ UNCHANGED <<total, rows>>

CommitComplete(s) ==
  LET t == tx[s].t
  IN  /\ Ready(s, "complete")
      /\ Report(t, tx[s].n, "succeeded")
      /\ status' = [status EXCEPT ![t] = "succeeded"]
      /\ exec' = [exec EXCEPT ![t[1]] = "succeeded"]
      /\ End(s, NoAttempt)
      /\ UNCHANGED <<nextRunAt, outbox, replays, total>>

CommitEnqueueNext(s) ==
  LET t == tx[s].t
      next == Atomic!Successor(t)
  IN  /\ Ready(s, "next")
      /\ Report(t, tx[s].n, "succeeded")
      /\ status' = [status EXCEPT ![t] = "succeeded", ![next] = "pending"]
      /\ outbox' = Atomic!InsertEvents({next})
      /\ End(s, NoAttempt)
      /\ UNCHANGED <<exec, nextRunAt, replays, total>>

CommitRetry(s) ==
  LET t == tx[s].t
  IN  /\ Ready(s, "retry")
      /\ Report(t, tx[s].n, "failed")
      /\ status' = [status EXCEPT ![t] = "pending"]
      /\ nextRunAt' = [nextRunAt EXCEPT ![t] = "future"]
      /\ End(s, NoAttempt)
      /\ UNCHANGED <<exec, outbox, replays, total>>

CommitFail(s) ==
  LET t == tx[s].t
  IN  /\ Ready(s, "fail")
      /\ Report(t, tx[s].n, "failed")
      /\ status' = [status EXCEPT ![t] = "dead_lettered"]
      /\ nextRunAt' = [nextRunAt EXCEPT ![t] = "none"]
      /\ exec' = [exec EXCEPT ![t[1]] = "failed"]
      /\ End(s, NoAttempt)
      /\ UNCHANGED <<outbox, replays, total>>

CommitScan(s) ==
  /\ Ready(s, "scan")
  /\ outbox' = Atomic!InsertEvents(tx[s].due)
  /\ nextRunAt' = [t \in Tasks |-> IF t \in tx[s].due THEN "none" ELSE nextRunAt[t]]
  /\ End(s, NoAttempt)
  /\ UNCHANGED <<exec, status, replays, total, rows>>

BackoffElapses(t) ==
  /\ nextRunAt[t] = "future"
  /\ nextRunAt' = [nextRunAt EXCEPT ![t] = "due"]
  /\ UNCHANGED <<exec, status, outbox, replays, total, rows, locks, tx, mine>>

-----------------------------------------------------------------------------
SessionNext(s) ==
  \/ BeginStart(s) \/ BeginReplay(s) \/ BeginOutcome(s) \/ BeginScan(s)
  \/ Statement(s) \/ Rollback(s)
  \/ CommitStart(s) \/ CommitReplay(s) \/ CommitComplete(s) \/ CommitEnqueueNext(s)
  \/ CommitRetry(s) \/ CommitFail(s) \/ CommitScan(s)

TransactionsNext ==
  \/ \E e \in Executions : CreateExecutionAndTask(e)
  \/ \E t \in Tasks : BackoffElapses(t)
  \/ \E s \in Sessions : SessionNext(s)

TransactionsSpec == TransactionsInit /\ [][TransactionsNext]_transactionVars

-----------------------------------------------------------------------------
(* The transactions are as good as atomic: whatever the interleaving of    *)
(* statements, waits and rollbacks, what is committed goes through steps   *)
(* of Store only, each on the state it is applied to.                      *)
ImplementsStore == Atomic!StoreSpec

(* Attempt numbers are never given twice, although no constraint of the    *)
(* schema says so: the k-th attempt of a task has number k, and            *)
(* attempts_total is their count.                                          *)
AttemptNumbersDistinct ==
  \A t \in Tasks :
    /\ total[t] = Len(rows[t])
    /\ \A k \in DOMAIN rows[t] : rows[t][k].number = k

(* s waits for u: the next row s needs is locked by u.  An insert waits    *)
(* for one of the same key not yet committed; when the row is there        *)
(* already it fails at once, whoever has locked it.                        *)
WaitsFor(s, u) ==
  /\ s # u /\ Pending(s) /\ ~Refused(s)
  /\ <<NextStatement(s).row, u>> \in locks
  /\ NextStatement(s).kind = "insert" => status[NextStatement(s).row[2]] = "none"

(* No group of transactions waits in a circle, in whatever order they took *)
(* their rows: PostgreSQL never has to break a deadlock by aborting one.   *)
NoLockCycle ==
  \A S \in (SUBSET Sessions) \ {{}} : \E s \in S : \A u \in S : ~WaitsFor(s, u)
=============================================================================
