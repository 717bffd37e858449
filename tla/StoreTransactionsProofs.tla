---------------------- MODULE StoreTransactionsProofs ----------------------
(***************************************************************************)
(* The transactions of internal/db/store.go, statement by statement, are   *)
(* as good as atomic, for any definition, any number of sessions and any   *)
(* bounds.  The argument is about row locks: Locking says which rows a     *)
(* transaction has locked, and that no other has; Fresh says that what a   *)
(* transaction has seen of a row it has locked is still so.  Together with *)
(* Sessions' own attempts (Owned) they are inductive, and imply that       *)
(* attempt numbers are distinct, that no transactions wait in a circle,    *)
(* and that every commit is a step of Store.                               *)
(***************************************************************************)
EXTENDS StoreTransactions, TLAPS

Outcomes == {"complete", "next", "retry", "fail"}
OnTask   == {"start", "replay"} \cup Outcomes

AttemptRecord == [number : Nat, status : Atomic!AttemptStatus]

TxRecord ==
  [op : OnTask \cup {"none", "scan"}, t : Tasks \cup {<<>>}, n : Nat, step : Nat,
   seen : Atomic!TaskStatus, count : Nat, due : SUBSET Tasks]

TransactionsTypeOK ==
  /\ exec \in [Executions -> Atomic!ExecutionStatus]
  /\ status \in [Tasks -> Atomic!TaskStatus]
  /\ nextRunAt \in [Tasks -> {"none", "future", "due"}]
  /\ outbox \in [Tasks -> Seq({"pending", "dispatched"})]
  /\ replays \in Nat
  /\ total \in [Tasks -> Nat]
  /\ rows \in [Tasks -> Seq(AttemptRecord)]
  /\ tx \in [Sessions -> TxRecord]
  /\ mine \in [Sessions -> (Tasks \X Nat) \cup {NoAttempt}]

(* A transaction is one the code has: on a task that has a row, with the   *)
(* statements of its operation.                                            *)
WellFormed(x) ==
  /\ x.op = "none" => x = NoTx
  /\ x.op # "scan" => x.due = {}
  /\ x.op = "scan" => x.step = 0
  /\ x.op \in OnTask =>
       x.t \in Tasks /\ status[x.t] # "none" /\ x.step <= Len(Statements(x.op, x.t, x.n))
  /\ x.op = "complete" => NextTask[x.t[2]] = NoTask
  /\ x.op = "next" => NextTask[x.t[2]] # NoTask

(* The rows transaction x has locked. *)
RowsOf(x) ==
  {TaskRow(t) : t \in x.due} \cup {Statements(x.op, x.t, x.n)[k].row : k \in 1 .. x.step}

(* A row is locked by the transaction that has come to it, and by no other.*)
Locking ==
  /\ \A l \in locks : l = <<l[1], l[2]>> /\ l[2] \in Sessions /\ l[1] \in RowsOf(tx[l[2]])
  /\ \A s \in Sessions : \A r \in RowsOf(tx[s]) : <<r, s>> \in locks
  /\ \A s, u \in Sessions : \A r : <<r, s>> \in locks /\ <<r, u>> \in locks => s = u

(* What x has seen is still so. *)
Fresh(x) ==
  /\ x.op \in {"start", "replay"} /\ x.step > 0 => x.seen = status[x.t] /\ x.count = total[x.t]
  /\ x.op = "next" /\ x.step = 4 => status[Atomic!Successor(x.t)] = "none"
  /\ x.due \subseteq Atomic!DueTasks

(* The attempt a session reports on exists and is its own. *)
Owned ==
  /\ \A s \in Sessions :
       /\ mine[s] # NoAttempt =>
            mine[s][2] \in DOMAIN rows[mine[s][1]] /\ status[mine[s][1]] # "none"
       /\ tx[s].op \in Outcomes => mine[s] # NoAttempt /\ mine[s] = <<tx[s].t, tx[s].n>>
       /\ tx[s].op \in {"start", "replay", "scan"} => mine[s] = NoAttempt
  /\ \A s, u \in Sessions : mine[s] = mine[u] /\ mine[s] # NoAttempt => s = u

(* A task has a row only in an execution that has one. *)
KnownExecutions == \A t \in Tasks : status[t] # "none" => exec[t[1]] # "none"

TransactionsInv ==
  /\ TransactionsTypeOK
  /\ \A s \in Sessions : WellFormed(tx[s]) /\ Fresh(tx[s])
  /\ Locking /\ Owned /\ KnownExecutions
  /\ AttemptNumbersDistinct

-----------------------------------------------------------------------------
(* The statements of every operation, written out. *)
LEMMA StatementLists ==
  ASSUME NEW t, NEW n
  PROVE  /\ Statements("start", t, n) = <<Select(TaskRow(t)), Update(TaskRow(t))>>
         /\ Statements("replay", t, n) =
              <<Select(TaskRow(t)), Update(TaskRow(t)), Update(ExecutionRow(t))>>
         /\ \A op \in {"complete", "fail"} : Statements(op, t, n) =
              <<Select(TaskRow(t)), Update(AttemptRow(t, n)), Update(TaskRow(t)), Update(ExecutionRow(t))>>
         /\ Statements("next", t, n) =
              <<Select(TaskRow(t)), Update(AttemptRow(t, n)), Update(TaskRow(t)),
                Insert(TaskRow(Atomic!Successor(t)))>>
         /\ Statements("retry", t, n) = <<Update(AttemptRow(t, n)), Update(TaskRow(t))>>
         /\ Statements("scan", t, n) = <<>>
  BY Zenon DEF Statements

(* Rows of different tables are different, and so are rows of different    *)
(* tasks.                                                                  *)
LEMMA RowsDiffer ==
  ASSUME NEW t, NEW u
  PROVE  /\ TaskRow(t) = TaskRow(u) <=> t = u
         /\ TaskRow(t) # ExecutionRow(u)
         /\ \A n : TaskRow(t) # AttemptRow(u, n) /\ ExecutionRow(t) # AttemptRow(u, n)
         /\ \A n, m : AttemptRow(t, n) = AttemptRow(u, m) => t = u /\ n = m
  BY Zenon DEF TaskRow, ExecutionRow, AttemptRow

(* How many statements there are. *)
LEMMA StatementCounts ==
  ASSUME NEW op \in OnTask, NEW t, NEW n
  PROVE  Len(Statements(op, t, n)) \in {2, 3, 4}
  <1>1. op \in {"start", "retry"} => Len(Statements(op, t, n)) = 2
    BY StatementLists
  <1>2. op = "replay" => Len(Statements(op, t, n)) = 3
    BY StatementLists
  <1>3. op \in {"complete", "fail"} => Len(Statements(op, t, n)) = 4
    BY StatementLists
  <1>4. op = "next" => Len(Statements(op, t, n)) = 4
    BY StatementLists
  <1> QED
    BY <1>1, <1>2, <1>3, <1>4, Zenon DEF OnTask, Outcomes

(* What each statement of a transaction may be. *)
LEMMA StatementShape ==
  ASSUME NEW op \in OnTask, NEW t, NEW n,
         NEW L, L = Statements(op, t, n), NEW k \in 1 .. Len(L)
  PROVE  /\ Len(L) \in 1 .. 4
         /\ \/ L[k] = Select(TaskRow(t)) /\ k = 1 /\ op # "retry"
            \/ L[k] = Update(TaskRow(t)) /\ k > 1
            \/ L[k] = Update(AttemptRow(t, n)) /\ op \in Outcomes
            \/ L[k] = Update(ExecutionRow(t)) /\ k = Len(L)
            \/ L[k] = Insert(TaskRow(Atomic!Successor(t))) /\ op = "next" /\ k = 4 /\ k = Len(L)
         /\ op # "retry" => L[1] = Select(TaskRow(t))
         /\ op = "retry" => L[2] = Update(TaskRow(t)) /\ Len(L) = 2
         /\ op = "next" => L[4] = Insert(TaskRow(Atomic!Successor(t))) /\ Len(L) = 4
  <1>1. CASE op = "start"
    <2>1. Len(L) = 2 /\ L[1] = Select(TaskRow(t)) /\ L[2] = Update(TaskRow(t))
      BY <1>1, StatementLists
    <2> QED
      BY <1>1, <2>1
  <1>2. CASE op = "replay"
    <2>1. Len(L) = 3 /\ L[1] = Select(TaskRow(t)) /\ L[2] = Update(TaskRow(t))
          /\ L[3] = Update(ExecutionRow(t))
      BY <1>2, StatementLists
    <2>2. Len(L) \in 1 .. 4 /\ (k = 1 \/ (k = 2 /\ k > 1) \/ (k = 3 /\ k = Len(L)))
      BY <2>1
    <2> QED
      BY <1>2, <2>1, <2>2, Zenon
  <1>3. CASE op \in {"complete", "fail"}
    <2>1. Len(L) = 4 /\ L[1] = Select(TaskRow(t)) /\ L[2] = Update(AttemptRow(t, n))
          /\ L[3] = Update(TaskRow(t)) /\ L[4] = Update(ExecutionRow(t))
      BY <1>3, StatementLists
    <2> QED
      BY <1>3, <2>1 DEF Outcomes
  <1>4. CASE op = "next"
    <2>1. Len(L) = 4 /\ L[1] = Select(TaskRow(t)) /\ L[2] = Update(AttemptRow(t, n))
          /\ L[3] = Update(TaskRow(t)) /\ L[4] = Insert(TaskRow(Atomic!Successor(t)))
      BY <1>4, StatementLists
    <2>2. Len(L) \in 1 .. 4 /\ (k = 1 \/ k = 2 \/ (k = 3 /\ k > 1) \/ (k = 4 /\ k = Len(L)))
      BY <2>1
    <2> QED
      BY <1>4, <2>1, <2>2, Zenon DEF Outcomes
  <1>5. CASE op = "retry"
    <2>1. Len(L) = 2 /\ L[1] = Update(AttemptRow(t, n)) /\ L[2] = Update(TaskRow(t))
      BY <1>5, StatementLists
    <2> QED
      BY <1>5, <2>1 DEF Outcomes
  <1> QED
    BY <1>1, <1>2, <1>3, <1>4, <1>5, Zenon DEF OnTask, Outcomes

-----------------------------------------------------------------------------
(* Locks. *)

(* What a transaction has locked. *)
LEMMA LockedRows ==
  ASSUME NEW x \in TxRecord, WellFormed(x)
  PROVE  /\ x.op = "none" => RowsOf(x) = {}
         /\ x.op \in {"start", "replay"} /\ x.step > 0 => TaskRow(x.t) \in RowsOf(x)
         /\ x.op \in OnTask /\ x.step = Len(Statements(x.op, x.t, x.n)) => TaskRow(x.t) \in RowsOf(x)
         /\ x.op = "next" /\ x.step = 4 => TaskRow(Atomic!Successor(x.t)) \in RowsOf(x)
         /\ \A t \in x.due : TaskRow(t) \in RowsOf(x)
  <1> DEFINE L == Statements(x.op, x.t, x.n)
  <1>1. x.op = "none" => RowsOf(x) = {}
    BY DEF WellFormed, RowsOf, NoTx
  <1>2. \A k \in 1 .. x.step : L[k].row \in RowsOf(x)
    BY Zenon DEF RowsOf
  <1>3. ASSUME x.op \in OnTask
        PROVE  /\ Len(L) \in 1 .. 4
               /\ x.op # "retry" => L[1].row = TaskRow(x.t)
               /\ x.op = "retry" => L[2].row = TaskRow(x.t) /\ Len(L) = 2
               /\ x.op = "next" => L[4].row = TaskRow(Atomic!Successor(x.t))
    <2>0. Len(L) \in {2, 3, 4}
      BY <1>3, StatementCounts, Zenon
    <2>1. 1 \in 1 .. Len(L)
      <3> HIDE DEF L
      <3> QED
        BY <2>0
    <2>2. /\ Len(L) \in 1 .. 4
          /\ x.op # "retry" => L[1] = Select(TaskRow(x.t))
          /\ x.op = "retry" => L[2] = Update(TaskRow(x.t)) /\ Len(L) = 2
          /\ x.op = "next" => L[4] = Insert(TaskRow(Atomic!Successor(x.t)))
      BY <1>3, <2>1, StatementShape
    <2> QED
      BY <2>2 DEF Select, Update, Insert
  <1>4. x.step \in Nat
    BY Zenon DEF TxRecord
  <1>5. \A t \in x.due : TaskRow(t) \in RowsOf(x)
    BY Zenon DEF RowsOf
  <1> HIDE DEF L
  <1>6. x.op \in {"start", "replay"} /\ x.step > 0 => TaskRow(x.t) \in RowsOf(x)
    BY <1>2, <1>3, <1>4 DEF OnTask
  <1>7. x.op \in OnTask /\ x.step = Len(L) => TaskRow(x.t) \in RowsOf(x)
    BY <1>2, <1>3, <1>4
  <1>8. x.op = "next" /\ x.step = 4 => TaskRow(Atomic!Successor(x.t)) \in RowsOf(x)
    BY <1>2, <1>3, <1>4 DEF OnTask, Outcomes
  <1> QED
    BY <1>1, <1>5, <1>6, <1>7, <1>8, Zenon DEF L

(* The row of the next task is a task of the same execution. *)
LEMMA SuccessorOfTask ==
  ASSUME NEW t \in Tasks, NextTask[t[2]] # NoTask
  PROVE  /\ Atomic!Successor(t) \in Tasks
         /\ Atomic!Successor(t)[1] = t[1]
         /\ Atomic!Successor(t) # t
  BY TransactionsAssumption DEF Atomic!Successor, Tasks

(* A transaction goes on being well formed, and what it has seen true,     *)
(* while another one changes nothing but tasks whose rows it has locked.   *)
LEMMA OthersKept ==
  ASSUME TransactionsInv, NEW s \in Sessions, NEW u \in Sessions \ {s}, tx'[u] = tx[u],
         \A t \in Tasks : TaskRow(t) \notin RowsOf(tx[s]) =>
           status'[t] = status[t] /\ total'[t] = total[t] /\ nextRunAt'[t] = nextRunAt[t],
         \A t \in Tasks : status[t] # "none" => status'[t] # "none"
  PROVE  (WellFormed(tx[u]) /\ Fresh(tx[u]))'
  <1> DEFINE x == tx[u]
  <1>0. x \in TxRecord /\ WellFormed(x) /\ Fresh(x)
    BY Zenon DEF TransactionsInv, TransactionsTypeOK
  <1>1. \A r \in RowsOf(x) : r \notin RowsOf(tx[s])
    BY Zenon DEF TransactionsInv, Locking
  <1>2. \A t \in Tasks : TaskRow(t) \in RowsOf(x) =>
          status'[t] = status[t] /\ total'[t] = total[t] /\ nextRunAt'[t] = nextRunAt[t]
    BY <1>1, Zenon
  <1> HIDE DEF x
  <1>3. x.due \subseteq Tasks
    BY <1>0, Zenon DEF TxRecord
  <1>4. \A t \in x.due : t \in Atomic!DueTasks'
    BY <1>0, <1>2, <1>3, LockedRows DEF Fresh, Atomic!DueTasks, Atomic!Tasks, Tasks
  <1>5. x.op \in {"start", "replay"} /\ x.step > 0 => x.seen = status'[x.t] /\ x.count = total'[x.t]
    BY <1>0, <1>2, LockedRows, Zenon DEF Fresh, WellFormed, OnTask
  <1>6. x.op = "next" /\ x.step = 4 => status'[Atomic!Successor(x.t)] = "none"
    BY <1>0, <1>2, LockedRows, SuccessorOfTask, Zenon DEF Fresh, WellFormed, OnTask, Outcomes
  <1>7. tx'[u] = x
    BY Zenon DEF x
  <1>8. Fresh(tx[u])'
    BY <1>4, <1>5, <1>6, <1>7, Zenon DEF Fresh
  <1>9. WellFormed(tx[u])'
    BY <1>0, <1>7, Zenon DEF WellFormed
  <1> QED
    BY <1>8, <1>9, Zenon

(* A transaction that ends leaves the locks of the others, and what they   *)
(* have seen, as they were.                                                *)
LEMMA AfterEnd ==
  ASSUME TransactionsInv, NEW s \in Sessions, NEW a, End(s, a),
         \A t \in Tasks : TaskRow(t) \notin RowsOf(tx[s]) =>
           status'[t] = status[t] /\ total'[t] = total[t] /\ nextRunAt'[t] = nextRunAt[t],
         \A t \in Tasks : status[t] # "none" => status'[t] # "none"
  PROVE  /\ tx' \in [Sessions -> TxRecord]
         /\ \A u \in Sessions : (WellFormed(tx[u]) /\ Fresh(tx[u]))'
         /\ Locking'
  <1>0. tx \in [Sessions -> TxRecord] /\ NoTx \in TxRecord
    BY Zenon DEF TransactionsInv, TransactionsTypeOK, TxRecord, NoTx, Atomic!TaskStatus, OnTask
  <1>1. tx' \in [Sessions -> TxRecord] /\ tx'[s] = NoTx /\ \A u \in Sessions \ {s} : tx'[u] = tx[u]
    BY <1>0, Zenon DEF End
  <1>2. \A u \in Sessions \ {s} : (WellFormed(tx[u]) /\ Fresh(tx[u]))'
    BY <1>1, OthersKept, Zenon
  <1>3. WellFormed(NoTx)' /\ Fresh(NoTx)' /\ RowsOf(NoTx) = {}
    BY DEF WellFormed, Fresh, RowsOf, NoTx, OnTask, Outcomes
  <1>4. (WellFormed(tx[s]) /\ Fresh(tx[s]))'
    BY <1>1, <1>3, Zenon DEF WellFormed, Fresh
  <1>5. \A u \in Sessions : RowsOf(tx'[u]) = IF u = s THEN {} ELSE RowsOf(tx[u])
    BY <1>1, <1>3, Zenon
  <1>6. locks' = {l \in locks : l[2] # s}
    BY Zenon DEF End
  <1>7. Locking'
    <2>1. \A l \in locks' : l = <<l[1], l[2]>> /\ l[2] \in Sessions /\ l[1] \in RowsOf(tx'[l[2]])
      BY <1>5, <1>6 DEF TransactionsInv, Locking
    <2>2. \A u \in Sessions : \A r \in RowsOf(tx'[u]) : <<r, u>> \in locks'
      BY <1>5, <1>6, Zenon DEF TransactionsInv, Locking
    <2>3. \A u, v \in Sessions : \A r : <<r, u>> \in locks' /\ <<r, v>> \in locks' => u = v
      BY <1>6, Zenon DEF TransactionsInv, Locking
    <2> QED
      BY <2>1, <2>2, <2>3, Zenon DEF Locking
  <1> QED
    BY <1>1, <1>2, <1>4, <1>7, Zenon

(* A session that has reported, or rolled back, owns no attempt. *)
LEMMA OwnedAfterEnd ==
  ASSUME TransactionsInv, NEW s \in Sessions, End(s, NoAttempt),
         \A t \in Tasks : DOMAIN rows[t] \subseteq DOMAIN rows'[t],
         \A t \in Tasks : status[t] # "none" => status'[t] # "none"
  PROVE  Owned' /\ mine' \in [Sessions -> (Tasks \X Nat) \cup {NoAttempt}]
  <1>1. /\ mine \in [Sessions -> (Tasks \X Nat) \cup {NoAttempt}]
        /\ tx \in [Sessions -> TxRecord]
    BY Zenon DEF TransactionsInv, TransactionsTypeOK
  <1>2. /\ mine'[s] = NoAttempt /\ tx'[s].op = "none"
        /\ \A u \in Sessions \ {s} : mine'[u] = mine[u] /\ tx'[u] = tx[u]
        /\ mine' \in [Sessions -> (Tasks \X Nat) \cup {NoAttempt}]
    BY <1>1, Zenon DEF End, NoTx
  <1>3. \A u \in Sessions : mine[u] # NoAttempt => mine[u][1] \in Tasks
    BY <1>1, Zenon
  <1>4. ASSUME NEW u \in Sessions
        PROVE  /\ mine'[u] # NoAttempt =>
                    mine'[u][2] \in DOMAIN rows'[mine'[u][1]] /\ status'[mine'[u][1]] # "none"
               /\ tx'[u].op \in Outcomes => mine'[u] # NoAttempt /\ mine'[u] = <<tx'[u].t, tx'[u].n>>
               /\ tx'[u].op \in {"start", "replay", "scan"} => mine'[u] = NoAttempt
    <2>1. CASE u = s
      BY <1>2, <2>1, Zenon DEF Outcomes
    <2>2. CASE u # s
      BY <1>2, <1>3, <2>2 DEF TransactionsInv, Owned
    <2> QED
      BY <2>1, <2>2, Zenon
  <1>5. \A u, v \in Sessions : mine'[u] = mine'[v] /\ mine'[u] # NoAttempt => u = v
    BY <1>2 DEF TransactionsInv, Owned
  <1> QED
    BY <1>2, <1>4, <1>5, Zenon DEF Owned

(* An update of one attempt's status changes nothing else of the attempts. *)
LEMMA ReportFacts ==
  ASSUME TransactionsTypeOK, NEW t \in Tasks, NEW n \in DOMAIN rows[t],
         NEW st \in Atomic!AttemptStatus, Report(t, n, st)
  PROVE  /\ rows' \in [Tasks -> Seq(AttemptRecord)]
         /\ \A u \in Tasks :
              /\ Len(rows'[u]) = Len(rows[u]) /\ DOMAIN rows'[u] = DOMAIN rows[u]
              /\ \A k \in DOMAIN rows[u] :
                   /\ rows'[u][k].number = rows[u][k].number
                   /\ rows'[u][k].status = IF u = t /\ k = n THEN st ELSE rows[u][k].status
  <1>1. rows \in [Tasks -> Seq(AttemptRecord)] /\ rows' = [rows EXCEPT ![t][n].status = st]
    BY Zenon DEF TransactionsTypeOK, Report
  <1>2. \A u \in Tasks : rows'[u] = IF u = t THEN [rows[t] EXCEPT ![n].status = st] ELSE rows[u]
    BY <1>1, Zenon
  <1> DEFINE new == [rows[t] EXCEPT ![n].status = st]
  <1>3. rows[t] \in Seq(AttemptRecord)
    BY <1>1, Zenon
  <1>4. \A k \in DOMAIN rows[t] : rows[t][k] \in AttemptRecord
    BY <1>3
  <1>5. /\ new \in Seq(AttemptRecord)
        /\ DOMAIN new = DOMAIN rows[t] /\ Len(new) = Len(rows[t])
        /\ \A k \in DOMAIN rows[t] :
             new[k].number = rows[t][k].number /\ new[k].status = IF k = n THEN st ELSE rows[t][k].status
    BY <1>3, <1>4, SMTT(30) DEF AttemptRecord
  <1> HIDE DEF new
  <1> QED
    BY <1>1, <1>2, <1>5, Zenon DEF new

(* Inserting events keeps the outbox a sequence of events. *)
LEMMA EventsInserted ==
  ASSUME TransactionsTypeOK, NEW S
  PROVE  Atomic!InsertEvents(S) \in [Tasks -> Seq({"pending", "dispatched"})]
  BY DEF TransactionsTypeOK, Atomic!InsertEvents, Atomic!Tasks, Tasks

-----------------------------------------------------------------------------
(* Commits. *)

(* A transaction that is ready to commit has its task's row locked; what   *)
(* it read there is what is there, and its attempt is one of the task's.   *)
LEMMA ReadyFacts ==
  ASSUME TransactionsInv, NEW s \in Sessions, NEW op \in OnTask, Ready(s, op),
         NEW t, t = tx[s].t
  PROVE  /\ t \in Tasks /\ status[t] # "none" /\ exec[t[1]] # "none"
         /\ TaskRow(t) \in RowsOf(tx[s])
         /\ op \in {"start", "replay"} => tx[s].seen = status[t] /\ tx[s].count = total[t]
         /\ op \in Outcomes => tx[s].n \in DOMAIN rows[t]
         /\ op = "complete" => NextTask[t[2]] = NoTask
         /\ op = "next" => /\ NextTask[t[2]] # NoTask
                           /\ status[Atomic!Successor(t)] = "none"
                           /\ TaskRow(Atomic!Successor(t)) \in RowsOf(tx[s])
  <1> DEFINE x == tx[s]
             L == Statements(op, t, x.n)
  <1>1. x \in TxRecord /\ WellFormed(x) /\ Fresh(x) /\ x.op = op /\ x.t = t
    BY Zenon DEF TransactionsInv, TransactionsTypeOK, Ready
  <1>2. ~(x.step < Len(L)) /\ x.step \in Nat
    BY <1>1, Zenon DEF Ready, Pending, StatementsOf, TxRecord, OnTask, Outcomes
  <1>3. x.step <= Len(L) /\ t \in Tasks /\ status[t] # "none"
    BY <1>1, Zenon DEF WellFormed
  <1>4. Len(L) \in {2, 3, 4}
    BY StatementCounts, Zenon
  <1>5. op = "next" => Len(L) = 4
    BY StatementLists
  <1>6. x.step = Len(L) /\ x.step > 0
    <2> HIDE DEF L, x
    <2>1. Len(L) \in Nat /\ Len(L) > 0
      BY <1>4, SMTT(30)
    <2>2. \A i, j \in Nat : ~(i < j) /\ i <= j /\ j > 0 => i = j /\ i > 0
      OBVIOUS
    <2> QED
      BY <1>2, <1>3, <2>1, <2>2, Zenon
  <1>7. TaskRow(t) \in RowsOf(x)
    BY <1>1, <1>6, LockedRows, Zenon
  <1>8. op = "next" => x.step = 4
    BY <1>5, <1>6, Zenon
  <1>9. op = "next" => /\ NextTask[t[2]] # NoTask
                       /\ status[Atomic!Successor(t)] = "none"
                       /\ TaskRow(Atomic!Successor(t)) \in RowsOf(x)
    BY <1>1, <1>8, LockedRows, Zenon DEF WellFormed, Fresh
  <1>10. op \in Outcomes => x.n \in DOMAIN rows[t]
    BY <1>1 DEF TransactionsInv, Owned
  <1>11. op \in {"start", "replay"} => x.seen = status[t] /\ x.count = total[t]
    BY <1>1, <1>6, Zenon DEF Fresh
  <1>12. exec[t[1]] # "none"
    BY <1>3, Zenon DEF TransactionsInv, KnownExecutions
  <1> QED
    BY <1>1, <1>3, <1>7, <1>9, <1>10, <1>11, <1>12, Zenon DEF WellFormed

(* The commit of an outcome keeps everything but the rows it has locked.   *)
LEMMA OutcomeCommits ==
  ASSUME TransactionsInv, NEW s \in Sessions, NEW op \in Outcomes, Ready(s, op),
         NEW t, t = tx[s].t, NEW st \in Atomic!AttemptStatus,
         Report(t, tx[s].n, st), End(s, NoAttempt), UNCHANGED total,
         status' \in [Tasks -> Atomic!TaskStatus],
         nextRunAt' \in [Tasks -> {"none", "future", "due"}],
         exec' \in [Executions -> Atomic!ExecutionStatus],
         outbox' \in [Tasks -> Seq({"pending", "dispatched"})],
         replays' \in Nat,
         \A e \in Executions : exec[e] # "none" => exec'[e] # "none",
         \A u \in Tasks : \/ status'[u] = status[u] /\ nextRunAt'[u] = nextRunAt[u]
                          \/ /\ TaskRow(u) \in RowsOf(tx[s]) /\ status'[u] # "none"
                             /\ u[1] = t[1]
  PROVE  TransactionsInv'
  <1>0. op \in OnTask /\ TransactionsTypeOK
    BY Zenon DEF OnTask, TransactionsInv
  <1>1. t \in Tasks /\ tx[s].n \in DOMAIN rows[t] /\ exec[t[1]] # "none"
    BY <1>0, ReadyFacts
  <1>2. /\ rows' \in [Tasks -> Seq(AttemptRecord)]
        /\ \A u \in Tasks :
             /\ Len(rows'[u]) = Len(rows[u]) /\ DOMAIN rows'[u] = DOMAIN rows[u]
             /\ \A k \in DOMAIN rows[u] : rows'[u][k].number = rows[u][k].number
    BY <1>0, <1>1, ReportFacts
  <1>3. /\ tx' \in [Sessions -> TxRecord]
        /\ \A u \in Sessions : (WellFormed(tx[u]) /\ Fresh(tx[u]))'
        /\ Locking'
    BY AfterEnd, Zenon
  <1>4. Owned' /\ mine' \in [Sessions -> (Tasks \X Nat) \cup {NoAttempt}]
    BY <1>2, OwnedAfterEnd, Zenon
  <1>5. KnownExecutions'
    BY <1>1, Zenon DEF KnownExecutions, TransactionsInv, Tasks
  <1>6. AttemptNumbersDistinct'
    <2> SUFFICES ASSUME NEW u \in Tasks
                 PROVE  total'[u] = Len(rows'[u]) /\ \A k \in DOMAIN rows'[u] : rows'[u][k].number = k
      BY Zenon DEF AttemptNumbersDistinct
    <2>1. total[u] = Len(rows[u]) /\ \A k \in DOMAIN rows[u] : rows[u][k].number = k
      BY Zenon DEF AttemptNumbersDistinct, TransactionsInv
    <2> QED
      BY <1>2, <2>1, Zenon
  <1>7. TransactionsTypeOK'
    BY <1>0, <1>2, <1>3, <1>4, Zenon DEF TransactionsTypeOK
  <1> QED
    BY <1>3, <1>4, <1>5, <1>6, <1>7, Zenon DEF TransactionsInv

LEMMA CommitOutcomeSteps ==
  ASSUME TransactionsInv, NEW s \in Sessions,
         CommitComplete(s) \/ CommitEnqueueNext(s) \/ CommitRetry(s) \/ CommitFail(s)
  PROVE  TransactionsInv'
  <1> DEFINE t == tx[s].t
  <1>0. TransactionsTypeOK
    BY Zenon DEF TransactionsInv
  <1>1. CASE CommitComplete(s)
    <2>1. Ready(s, "complete") /\ "complete" \in Outcomes /\ "complete" \in OnTask
      BY <1>1, Zenon DEF CommitComplete, Outcomes, OnTask
    <2>2. t \in Tasks /\ TaskRow(t) \in RowsOf(tx[s])
      BY <2>1, ReadyFacts, Zenon
    <2> HIDE DEF t
    <2>3. /\ Report(t, tx[s].n, "succeeded") /\ End(s, NoAttempt)
          /\ UNCHANGED <<nextRunAt, outbox, replays, total>>
          /\ status' = [status EXCEPT ![t] = "succeeded"]
          /\ exec' = [exec EXCEPT ![t[1]] = "succeeded"]
      BY <1>1, Zenon DEF CommitComplete, t
    <2>4. /\ status' \in [Tasks -> Atomic!TaskStatus] /\ exec' \in [Executions -> Atomic!ExecutionStatus]
          /\ "succeeded" \in Atomic!AttemptStatus
      BY <1>0, <2>2, <2>3, Zenon DEF TransactionsTypeOK, Atomic!TaskStatus, Atomic!ExecutionStatus,
           Atomic!AttemptStatus, Tasks
    <2>5. /\ \A e \in Executions : exec[e] # "none" => exec'[e] # "none"
          /\ \A u \in Tasks : u # t => status'[u] = status[u]
          /\ status'[t] # "none"
      BY <1>0, <2>2, <2>3, Zenon DEF TransactionsTypeOK
    <2>6. \A u \in Tasks : \/ status'[u] = status[u] /\ nextRunAt'[u] = nextRunAt[u]
                           \/ TaskRow(u) \in RowsOf(tx[s]) /\ status'[u] # "none" /\ u[1] = t[1]
      BY <2>2, <2>3, <2>5, Zenon
    <2>7. t = tx[s].t
      BY Zenon DEF t
    <2> QED
      BY <1>0, <2>1, <2>3, <2>4, <2>5, <2>6, <2>7, OutcomeCommits, ZenonT(30) DEF TransactionsTypeOK
  <1>2. CASE CommitEnqueueNext(s)
    <2> DEFINE next == Atomic!Successor(t)
    <2>1. Ready(s, "next") /\ "next" \in Outcomes /\ "next" \in OnTask
      BY <1>2, Zenon DEF CommitEnqueueNext, Outcomes, OnTask
    <2>2. /\ t \in Tasks /\ TaskRow(t) \in RowsOf(tx[s])
          /\ TaskRow(next) \in RowsOf(tx[s]) /\ NextTask[t[2]] # NoTask
      BY <2>1, ReadyFacts
    <2>3. next \in Tasks /\ next[1] = t[1]
      BY <2>2, SuccessorOfTask, Zenon
    <2>4. Atomic!InsertEvents({next}) \in [Tasks -> Seq({"pending", "dispatched"})]
      BY <1>0, EventsInserted, Zenon
    <2> HIDE DEF t, next
    <2>5. /\ Report(t, tx[s].n, "succeeded") /\ End(s, NoAttempt)
          /\ UNCHANGED <<exec, nextRunAt, replays, total>>
          /\ status' = [status EXCEPT ![t] = "succeeded", ![next] = "pending"]
          /\ outbox' \in [Tasks -> Seq({"pending", "dispatched"})]
      BY <1>2, <2>4, Zenon DEF CommitEnqueueNext, t, next
    <2>6. status' \in [Tasks -> Atomic!TaskStatus] /\ "succeeded" \in Atomic!AttemptStatus
      BY <1>0, <2>2, <2>3, <2>5, Zenon DEF TransactionsTypeOK, Atomic!TaskStatus, Atomic!AttemptStatus
    <2>7. /\ \A u \in Tasks : u # t /\ u # next => status'[u] = status[u]
          /\ status'[t] # "none" /\ status'[next] # "none"
      BY <1>0, <2>2, <2>3, <2>5, Zenon DEF TransactionsTypeOK
    <2>8. \A u \in Tasks : \/ status'[u] = status[u] /\ nextRunAt'[u] = nextRunAt[u]
                           \/ TaskRow(u) \in RowsOf(tx[s]) /\ status'[u] # "none" /\ u[1] = t[1]
      BY <2>2, <2>3, <2>5, <2>7, Zenon
    <2>9. t = tx[s].t
      BY Zenon DEF t
    <2> QED
      BY <1>0, <2>1, <2>5, <2>6, <2>8, <2>9, OutcomeCommits, ZenonT(30) DEF TransactionsTypeOK
  <1>3. CASE CommitRetry(s)
    <2>1. Ready(s, "retry") /\ "retry" \in Outcomes /\ "retry" \in OnTask
      BY <1>3, Zenon DEF CommitRetry, Outcomes, OnTask
    <2>2. t \in Tasks /\ TaskRow(t) \in RowsOf(tx[s])
      BY <2>1, ReadyFacts, Zenon
    <2> HIDE DEF t
    <2>3. /\ Report(t, tx[s].n, "failed") /\ End(s, NoAttempt)
          /\ UNCHANGED <<exec, outbox, replays, total>>
          /\ status' = [status EXCEPT ![t] = "pending"]
          /\ nextRunAt' = [nextRunAt EXCEPT ![t] = "future"]
      BY <1>3, Zenon DEF CommitRetry, t
    <2>4. /\ status' \in [Tasks -> Atomic!TaskStatus]
          /\ nextRunAt' \in [Tasks -> {"none", "future", "due"}]
          /\ "failed" \in Atomic!AttemptStatus
      BY <1>0, <2>2, <2>3, Zenon DEF TransactionsTypeOK, Atomic!TaskStatus, Atomic!AttemptStatus
    <2>5. /\ \A u \in Tasks : u # t => status'[u] = status[u] /\ nextRunAt'[u] = nextRunAt[u]
          /\ status'[t] # "none"
      BY <1>0, <2>2, <2>3, Zenon DEF TransactionsTypeOK
    <2>6. \A u \in Tasks : \/ status'[u] = status[u] /\ nextRunAt'[u] = nextRunAt[u]
                           \/ TaskRow(u) \in RowsOf(tx[s]) /\ status'[u] # "none" /\ u[1] = t[1]
      BY <2>2, <2>3, <2>5, Zenon
    <2>7. t = tx[s].t
      BY Zenon DEF t
    <2> QED
      BY <1>0, <2>1, <2>3, <2>4, <2>5, <2>6, <2>7, OutcomeCommits, ZenonT(30) DEF TransactionsTypeOK
  <1>4. CASE CommitFail(s)
    <2>1. Ready(s, "fail") /\ "fail" \in Outcomes /\ "fail" \in OnTask
      BY <1>4, Zenon DEF CommitFail, Outcomes, OnTask
    <2>2. t \in Tasks /\ TaskRow(t) \in RowsOf(tx[s])
      BY <2>1, ReadyFacts, Zenon
    <2> HIDE DEF t
    <2>3. /\ Report(t, tx[s].n, "failed") /\ End(s, NoAttempt)
          /\ UNCHANGED <<outbox, replays, total>>
          /\ status' = [status EXCEPT ![t] = "dead_lettered"]
          /\ nextRunAt' = [nextRunAt EXCEPT ![t] = "none"]
          /\ exec' = [exec EXCEPT ![t[1]] = "failed"]
      BY <1>4, Zenon DEF CommitFail, t
    <2>4. /\ status' \in [Tasks -> Atomic!TaskStatus] /\ exec' \in [Executions -> Atomic!ExecutionStatus]
          /\ nextRunAt' \in [Tasks -> {"none", "future", "due"}]
          /\ "failed" \in Atomic!AttemptStatus
      BY <1>0, <2>2, <2>3, Zenon DEF TransactionsTypeOK, Atomic!TaskStatus, Atomic!ExecutionStatus,
           Atomic!AttemptStatus, Tasks
    <2>5. /\ \A e \in Executions : exec[e] # "none" => exec'[e] # "none"
          /\ \A u \in Tasks : u # t => status'[u] = status[u] /\ nextRunAt'[u] = nextRunAt[u]
          /\ status'[t] # "none"
      BY <1>0, <2>2, <2>3, Zenon DEF TransactionsTypeOK
    <2>6. \A u \in Tasks : \/ status'[u] = status[u] /\ nextRunAt'[u] = nextRunAt[u]
                           \/ TaskRow(u) \in RowsOf(tx[s]) /\ status'[u] # "none" /\ u[1] = t[1]
      BY <2>2, <2>3, <2>5, Zenon
    <2>7. t = tx[s].t
      BY Zenon DEF t
    <2>8. /\ outbox' \in [Tasks -> Seq({"pending", "dispatched"})] /\ replays' \in Nat
          /\ UNCHANGED total
      BY <1>0, <2>3, Zenon DEF TransactionsTypeOK
    <2>9. Report(t, tx[s].n, "failed") /\ End(s, NoAttempt)
      BY <2>3, Zenon
    <2> QED
      BY <2>1, <2>4, <2>5, <2>6, <2>7, <2>8, <2>9, OutcomeCommits, Zenon
  <1> QED
    BY <1>1, <1>2, <1>3, <1>4, Zenon

(* StartTaskAttempt gives the next number, and its session an attempt that *)
(* no other session has.                                                   *)
LEMMA CommitStartStep ==
  ASSUME TransactionsInv, NEW s \in Sessions, CommitStart(s)
  PROVE  TransactionsInv'
  <1> DEFINE t == tx[s].t
             n == Len(rows[t]) + 1
             new == [number |-> n, status |-> "running"]
  <1>0. TransactionsTypeOK /\ Owned /\ AttemptNumbersDistinct /\ KnownExecutions
    BY Zenon DEF TransactionsInv
  <1>1. Ready(s, "start") /\ "start" \in OnTask
    BY Zenon DEF CommitStart, OnTask
  <1>2. /\ t \in Tasks /\ status[t] # "none" /\ exec[t[1]] # "none"
        /\ TaskRow(t) \in RowsOf(tx[s]) /\ tx[s].count = total[t]
    BY <1>1, ReadyFacts
  <1>3. rows[t] \in Seq(AttemptRecord) /\ Len(rows[t]) \in Nat /\ total[t] = Len(rows[t])
    BY <1>0, <1>2 DEF TransactionsTypeOK, AttemptNumbersDistinct
  <1>4. /\ rows' = [rows EXCEPT ![t] = Append(@, new)]
        /\ total' = [total EXCEPT ![t] = n]
        /\ status' = [status EXCEPT ![t] = "running"]
        /\ nextRunAt' = [nextRunAt EXCEPT ![t] = "none"]
        /\ End(s, <<t, n>>)
        /\ UNCHANGED <<exec, outbox, replays>>
    BY <1>2, <1>3, Zenon DEF CommitStart
  <1> HIDE DEF t
  <1>5. n \in Nat /\ new \in AttemptRecord /\ new.number = n
    BY <1>3 DEF AttemptRecord, Atomic!AttemptStatus
  <1>6. /\ rows' \in [Tasks -> Seq(AttemptRecord)]
        /\ \A u \in Tasks \ {t} : rows'[u] = rows[u]
        /\ rows'[t] = Append(rows[t], new)
    <2>1. Append(rows[t], new) \in Seq(AttemptRecord)
      BY <1>3, <1>5
    <2> HIDE DEF new
    <2> QED
      BY <1>0, <1>2, <1>4, <2>1, Zenon DEF TransactionsTypeOK
  <1>7. /\ Len(rows'[t]) = n
        /\ DOMAIN rows'[t] = 1 .. n /\ DOMAIN rows[t] = 1 .. Len(rows[t])
        /\ \A k \in 1 .. Len(rows[t]) : rows'[t][k] = rows[t][k]
        /\ rows'[t][n] = new
    BY <1>3, <1>5, <1>6
  <1> HIDE DEF new
  <1>8. /\ status' \in [Tasks -> Atomic!TaskStatus] /\ total' \in [Tasks -> Nat]
        /\ nextRunAt' \in [Tasks -> {"none", "future", "due"}]
        /\ \A u \in Tasks \ {t} :
             status'[u] = status[u] /\ total'[u] = total[u] /\ nextRunAt'[u] = nextRunAt[u]
        /\ status'[t] # "none" /\ total'[t] = n
    BY <1>0, <1>2, <1>4, <1>5, Zenon DEF TransactionsTypeOK, Atomic!TaskStatus
  <1>9. /\ tx' \in [Sessions -> TxRecord]
        /\ \A u \in Sessions : (WellFormed(tx[u]) /\ Fresh(tx[u]))'
        /\ Locking'
    BY <1>2, <1>4, <1>8, AfterEnd, Zenon
  <1>10. AttemptNumbersDistinct'
    <2> SUFFICES ASSUME NEW u \in Tasks
                 PROVE  total'[u] = Len(rows'[u]) /\ \A k \in DOMAIN rows'[u] : rows'[u][k].number = k
      BY Zenon DEF AttemptNumbersDistinct
    <2>1. total[u] = Len(rows[u]) /\ \A k \in DOMAIN rows[u] : rows[u][k].number = k
      BY <1>0, Zenon DEF AttemptNumbersDistinct
    <2>2. CASE u # t
      BY <1>6, <1>8, <2>1, <2>2, Zenon
    <2>3. CASE u = t
      <3>1. \A k \in 1 .. n : k # n => k \in 1 .. Len(rows[t])
        BY <1>3
      <3> HIDE DEF n
      <3>2. \A k \in 1 .. n : rows'[t][k].number = k
        BY <1>5, <1>7, <2>1, <2>3, <3>1, Zenon
      <3> QED
        BY <1>7, <1>8, <2>3, <3>2, Zenon
    <2> QED
      BY <2>2, <2>3, Zenon
  <1>11. /\ mine' \in [Sessions -> (Tasks \X Nat) \cup {NoAttempt}]
         /\ mine'[s] = <<t, n>> /\ \A u \in Sessions \ {s} : mine'[u] = mine[u]
         /\ tx'[s].op = "none" /\ \A u \in Sessions \ {s} : tx'[u] = tx[u]
    BY <1>0, <1>2, <1>4, <1>5, Zenon DEF TransactionsTypeOK, End, NoTx
  <1>12. Owned'
    <2>1. \A u \in Tasks : DOMAIN rows[u] \subseteq DOMAIN rows'[u]
      BY <1>3, <1>5, <1>6, <1>7, SMTT(30)
    <2>2. \A u \in Sessions : mine[u] # NoAttempt => mine[u][1] \in Tasks
      BY <1>0, Zenon DEF TransactionsTypeOK
    <2>3. n \in DOMAIN rows'[t] /\ n \notin DOMAIN rows[t]
      BY <1>3, <1>5, <1>7
    <2> HIDE DEF n
    <2>4. ASSUME NEW u \in Sessions
          PROVE  /\ mine'[u] # NoAttempt =>
                    mine'[u][2] \in DOMAIN rows'[mine'[u][1]] /\ status'[mine'[u][1]] # "none"
                 /\ tx'[u].op \in Outcomes => mine'[u] # NoAttempt /\ mine'[u] = <<tx'[u].t, tx'[u].n>>
                 /\ tx'[u].op \in {"start", "replay", "scan"} => mine'[u] = NoAttempt
      <3>1. CASE u = s
        BY <1>8, <1>11, <2>3, <3>1 DEF Outcomes
      <3>2. CASE u # s
        BY <1>0, <1>8, <1>11, <2>1, <2>2, <3>2 DEF Owned
      <3> QED
        BY <3>1, <3>2, Zenon
    <2>5. \A u \in Sessions \ {s} : mine[u] # NoAttempt => mine[u] # <<t, n>>
      BY <1>0, <2>3 DEF Owned
    <2>6. \A u, v \in Sessions : mine'[u] = mine'[v] /\ mine'[u] # NoAttempt => u = v
      BY <1>0, <1>11, <2>5 DEF Owned
    <2> QED
      BY <2>4, <2>6, Zenon DEF Owned
  <1>13. KnownExecutions'
    BY <1>0, <1>2, <1>4, <1>8, Zenon DEF KnownExecutions
  <1>14. TransactionsTypeOK'
    BY <1>0, <1>4, <1>6, <1>8, <1>9, <1>11, Zenon DEF TransactionsTypeOK
  <1> QED
    BY <1>9, <1>10, <1>12, <1>13, <1>14, Zenon DEF TransactionsInv

(* A transaction that changes no attempt and ends without one. *)
LEMMA PlainEnd ==
  ASSUME TransactionsInv, NEW s \in Sessions, End(s, NoAttempt), UNCHANGED <<total, rows>>,
         status' \in [Tasks -> Atomic!TaskStatus],
         nextRunAt' \in [Tasks -> {"none", "future", "due"}],
         exec' \in [Executions -> Atomic!ExecutionStatus],
         outbox' \in [Tasks -> Seq({"pending", "dispatched"})],
         replays' \in Nat,
         \A e \in Executions : exec[e] # "none" => exec'[e] # "none",
         \A u \in Tasks : \/ status'[u] = status[u] /\ nextRunAt'[u] = nextRunAt[u]
                          \/ /\ TaskRow(u) \in RowsOf(tx[s])
                             /\ status[u] # "none" /\ status'[u] # "none"
  PROVE  TransactionsInv'
  <1>1. /\ tx' \in [Sessions -> TxRecord]
        /\ \A u \in Sessions : (WellFormed(tx[u]) /\ Fresh(tx[u]))'
        /\ Locking'
    BY AfterEnd, Zenon
  <1>2. Owned' /\ mine' \in [Sessions -> (Tasks \X Nat) \cup {NoAttempt}]
    BY OwnedAfterEnd, Zenon
  <1>3. KnownExecutions' /\ AttemptNumbersDistinct'
    BY Zenon DEF KnownExecutions, AttemptNumbersDistinct, TransactionsInv, Tasks
  <1>4. TransactionsTypeOK'
    BY <1>1, <1>2, Zenon DEF TransactionsTypeOK, TransactionsInv
  <1> QED
    BY <1>1, <1>2, <1>3, <1>4, Zenon DEF TransactionsInv

LEMMA CommitReplayStep ==
  ASSUME TransactionsInv, NEW s \in Sessions, CommitReplay(s)
  PROVE  TransactionsInv'
  <1> DEFINE t == tx[s].t
  <1>0. TransactionsTypeOK
    BY Zenon DEF TransactionsInv
  <1>1. Ready(s, "replay") /\ "replay" \in OnTask
    BY Zenon DEF CommitReplay, OnTask
  <1>2. t \in Tasks /\ status[t] # "none" /\ TaskRow(t) \in RowsOf(tx[s])
    BY <1>1, ReadyFacts, Zenon
  <1>3. Atomic!InsertEvents({t}) \in [Tasks -> Seq({"pending", "dispatched"})]
    BY <1>0, EventsInserted, Zenon
  <1>4. /\ status' = [status EXCEPT ![t] = "pending"]
        /\ nextRunAt' = [nextRunAt EXCEPT ![t] = "none"]
        /\ exec' = [exec EXCEPT ![t[1]] = "running"]
        /\ outbox' = Atomic!InsertEvents({t})
        /\ replays' = replays + 1
        /\ End(s, NoAttempt)
        /\ UNCHANGED <<total, rows>>
    BY Zenon DEF CommitReplay
  <1> HIDE DEF t
  <1>5. /\ status' \in [Tasks -> Atomic!TaskStatus]
        /\ nextRunAt' \in [Tasks -> {"none", "future", "due"}]
        /\ exec' \in [Executions -> Atomic!ExecutionStatus]
        /\ replays' \in Nat
        /\ \A e \in Executions : exec[e] # "none" => exec'[e] # "none"
    BY <1>0, <1>2, <1>4 DEF TransactionsTypeOK, Atomic!TaskStatus, Atomic!ExecutionStatus, Tasks
  <1>6. /\ \A u \in Tasks \ {t} : status'[u] = status[u] /\ nextRunAt'[u] = nextRunAt[u]
        /\ status'[t] # "none"
    BY <1>0, <1>2, <1>4, Zenon DEF TransactionsTypeOK
  <1> QED
    BY <1>2, <1>3, <1>4, <1>5, <1>6, PlainEnd, Zenon

LEMMA CommitScanStep ==
  ASSUME TransactionsInv, NEW s \in Sessions, CommitScan(s)
  PROVE  TransactionsInv'
  <1> DEFINE S == tx[s].due
  <1>0. TransactionsTypeOK /\ tx[s] \in TxRecord /\ WellFormed(tx[s]) /\ Fresh(tx[s])
    BY Zenon DEF TransactionsInv, TransactionsTypeOK
  <1>1. \A t \in S : TaskRow(t) \in RowsOf(tx[s]) /\ status[t] = "pending"
    BY <1>0, LockedRows, Zenon DEF Fresh, Atomic!DueTasks
  <1>2. Atomic!InsertEvents(S) \in [Tasks -> Seq({"pending", "dispatched"})]
    BY <1>0, EventsInserted, Zenon
  <1>3. /\ outbox' = Atomic!InsertEvents(S)
        /\ nextRunAt' = [t \in Tasks |-> IF t \in S THEN "none" ELSE nextRunAt[t]]
        /\ End(s, NoAttempt)
        /\ UNCHANGED <<exec, status, replays, total, rows>>
    BY Zenon DEF CommitScan
  <1> HIDE DEF S
  <1>4. /\ nextRunAt' \in [Tasks -> {"none", "future", "due"}]
        /\ \A t \in Tasks : t \notin S => nextRunAt'[t] = nextRunAt[t]
    BY <1>0, <1>3, Zenon DEF TransactionsTypeOK
  <1>5. \A t \in Tasks : \/ status'[t] = status[t] /\ nextRunAt'[t] = nextRunAt[t]
                         \/ TaskRow(t) \in RowsOf(tx[s]) /\ status[t] # "none" /\ status'[t] # "none"
    BY <1>1, <1>3, <1>4, Zenon
  <1> QED
    BY <1>0, <1>2, <1>3, <1>4, <1>5, PlainEnd, Zenon DEF TransactionsTypeOK

LEMMA RollbackStep ==
  ASSUME TransactionsInv, NEW s \in Sessions, Rollback(s)
  PROVE  TransactionsInv'
  BY PlainEnd, Zenon DEF Rollback, committed, TransactionsInv, TransactionsTypeOK

-----------------------------------------------------------------------------
(* Steps within a transaction. *)

(* Nothing is committed: every other session is as it was. *)
LEMMA OthersStay ==
  ASSUME TransactionsInv, NEW s \in Sessions, NEW x \in TxRecord,
         tx' = [tx EXCEPT ![s] = x], UNCHANGED committed
  PROVE  /\ tx' \in [Sessions -> TxRecord]
         /\ tx'[s] = x /\ \A u \in Sessions \ {s} : tx'[u] = tx[u]
         /\ \A u \in Sessions \ {s} : (WellFormed(tx[u]) /\ Fresh(tx[u]))'
         /\ \A y : WellFormed(y)' <=> WellFormed(y)
         /\ \A y : Fresh(y)' <=> Fresh(y)
  <1>1. /\ tx' \in [Sessions -> TxRecord]
        /\ tx'[s] = x /\ \A u \in Sessions \ {s} : tx'[u] = tx[u]
    BY Zenon DEF TransactionsInv, TransactionsTypeOK
  <1>2. UNCHANGED <<exec, status, nextRunAt, outbox, replays, total, rows>>
    BY Zenon DEF committed
  <1>3. \A u \in Sessions \ {s} : (WellFormed(tx[u]) /\ Fresh(tx[u]))'
    BY <1>1, <1>2, OthersKept, Zenon
  <1>4. /\ \A y : WellFormed(y)' <=> WellFormed(y)
        /\ \A y : Fresh(y)' <=> Fresh(y)
    BY <1>2, Zenon DEF WellFormed, Fresh, Atomic!DueTasks
  <1> QED
    BY <1>1, <1>3, <1>4, Zenon

(* A transaction that begins has locked nothing. *)
LEMMA BeginStep ==
  ASSUME TransactionsInv, NEW s \in Sessions, NEW op \in OnTask, NEW t \in Tasks, NEW n \in Nat,
         Begin(s, op, t, n), status[t] # "none",
         op = "complete" => NextTask[t[2]] = NoTask,
         op = "next" => NextTask[t[2]] # NoTask,
         op \in Outcomes => mine[s] # NoAttempt /\ mine[s] = <<t, n>>,
         op \notin Outcomes => mine[s] = NoAttempt
  PROVE  TransactionsInv'
  <1> DEFINE x == [NoTx EXCEPT !.op = op, !.t = t, !.n = n]
  <1>0. /\ x \in TxRecord /\ x.op = op /\ x.t = t /\ x.n = n /\ x.due = {} /\ x.step = 0
    BY Zenon DEF TxRecord, NoTx, Atomic!TaskStatus
  <1>1. tx' = [tx EXCEPT ![s] = x] /\ tx[s].op = "none" /\ UNCHANGED <<committed, locks, mine>>
    BY Zenon DEF Begin
  <1>2. UNCHANGED <<exec, status, nextRunAt, outbox, replays, total, rows>>
    BY <1>1, Zenon DEF committed
  <1>3. op \notin {"none", "scan"}
    BY Zenon DEF OnTask, Outcomes
  <1> HIDE DEF x
  <1>4. /\ tx' \in [Sessions -> TxRecord]
        /\ tx'[s] = x /\ \A u \in Sessions \ {s} : tx'[u] = tx[u]
        /\ \A u \in Sessions \ {s} : (WellFormed(tx[u]) /\ Fresh(tx[u]))'
    BY <1>0, <1>1, OthersStay, Zenon
  <1>5. WellFormed(x)' /\ Fresh(x)' /\ RowsOf(x) = {}
    <2>1. 0 <= Len(Statements(op, t, n))
      BY StatementCounts
    <2> QED
      BY <1>0, <1>2, <1>3, <2>1 DEF WellFormed, Fresh, RowsOf
  <1>6. (WellFormed(tx[s]) /\ Fresh(tx[s]))'
    BY <1>4, <1>5, Zenon DEF WellFormed, Fresh
  <1>7. RowsOf(tx[s]) = {}
    BY <1>1, LockedRows, Zenon DEF TransactionsInv, TransactionsTypeOK
  <1>8. \A u \in Sessions : RowsOf(tx'[u]) = RowsOf(tx[u])
    BY <1>4, <1>5, <1>7, Zenon
  <1>9. Locking'
    BY <1>1, <1>8, Zenon DEF TransactionsInv, Locking
  <1>10. Owned'
    <2>1. Owned /\ mine' = mine /\ rows' = rows /\ status' = status
      BY <1>1, <1>2, Zenon DEF TransactionsInv
    <2>2. /\ op \in Outcomes => mine[s] # NoAttempt /\ mine[s] = <<x.t, x.n>>
          /\ op \in {"start", "replay", "scan"} => mine[s] = NoAttempt
      BY <1>0, Zenon DEF Outcomes
    <2>3. ASSUME NEW u \in Sessions
          PROVE  /\ tx'[u].op \in Outcomes => mine[u] # NoAttempt /\ mine[u] = <<tx'[u].t, tx'[u].n>>
                 /\ tx'[u].op \in {"start", "replay", "scan"} => mine[u] = NoAttempt
      <3>1. CASE u = s
        BY <1>0, <1>4, <2>2, <3>1, Zenon
      <3>2. CASE u # s
        BY <1>4, <2>1, <3>2, Zenon DEF Owned
      <3> QED
        BY <3>1, <3>2, Zenon
    <2> QED
      BY <2>1, <2>3, Zenon DEF Owned
  <1>11. KnownExecutions' /\ AttemptNumbersDistinct' /\ TransactionsTypeOK'
    BY <1>1, <1>2, <1>4, Zenon
       DEF KnownExecutions, AttemptNumbersDistinct, TransactionsTypeOK, TransactionsInv
  <1> QED
    BY <1>4, <1>6, <1>9, <1>10, <1>11, Zenon DEF TransactionsInv

LEMMA BeginSteps ==
  ASSUME TransactionsInv, NEW s \in Sessions, BeginStart(s) \/ BeginReplay(s) \/ BeginOutcome(s)
  PROVE  TransactionsInv'
  <1>1. CASE BeginStart(s)
    BY <1>1, BeginStep, Zenon DEF BeginStart, OnTask, Outcomes
  <1>2. CASE BeginReplay(s)
    BY <1>2, BeginStep, Zenon DEF BeginReplay, OnTask, Outcomes
  <1>3. CASE BeginOutcome(s)
    <2>1. mine[s] # NoAttempt /\ mine[s] \in Tasks \X Nat
      BY <1>3, Zenon DEF BeginOutcome, TransactionsInv, TransactionsTypeOK
    <2>2. /\ mine[s] = <<mine[s][1], mine[s][2]>> /\ mine[s][1] \in Tasks /\ mine[s][2] \in Nat
          /\ status[mine[s][1]] # "none"
      BY <2>1 DEF TransactionsInv, Owned
    <2> PICK t \in Tasks, n \in Nat : t = mine[s][1] /\ n = mine[s][2]
      BY <2>2, Zenon
    <2>3. PICK op : /\ op \in {IF NextTask[t[2]] = NoTask THEN "complete" ELSE "next", "retry", "fail"}
                    /\ Begin(s, op, t, n)
      BY <1>3, Zenon DEF BeginOutcome
    <2>4. /\ op \in Outcomes /\ op \in OnTask
          /\ op = "complete" => NextTask[t[2]] = NoTask
          /\ op = "next" => NextTask[t[2]] # NoTask
      BY <2>3, Zenon DEF Outcomes, OnTask
    <2> QED
      BY <2>1, <2>2, <2>3, <2>4, BeginStep, Zenon
  <1> QED
    BY <1>1, <1>2, <1>3, Zenon

(* Locks taken on rows that no other session has locked. *)
LEMMA LocksTaken ==
  ASSUME TransactionsInv, NEW s \in Sessions, NEW R,
         \A u \in Sessions \ {s} : RowsOf(tx'[u]) = RowsOf(tx[u]),
         RowsOf(tx'[s]) = RowsOf(tx[s]) \cup R,
         locks' = locks \cup {<<r, s>> : r \in R},
         \A r \in R : ~LockedByOther(r, s)
  PROVE  Locking'
  <1>0. Locking
    BY Zenon DEF TransactionsInv
  <1>1. ASSUME NEW l \in locks'
        PROVE  l = <<l[1], l[2]>> /\ l[2] \in Sessions /\ l[1] \in RowsOf(tx'[l[2]])
    <2>1. CASE l \in locks
      BY <1>0, <2>1, Zenon DEF Locking
    <2>2. CASE l \in {<<r, s>> : r \in R}
      BY <2>2
    <2> QED
      BY <2>1, <2>2, Zenon
  <1>2. ASSUME NEW u \in Sessions, NEW r \in RowsOf(tx'[u]) PROVE <<r, u>> \in locks'
    BY <1>0, Zenon DEF Locking
  <1>3. ASSUME NEW u \in Sessions, NEW v \in Sessions, NEW r, <<r, u>> \in locks', <<r, v>> \in locks', u # v
        PROVE  FALSE
    <2>1. <<r, u>> \in locks \/ (u = s /\ r \in R)
      BY <1>3, Zenon
    <2>2. <<r, v>> \in locks \/ (v = s /\ r \in R)
      BY <1>3, Zenon
    <2> QED
      BY <1>0, <1>3, <2>1, <2>2, Zenon DEF Locking, LockedByOther
  <1> QED
    BY <1>1, <1>2, <1>3, Zenon DEF Locking

LEMMA BeginScanStep ==
  ASSUME TransactionsInv, NEW s \in Sessions, BeginScan(s)
  PROVE  TransactionsInv'
  <1>1. PICK S \in SUBSET {t \in Atomic!DueTasks : ~LockedByOther(TaskRow(t), s)} :
          /\ tx' = [tx EXCEPT ![s] = [NoTx EXCEPT !.op = "scan", !.due = S]]
          /\ locks' = locks \cup {<<TaskRow(t), s>> : t \in S}
    BY Zenon DEF BeginScan
  <1>2. /\ tx[s].op = "none" /\ mine[s] = NoAttempt /\ UNCHANGED <<committed, mine>>
        /\ UNCHANGED <<exec, status, nextRunAt, outbox, replays, total, rows>>
    BY Zenon DEF BeginScan, committed
  <1> DEFINE x == [NoTx EXCEPT !.op = "scan", !.due = S]
  <1>3. S \subseteq Tasks /\ S \subseteq Atomic!DueTasks
    BY Zenon DEF Atomic!DueTasks, Atomic!Tasks, Tasks
  <1>4. x \in TxRecord /\ x.op = "scan" /\ x.due = S /\ x.step = 0
    BY <1>3, Zenon DEF TxRecord, NoTx, Atomic!TaskStatus
  <1> HIDE DEF x
  <1>5. /\ tx' \in [Sessions -> TxRecord]
        /\ tx'[s] = x /\ \A u \in Sessions \ {s} : tx'[u] = tx[u]
        /\ \A u \in Sessions \ {s} : (WellFormed(tx[u]) /\ Fresh(tx[u]))'
    BY <1>1, <1>2, <1>4, OthersStay, Zenon DEF x
  <1>6. WellFormed(x)' /\ Fresh(x)' /\ RowsOf(x) = {TaskRow(t) : t \in S}
    BY <1>2, <1>3, <1>4 DEF WellFormed, Fresh, RowsOf, OnTask, Outcomes, Atomic!DueTasks
  <1>7. (WellFormed(tx[s]) /\ Fresh(tx[s]))'
    BY <1>5, <1>6, Zenon DEF WellFormed, Fresh
  <1>8. Locking'
    <2> DEFINE R == {TaskRow(t) : t \in S}
    <2>1. RowsOf(tx[s]) = {}
      BY <1>2, LockedRows, Zenon DEF TransactionsInv, TransactionsTypeOK
    <2>2. RowsOf(tx'[s]) = RowsOf(tx[s]) \cup R
      BY <1>5, <1>6, <2>1, Zenon
    <2>3. locks' = locks \cup {<<r, s>> : r \in R}
      BY <1>1, Zenon
    <2>4. \A r \in R : ~LockedByOther(r, s)
      BY Zenon
    <2> HIDE DEF R
    <2> QED
      BY <1>5, <2>2, <2>3, <2>4, LocksTaken, Zenon
  <1>9. Owned'
    <2>1. Owned /\ mine' = mine /\ rows' = rows /\ status' = status
      BY <1>2, Zenon DEF TransactionsInv
    <2>2. \A u \in Sessions : tx'[u].op \in Outcomes => u # s
      BY <1>4, <1>5, Zenon DEF Outcomes
    <2> QED
      BY <1>2, <1>5, <2>1, <2>2, Zenon DEF Owned
  <1>10. KnownExecutions' /\ AttemptNumbersDistinct' /\ TransactionsTypeOK'
    BY <1>2, <1>5, Zenon
       DEF KnownExecutions, AttemptNumbersDistinct, TransactionsTypeOK, TransactionsInv
  <1> QED
    BY <1>5, <1>7, <1>8, <1>9, <1>10, Zenon DEF TransactionsInv
(* Transaction x after statement q. *)
After(x, q) ==
  IF q.kind = "select"
  THEN [x EXCEPT !.step = x.step + 1, !.seen = status[q.row[2]], !.count = total[q.row[2]]]
  ELSE [x EXCEPT !.step = x.step + 1]

(* A statement about to run, and the transaction after it. *)
LEMMA StatementRun ==
  ASSUME NEW x \in TxRecord, WellFormed(x), Fresh(x), x.op # "none",
         NEW L, L = Statements(x.op, x.t, x.n), x.step < Len(L),
         NEW q, q = L[x.step + 1],
         q.kind = "insert" => status[q.row[2]] = "none",
         TransactionsTypeOK,
         NEW y, y = After(x, q)
  PROVE  /\ y \in TxRecord /\ WellFormed(y) /\ Fresh(y)
         /\ y.op = x.op /\ y.t = x.t /\ y.n = x.n
         /\ RowsOf(y) = RowsOf(x) \cup {q.row}
  <1>0. /\ status \in [Tasks -> Atomic!TaskStatus] /\ total \in [Tasks -> Nat]
        /\ q.kind = "select" =>
             y = [x EXCEPT !.step = x.step + 1, !.seen = status[q.row[2]], !.count = total[q.row[2]]]
        /\ q.kind # "select" => y = [x EXCEPT !.step = x.step + 1]
    BY Zenon DEF TransactionsTypeOK, After
  <1>1. x.op \in OnTask
    <2>1. ASSUME x.op = "scan" PROVE FALSE
      <3>1. Len(L) = 0
        BY <2>1, StatementLists
      <3>2. x.step \in Nat
        BY Zenon DEF TxRecord
      <3> QED
        BY <3>1, <3>2
    <2>2. x.op \in OnTask \cup {"none", "scan"}
      BY Zenon DEF TxRecord
    <2> QED
      BY <2>1, <2>2, Zenon
  <1>2. /\ x.step \in Nat /\ x.t \in Tasks /\ x.n \in Nat /\ x.due = {}
        /\ status[x.t] # "none" /\ status[x.t] \in Atomic!TaskStatus /\ total[x.t] \in Nat
    <2>1. x.op # "scan"
      BY <1>1, Zenon DEF OnTask, Outcomes
    <2> QED
      BY <1>0, <1>1, <2>1, Zenon DEF TxRecord, WellFormed
  <1>3. Len(L) \in {2, 3, 4}
    BY <1>1, StatementCounts, Zenon
  <1>4. PICK k \in 1 .. Len(L) : k = x.step + 1
    BY <1>2, <1>3, SMTT(30)
  <1>5. /\ \/ q = Select(TaskRow(x.t)) /\ k = 1
           \/ q = Update(TaskRow(x.t)) /\ k > 1
           \/ q = Update(AttemptRow(x.t, x.n)) /\ x.op \in Outcomes
           \/ q = Update(ExecutionRow(x.t)) /\ k = Len(L)
           \/ q = Insert(TaskRow(Atomic!Successor(x.t))) /\ x.op = "next" /\ k = 4
        /\ x.op # "retry" /\ k = 1 => q = Select(TaskRow(x.t))
        /\ x.op = "next" /\ k = 4 => q = Insert(TaskRow(Atomic!Successor(x.t)))
    <2>1. q = L[k]
      BY <1>4, Zenon
    <2> QED
      BY <1>1, <2>1, StatementShape
  <1>6. /\ q.kind = "select" => q.row = TaskRow(x.t) /\ k = 1
        /\ x.op # "retry" /\ k = 1 => q.kind = "select"
        /\ x.op = "next" /\ k = 4 => q.kind = "insert" /\ q.row = TaskRow(Atomic!Successor(x.t))
    <2>1. \A r : Select(r).kind = "select" /\ Update(r).kind = "update" /\ Insert(r).kind = "insert"
      BY Zenon DEF Select, Update, Insert
    <2>2. \A r : Select(r).row = r /\ Insert(r).row = r
      BY Zenon DEF Select, Insert
    <2>3. q.kind = "select" => q = Select(TaskRow(x.t)) /\ k = 1
      BY <1>5, <2>1, Zenon
    <2>4. x.op # "retry" /\ k = 1 => q.kind = "select"
      BY <1>5, <2>1, Zenon
    <2>5. x.op = "next" /\ k = 4 => q.kind = "insert" /\ q.row = TaskRow(Atomic!Successor(x.t))
      BY <1>5, <2>1, <2>2
    <2> QED
      BY <2>2, <2>3, <2>4, <2>5, Zenon
  <1>7. /\ y \in TxRecord /\ y.op = x.op /\ y.t = x.t /\ y.n = x.n /\ y.due = {} /\ y.step = k
        /\ q.kind = "select" => y.seen = status[x.t] /\ y.count = total[x.t]
        /\ q.kind # "select" => y.seen = x.seen /\ y.count = x.count
    <2>1. CASE q.kind = "select"
      <3>0. \A u : TaskRow(u)[2] = u
        BY Zenon DEF TaskRow
      <3>1. q.row[2] = x.t
        BY <1>6, <2>1, <3>0, Zenon
      <3>2. y = [x EXCEPT !.step = k, !.seen = status[x.t], !.count = total[x.t]]
        BY <1>0, <1>4, <2>1, <3>1, Zenon
      <3>3. y \in TxRecord
        <4>1. PICK a \in Atomic!TaskStatus : a = status[x.t]
          BY <1>2, Zenon
        <4>2. PICK c \in Nat : c = total[x.t]
          BY <1>2, Zenon
        <4>3. y = [x EXCEPT !.step = k, !.seen = a, !.count = c] /\ k \in Nat
          BY <1>3, <3>2, <4>1, <4>2
        <4> QED
          BY <4>3, Zenon DEF TxRecord
      <3>4. /\ y.op = x.op /\ y.t = x.t /\ y.n = x.n /\ y.due = x.due /\ y.step = k
            /\ y.seen = status[x.t] /\ y.count = total[x.t]
        BY <1>2, <3>2, Zenon DEF TxRecord
      <3> QED
        BY <1>2, <2>1, <3>3, <3>4, Zenon
    <2>2. CASE q.kind # "select"
      <3>1. y = [x EXCEPT !.step = k]
        BY <1>0, <1>4, <2>2, Zenon
      <3>2. y \in TxRecord
        <4>1. k \in Nat
          BY <1>3
        <4> QED
          BY <3>1, <4>1, Zenon DEF TxRecord
      <3>3. /\ y.op = x.op /\ y.t = x.t /\ y.n = x.n /\ y.due = x.due /\ y.step = k
            /\ y.seen = x.seen /\ y.count = x.count
        BY <3>1, Zenon DEF TxRecord
      <3> QED
        BY <1>2, <2>2, <3>2, <3>3, Zenon
    <2> QED
      BY <2>1, <2>2, Zenon
  <1>8. WellFormed(y)
    <2>1. k <= Len(L)
      BY <1>3, <1>4
    <2>2. y.op # "none" /\ y.op # "scan"
      BY <1>1, <1>7, Zenon DEF OnTask, Outcomes
    <2> QED
      BY <1>2, <1>7, <2>1, <2>2, Zenon DEF WellFormed
  <1>9. Fresh(y)
    <2>1. ASSUME y.op \in {"start", "replay"} PROVE y.seen = status[y.t] /\ y.count = total[y.t]
      <3>0. x.op \in {"start", "replay"} /\ x.op # "retry"
        BY <1>7, <2>1, Zenon
      <3>1. CASE k = 1
        BY <1>6, <1>7, <3>0, <3>1, Zenon
      <3>2. CASE k # 1
        <4>1. x.step > 0
          BY <1>2, <1>4, <3>2
        <4>2. x.seen = status[x.t] /\ x.count = total[x.t]
          BY <3>0, <4>1, Zenon DEF Fresh
        <4>3. q.kind # "select"
          BY <1>6, <3>2, Zenon
        <4> QED
          BY <1>7, <4>2, <4>3, Zenon
      <3> QED
        BY <3>1, <3>2, Zenon
    <2>2. ASSUME y.op = "next", y.step = 4 PROVE status[Atomic!Successor(y.t)] = "none"
      <3>1. q.kind = "insert" /\ q.row = TaskRow(Atomic!Successor(x.t))
        BY <1>6, <1>7, <2>2, Zenon
      <3>2. q.row[2] = Atomic!Successor(x.t)
        BY <3>1 DEF TaskRow
      <3> QED
        BY <1>7, <3>1, <3>2, Zenon
    <2> QED
      BY <1>7, <2>1, <2>2, Zenon DEF Fresh
  <1>10. RowsOf(y) = RowsOf(x) \cup {q.row}
    <2>1. \A j : j \in 1 .. k <=> (j \in 1 .. x.step \/ j = k)
      BY <1>2, <1>4
    <2>0. Statements(y.op, y.t, y.n) = L
      BY <1>7, Zenon
    <2>2. RowsOf(y) = {L[j].row : j \in 1 .. k}
      <3>1. {TaskRow(t) : t \in y.due} = {}
        BY <1>7, Zenon
      <3>2. y.step = k
        BY <1>7, Zenon
      <3> QED
        BY <2>0, <3>1, <3>2 DEF RowsOf
    <2>3. RowsOf(x) = {L[j].row : j \in 1 .. x.step}
      BY <1>2, Zenon DEF RowsOf
    <2>4. q = L[k]
      BY <1>4, Zenon
    <2> QED
      BY <2>1, <2>2, <2>3, <2>4, Zenon
  <1> QED
    BY <1>7, <1>8, <1>9, <1>10, Zenon

(* A statement locks its row, and what it sees is so. *)
LEMMA StatementStep ==
  ASSUME TransactionsInv, NEW s \in Sessions, Statement(s)
  PROVE  TransactionsInv'
  <1>0. TransactionsTypeOK /\ tx[s] \in TxRecord /\ WellFormed(tx[s]) /\ Fresh(tx[s])
    BY Zenon DEF TransactionsInv, TransactionsTypeOK
  <1>1. PICK x \in TxRecord : x = tx[s]
    BY <1>0, Zenon
  <1>2. PICK L : L = Statements(x.op, x.t, x.n)
    BY Zenon
  <1>3. PICK q : q = L[x.step + 1]
    BY Zenon
  <1>4. PICK y : y = After(x, q)
    BY Zenon
  <1>5. /\ x.op # "none" /\ x.step < Len(L)
        /\ ~LockedByOther(q.row, s)
        /\ q.kind = "insert" => status[q.row[2]] = "none"
        /\ locks' = locks \cup {<<q.row, s>>}
        /\ UNCHANGED <<committed, mine>>
    BY <1>1, <1>2, <1>3, Zenon DEF Statement, Pending, NextStatement, StatementsOf
  <1>6. tx' = [tx EXCEPT ![s] = y]
    <2>1. NextStatement(s) = q
      BY <1>1, <1>2, <1>3, Zenon DEF NextStatement, StatementsOf
    <2>2. tx' = [tx EXCEPT ![s] = IF q.kind = "select"
                   THEN [tx[s] EXCEPT !.step = tx[s].step + 1, !.seen = status[q.row[2]],
                                      !.count = total[q.row[2]]]
                   ELSE [tx[s] EXCEPT !.step = tx[s].step + 1]]
      BY <2>1, Zenon DEF Statement
    <2> QED
      BY <1>1, <1>4, <2>2, Zenon DEF After
  <1>7. UNCHANGED <<exec, status, nextRunAt, outbox, replays, total, rows>>
    BY <1>5, Zenon DEF committed
  <1>8. /\ y \in TxRecord /\ WellFormed(y) /\ Fresh(y)
        /\ y.op = x.op /\ y.t = x.t /\ y.n = x.n
        /\ RowsOf(y) = RowsOf(x) \cup {q.row}
    <2>1. WellFormed(x) /\ Fresh(x)
      BY <1>0, <1>1, Zenon
    <2>2. x.op # "none" /\ x.step < Len(L) /\ (q.kind = "insert" => status[q.row[2]] = "none")
      BY <1>5, Zenon
    <2> QED
      BY <1>0, <1>2, <1>3, <1>4, <2>1, <2>2, StatementRun
  <1>10. /\ tx' \in [Sessions -> TxRecord]
         /\ tx'[s] = y /\ \A u \in Sessions \ {s} : tx'[u] = tx[u]
         /\ \A u \in Sessions \ {s} : (WellFormed(tx[u]) /\ Fresh(tx[u]))'
    <2>1. UNCHANGED committed
      BY <1>5, Zenon
    <2> QED
      BY <1>6, <1>8, <2>1, OthersStay, Zenon
  <1>13. (WellFormed(tx[s]) /\ Fresh(tx[s]))'
    BY <1>7, <1>8, <1>10, Zenon DEF WellFormed, Fresh, Atomic!DueTasks
  <1>14. Locking'
    <2>1. PICK R : R = {q.row}
      BY Zenon
    <2>2. locks' = locks \cup {<<r, s>> : r \in R} /\ \A r \in R : ~LockedByOther(r, s)
      BY <1>5, <2>1, Zenon
    <2>3. RowsOf(tx'[s]) = RowsOf(tx[s]) \cup R
      BY <1>1, <1>8, <1>10, <2>1, Zenon
    <2>4. \A u \in Sessions \ {s} : RowsOf(tx'[u]) = RowsOf(tx[u])
      BY <1>10, Zenon
    <2> QED
      BY <2>2, <2>3, <2>4, LocksTaken, Zenon
  <1>15. Owned'
    <2>1. Owned /\ mine' = mine /\ rows' = rows /\ status' = status
      BY <1>5, <1>7, Zenon DEF TransactionsInv
    <2>2. \A u \in Sessions : tx'[u].op = tx[u].op /\ tx'[u].t = tx[u].t /\ tx'[u].n = tx[u].n
      BY <1>1, <1>8, <1>10, Zenon
    <2> QED
      BY <2>1, <2>2, Zenon DEF Owned
  <1>16. KnownExecutions' /\ AttemptNumbersDistinct' /\ TransactionsTypeOK'
    BY <1>5, <1>7, <1>10, Zenon
       DEF KnownExecutions, AttemptNumbersDistinct, TransactionsTypeOK, TransactionsInv
  <1> QED
    BY <1>10, <1>13, <1>14, <1>15, <1>16, Zenon DEF TransactionsInv

(* A step outside the sessions, which touches no row one of them has read. *)
LEMMA OutsideStep ==
  ASSUME TransactionsInv, UNCHANGED <<locks, tx, mine, total, rows>>,
         TransactionsTypeOK', KnownExecutions',
         \A t \in Tasks : status[t] # "none" \/ exec[t[1]] # "none" => status'[t] = status[t],
         \A t \in Tasks : nextRunAt[t] = "due" => nextRunAt'[t] = "due"
  PROVE  TransactionsInv'
  <1>1. \A t \in Tasks : status[t] # "none" => status'[t] = status[t] /\ status'[t] # "none"
    BY Zenon
  <1>2. ASSUME NEW u \in Sessions PROVE (WellFormed(tx[u]) /\ Fresh(tx[u]))'
    <2>1. PICK x \in TxRecord : x = tx[u]
      BY Zenon DEF TransactionsInv, TransactionsTypeOK
    <2>2. WellFormed(x) /\ Fresh(x)
      BY <2>1, Zenon DEF TransactionsInv
    <2>3. WellFormed(x)'
      BY <1>1, <2>2, Zenon DEF WellFormed
    <2>4. \A t \in x.due : t \in Atomic!DueTasks'
      BY <1>1, <2>2, Zenon DEF Fresh, Atomic!DueTasks, Atomic!Tasks, Tasks
    <2>5. ASSUME x.op = "next", x.step = 4 PROVE status'[Atomic!Successor(x.t)] = "none"
      <3>1. x.t \in Tasks /\ status[x.t] # "none" /\ NextTask[x.t[2]] # NoTask
        BY <2>2, <2>5, Zenon DEF WellFormed, OnTask, Outcomes
      <3>2. exec[x.t[1]] # "none" /\ status[Atomic!Successor(x.t)] = "none"
        BY <2>2, <2>5, <3>1, Zenon DEF Fresh, TransactionsInv, KnownExecutions
      <3> QED
        BY <3>1, <3>2, SuccessorOfTask, Zenon
    <2>6. ASSUME x.op \in {"start", "replay"}, x.step > 0
          PROVE  x.seen = status'[x.t] /\ x.count = total'[x.t]
      <3>1. x.t \in Tasks /\ status[x.t] # "none"
        BY <2>2, <2>6, Zenon DEF WellFormed, OnTask
      <3> QED
        BY <1>1, <2>2, <2>6, <3>1, Zenon DEF Fresh
    <2>7. Fresh(x)'
      BY <2>4, <2>5, <2>6, Zenon DEF Fresh
    <2> QED
      BY <2>1, <2>3, <2>7, Zenon DEF WellFormed, Fresh
  <1>3. Locking' /\ AttemptNumbersDistinct'
    BY Zenon DEF TransactionsInv, Locking, AttemptNumbersDistinct
  <1>4. Owned'
    <2>1. \A u \in Sessions : mine[u] # NoAttempt => mine[u][1] \in Tasks
      BY Zenon DEF TransactionsInv, TransactionsTypeOK
    <2> QED
      BY <1>1, <2>1, Zenon DEF TransactionsInv, Owned
  <1> QED
    BY <1>2, <1>3, <1>4, Zenon DEF TransactionsInv

(* A new execution: its rows are nobody's. *)
LEMMA CreateStep ==
  ASSUME TransactionsInv, NEW e \in Executions, CreateExecutionAndTask(e)
  PROVE  TransactionsInv'
  <1>0. TransactionsTypeOK /\ KnownExecutions
    BY Zenon DEF TransactionsInv
  <1>1. /\ exec[e] = "none" /\ exec' = [exec EXCEPT ![e] = "running"]
        /\ status' = [status EXCEPT ![<<e, EntryTask>>] = "pending"]
        /\ outbox' = Atomic!InsertEvents({<<e, EntryTask>>})
        /\ UNCHANGED <<nextRunAt, replays, total, rows, locks, tx, mine>>
    BY Zenon DEF CreateExecutionAndTask
  <1>2. <<e, EntryTask>> \in Tasks
    BY TransactionsAssumption, Zenon DEF Tasks
  <1>3. \A t \in Tasks : status[t] # "none" \/ exec[t[1]] # "none" => status'[t] = status[t]
    BY <1>0, <1>1, <1>2 DEF TransactionsTypeOK, KnownExecutions
  <1>4. TransactionsTypeOK'
    BY <1>0, <1>1, <1>2, EventsInserted, Zenon
       DEF TransactionsTypeOK, Atomic!TaskStatus, Atomic!ExecutionStatus
  <1>5. KnownExecutions'
    <2>1. SUFFICES ASSUME NEW t \in Tasks, status'[t] # "none" PROVE exec'[t[1]] # "none"
      BY Zenon DEF KnownExecutions
    <2>2. t[1] \in Executions
      BY Zenon DEF Tasks
    <2>3. CASE t = <<e, EntryTask>>
      BY <1>0, <1>1, <2>3, Zenon DEF TransactionsTypeOK
    <2>4. CASE t # <<e, EntryTask>>
      BY <1>0, <1>1, <2>1, <2>2, <2>4, Zenon DEF TransactionsTypeOK, KnownExecutions
    <2> QED
      BY <2>3, <2>4, Zenon
  <1> QED
    BY <1>1, <1>3, <1>4, <1>5, OutsideStep, Zenon

LEMMA BackoffStep ==
  ASSUME TransactionsInv, NEW t \in Tasks, BackoffElapses(t)
  PROVE  TransactionsInv'
  <1>1. TransactionsTypeOK'
    BY Zenon DEF BackoffElapses, TransactionsInv, TransactionsTypeOK
  <1>2. KnownExecutions'
    BY Zenon DEF BackoffElapses, TransactionsInv, KnownExecutions
  <1>3. \A u \in Tasks : nextRunAt[u] = "due" => nextRunAt'[u] = "due"
    BY Zenon DEF BackoffElapses, TransactionsInv, TransactionsTypeOK
  <1>4. UNCHANGED <<locks, tx, mine, total, rows>> /\ UNCHANGED status
    BY Zenon DEF BackoffElapses
  <1> QED
    BY <1>1, <1>2, <1>3, <1>4, OutsideStep, Zenon

LEMMA TransactionsStart == TransactionsInit => TransactionsInv
  <1> SUFFICES ASSUME TransactionsInit PROVE TransactionsInv
    BY Zenon
  <1>1. /\ exec = [e \in Executions |-> "none"] /\ status = [t \in Tasks |-> "none"]
        /\ nextRunAt = [t \in Tasks |-> "none"] /\ outbox = [t \in Tasks |-> <<>>]
        /\ replays = 0 /\ total = [t \in Tasks |-> 0] /\ rows = [t \in Tasks |-> <<>>]
        /\ locks = {} /\ tx = [s \in Sessions |-> NoTx] /\ mine = [s \in Sessions |-> NoAttempt]
    BY Zenon DEF TransactionsInit, Atomic!StoreInit, Atomic!Tasks, Tasks
  <1>2. NoTx \in TxRecord /\ NoTx.op = "none" /\ NoTx.due = {} /\ RowsOf(NoTx) = {}
    BY DEF TxRecord, NoTx, RowsOf, OnTask, Outcomes, Atomic!TaskStatus
  <1>3. TransactionsTypeOK
    BY <1>1, <1>2 DEF TransactionsTypeOK, Atomic!TaskStatus, Atomic!ExecutionStatus
  <1>4. WellFormed(NoTx) /\ Fresh(NoTx)
    BY <1>2, Zenon DEF WellFormed, Fresh, OnTask, Outcomes
  <1>5. Locking
    BY <1>1, <1>2, Zenon DEF Locking
  <1>6. Owned
    BY <1>1, <1>2, Zenon DEF Owned, Outcomes
  <1>7. KnownExecutions /\ AttemptNumbersDistinct
    BY <1>1 DEF KnownExecutions, AttemptNumbersDistinct
  <1> QED
    BY <1>1, <1>3, <1>4, <1>5, <1>6, <1>7, Zenon DEF TransactionsInv

LEMMA TransactionsSteps ==
  ASSUME TransactionsInv, [TransactionsNext]_transactionVars
  PROVE  TransactionsInv'
  <1>1. ASSUME NEW e \in Executions, CreateExecutionAndTask(e) PROVE TransactionsInv'
    BY <1>1, CreateStep, Zenon
  <1>2. ASSUME NEW t \in Tasks, BackoffElapses(t) PROVE TransactionsInv'
    BY <1>2, BackoffStep, Zenon
  <1>3. ASSUME NEW s \in Sessions, SessionNext(s) PROVE TransactionsInv'
    BY <1>3, BeginSteps, BeginScanStep, StatementStep, RollbackStep, CommitStartStep,
       CommitReplayStep, CommitOutcomeSteps, CommitScanStep, Zenon DEF SessionNext
  <1>4. CASE UNCHANGED transactionVars
    <2>1. UNCHANGED <<exec, status, nextRunAt, outbox, replays, total, rows>>
          /\ UNCHANGED <<locks, tx, mine>>
      BY <1>4, Zenon DEF transactionVars, committed
    <2>2. TransactionsTypeOK' /\ KnownExecutions'
      BY <2>1, Zenon DEF TransactionsInv, TransactionsTypeOK, KnownExecutions
    <2> QED
      BY <2>1, <2>2, OutsideStep, Zenon
  <1> QED
    BY <1>1, <1>2, <1>3, <1>4, Zenon DEF TransactionsNext

(* The inductive invariant holds of every state. *)
LEMMA TransactionsInvariant == TransactionsSpec => []TransactionsInv
  BY TransactionsStart, TransactionsSteps, PTL DEF TransactionsSpec

(* Attempt numbers are given once, in order: two StartTaskAttempt calls    *)
(* for one task never read the same attempts_total, for any definition and *)
(* any number of connections.                                              *)
THEOREM AttemptNumbersDistinctHolds == TransactionsSpec => []AttemptNumbersDistinct
  <1>1. TransactionsInv => AttemptNumbersDistinct
    BY Zenon DEF TransactionsInv
  <1> QED
    BY <1>1, TransactionsInvariant, PTL

-----------------------------------------------------------------------------
(* Waiting. *)

(* The rows a transaction may have locked.  The row of the execution, and  *)
(* the one of the next task, are its last.                                 *)
LEMMA RowsShape ==
  ASSUME NEW x \in TxRecord, WellFormed(x), NEW r \in RowsOf(x)
  PROVE  \/ r = TaskRow(x.t) /\ x.op \in OnTask
         \/ \E d \in x.due : r = TaskRow(d)
         \/ r = AttemptRow(x.t, x.n) /\ x.op \in Outcomes
         \/ r = ExecutionRow(x.t) /\ x.step = Len(Statements(x.op, x.t, x.n))
         \/ /\ r = TaskRow(Atomic!Successor(x.t)) /\ x.op = "next"
            /\ x.step = Len(Statements(x.op, x.t, x.n))
  <1>1. PICK L : L = Statements(x.op, x.t, x.n)
    BY Zenon
  <1>2. CASE \E d \in x.due : r = TaskRow(d)
    BY <1>2, Zenon
  <1>3. CASE \E k \in 1 .. x.step : r = L[k].row
    <2>1. PICK k \in 1 .. x.step : r = L[k].row
      BY <1>3, Zenon
    <2>2. x.op \in OnTask \cup {"none", "scan"} /\ x.step \in Nat
      BY Zenon DEF TxRecord
    <2>3. x.op \in OnTask /\ x.step <= Len(L)
      <3>1. x.op \in {"none", "scan"} => x.step = 0
        BY DEF WellFormed, NoTx
      <3> QED
        BY <1>1, <2>1, <2>2, <3>1 DEF WellFormed
    <2>4. Len(L) \in {2, 3, 4}
      BY <1>1, <2>3, StatementCounts, Zenon
    <2>5. k \in 1 .. Len(L) /\ (k = Len(L) => x.step = Len(L))
      BY <2>1, <2>2, <2>3, <2>4
    <2>6. \/ L[k] = Select(TaskRow(x.t)) \/ L[k] = Update(TaskRow(x.t))
          \/ L[k] = Update(AttemptRow(x.t, x.n)) /\ x.op \in Outcomes
          \/ L[k] = Update(ExecutionRow(x.t)) /\ k = Len(L)
          \/ L[k] = Insert(TaskRow(Atomic!Successor(x.t))) /\ x.op = "next" /\ k = Len(L)
      BY <1>1, <2>3, <2>5, StatementShape
    <2>7. \A q : Select(q).row = q /\ Update(q).row = q /\ Insert(q).row = q
      BY Zenon DEF Select, Update, Insert
    <2> QED
      BY <1>1, <2>1, <2>3, <2>5, <2>6, <2>7, Zenon
  <1> QED
    BY <1>1, <1>2, <1>3, Zenon DEF RowsOf

(* The row of an attempt is wanted, and locked, by its session only. *)
LEMMA AttemptRowsUncontested ==
  ASSUME TransactionsInv, NEW s \in Sessions, NEW u \in Sessions \ {s},
         tx[s].op \in Outcomes
  PROVE  AttemptRow(tx[s].t, tx[s].n) \notin RowsOf(tx[u])
  <1>1. SUFFICES ASSUME AttemptRow(tx[s].t, tx[s].n) \in RowsOf(tx[u]) PROVE FALSE
    BY Zenon
  <1>2. tx[u] \in TxRecord /\ WellFormed(tx[u])
    BY Zenon DEF TransactionsInv, TransactionsTypeOK
  <1>3. AttemptRow(tx[s].t, tx[s].n) = AttemptRow(tx[u].t, tx[u].n) /\ tx[u].op \in Outcomes
    <2>1. PICK r : r = AttemptRow(tx[s].t, tx[s].n)
      BY Zenon
    <2>2. PICK y \in TxRecord : y = tx[u]
      BY <1>2, Zenon
    <2>3. WellFormed(y) /\ r \in RowsOf(y)
      BY <1>1, <1>2, <2>1, <2>2, Zenon
    <2>4. \A z : r # TaskRow(z) /\ r # ExecutionRow(z)
      BY <2>1, RowsDiffer
    <2>5. r = AttemptRow(y.t, y.n) /\ y.op \in Outcomes
      BY <2>3, <2>4, RowsShape, Zenon
    <2> QED
      BY <2>1, <2>2, <2>5, Zenon
  <1>4. tx[s].t = tx[u].t /\ tx[s].n = tx[u].n
    BY <1>3, RowsDiffer
  <1> QED
    BY <1>3, <1>4, Zenon DEF TransactionsInv, Owned

(* What a waiting transaction waits for. *)
LEMMA WaitingShape ==
  ASSUME TransactionsInv, NEW s \in Sessions, NEW u \in Sessions, WaitsFor(s, u),
         NEW x, x = tx[s], NEW r, r = NextStatement(s).row
  PROVE  /\ x.op \in OnTask /\ s # u /\ r \in RowsOf(tx[u]) /\ r \notin RowsOf(x)
         /\ \/ r = TaskRow(x.t) /\ x.step = 0
            \/ r = TaskRow(x.t) /\ x.step = 1 /\ x.op = "retry"
            \/ r = ExecutionRow(x.t)
            \/ r = TaskRow(Atomic!Successor(x.t)) /\ status[Atomic!Successor(x.t)] = "none"
  <1>0. x \in TxRecord /\ WellFormed(x) /\ Locking
    BY Zenon DEF TransactionsInv, TransactionsTypeOK
  <1>1. PICK L : L = Statements(x.op, x.t, x.n)
    BY Zenon
  <1>2. PICK q : q = L[x.step + 1]
    BY Zenon
  <1>3. /\ s # u /\ x.op # "none" /\ x.step < Len(L) /\ <<r, u>> \in locks /\ r = q.row
        /\ q.kind = "insert" => status[q.row[2]] = "none"
    BY <1>1, <1>2, Zenon DEF WaitsFor, Pending, NextStatement, StatementsOf
  <1>4. r \in RowsOf(tx[u]) /\ r \notin RowsOf(x)
    <2>1. <<r, u>>[1] = r /\ <<r, u>>[2] = u
      BY Zenon
    <2> QED
      BY <1>0, <1>3, <2>1, Zenon DEF Locking
  <1>5. x.step \in Nat /\ x.op \in OnTask
    <2>1. x.op = "scan" => Len(L) = 0
      BY <1>1, StatementLists
    <2> QED
      BY <1>0, <1>3, <2>1 DEF TxRecord
  <1>6. Len(L) \in {2, 3, 4}
    BY <1>1, <1>5, StatementCounts, Zenon
  <1>7. PICK k \in 1 .. Len(L) : k = x.step + 1
    BY <1>3, <1>5, <1>6, SMTT(30)
  <1>8. /\ \/ q = Select(TaskRow(x.t)) /\ k = 1
           \/ q = Update(TaskRow(x.t)) /\ k > 1
           \/ q = Update(AttemptRow(x.t, x.n)) /\ x.op \in Outcomes
           \/ q = Update(ExecutionRow(x.t))
           \/ q = Insert(TaskRow(Atomic!Successor(x.t)))
        /\ x.op # "retry" => L[1] = Select(TaskRow(x.t))
        /\ x.op = "retry" => Len(L) = 2
    <2>1. q = L[k]
      BY <1>2, <1>7, Zenon
    <2> QED
      BY <1>1, <1>5, <2>1, StatementShape
  <1>9. \A z : /\ Select(z).row = z /\ Update(z).row = z /\ Insert(z).row = z
               /\ Insert(z).kind = "insert"
    BY Zenon DEF Select, Update, Insert
  <1>10. CASE q = Select(TaskRow(x.t)) /\ k = 1
    BY <1>3, <1>4, <1>5, <1>7, <1>9, <1>10
  <1>11. CASE q = Update(TaskRow(x.t)) /\ k > 1
    <2>1. ASSUME x.op # "retry" PROVE FALSE
      <3>1. 1 \in 1 .. x.step
        BY <1>5, <1>7, <1>11
      <3>2. L[1].row = TaskRow(x.t)
        BY <1>8, <1>9, <2>1, Zenon
      <3>3. TaskRow(x.t) \in RowsOf(x)
        BY <1>1, <3>1, <3>2, Zenon DEF RowsOf
      <3> QED
        BY <1>3, <1>4, <1>9, <1>11, <3>3, SMTT(30)
    <2>2. x.step = 1
      <3>1. Len(L) = 2
        BY <1>8, <2>1, Zenon
      <3> QED
        BY <1>5, <1>7, <1>11, <3>1
    <2> QED
      BY <1>3, <1>4, <1>5, <1>9, <1>11, <2>1, <2>2, Zenon
  <1>12. CASE q = Update(AttemptRow(x.t, x.n)) /\ x.op \in Outcomes
    BY <1>3, <1>4, <1>9, <1>12, AttemptRowsUncontested
  <1>13. CASE q = Update(ExecutionRow(x.t))
    BY <1>3, <1>4, <1>5, <1>9, <1>13, Zenon
  <1>14. CASE q = Insert(TaskRow(Atomic!Successor(x.t)))
    <2>1. \A z : TaskRow(z)[2] = z
      BY Zenon DEF TaskRow
    <2> QED
      BY <1>3, <1>4, <1>5, <1>9, <1>14, <2>1, SMTT(30)
  <1> QED
    BY <1>8, <1>10, <1>11, <1>12, <1>13, <1>14, Zenon

(* Of two transactions one of which waits for the other, the first is      *)
(* waited for by none, or the second waits for none.                       *)
LEMMA NoWaitingChain ==
  ASSUME TransactionsInv, NEW s \in Sessions, NEW u \in Sessions, WaitsFor(s, u)
  PROVE  (\A v \in Sessions : ~WaitsFor(v, s)) \/ (\A v \in Sessions : ~WaitsFor(u, v))
  <1>1. PICK x : x = tx[s]
    BY Zenon
  <1>2. PICK y : y = tx[u]
    BY Zenon
  <1>3. PICK r : r = NextStatement(s).row
    BY Zenon
  <1>4. /\ x \in TxRecord /\ WellFormed(x) /\ y \in TxRecord /\ WellFormed(y) /\ Fresh(y)
    BY <1>1, <1>2, Zenon DEF TransactionsInv, TransactionsTypeOK
  <1>5. /\ x.op \in OnTask /\ s # u /\ r \in RowsOf(y) /\ r \notin RowsOf(x)
        /\ \/ r = TaskRow(x.t) /\ x.step = 0
           \/ r = TaskRow(x.t) /\ x.step = 1 /\ x.op = "retry"
           \/ r = ExecutionRow(x.t)
           \/ r = TaskRow(Atomic!Successor(x.t)) /\ status[Atomic!Successor(x.t)] = "none"
    BY <1>1, <1>2, <1>3, WaitingShape, SMTT(30)
  <1>6. ASSUME y.step = Len(Statements(y.op, y.t, y.n)), NEW v \in Sessions PROVE ~WaitsFor(u, v)
    <2>1. y.step \in Nat
      BY <1>4, Zenon DEF TxRecord
    <2> QED
      BY <1>2, <1>6, <2>1 DEF WaitsFor, Pending, StatementsOf
  <1>7. \/ r = TaskRow(y.t) /\ y.op \in OnTask
        \/ \E d \in y.due : r = TaskRow(d)
        \/ r = AttemptRow(y.t, y.n) /\ y.op \in Outcomes
        \/ r = ExecutionRow(y.t) /\ y.step = Len(Statements(y.op, y.t, y.n))
        \/ /\ r = TaskRow(Atomic!Successor(y.t)) /\ y.op = "next"
           /\ y.step = Len(Statements(y.op, y.t, y.n))
    BY <1>4, <1>5, RowsShape, Zenon
  <1>8. CASE r = ExecutionRow(x.t)
    BY <1>6, <1>7, <1>8, RowsDiffer
  <1>9. CASE r = TaskRow(Atomic!Successor(x.t)) /\ status[Atomic!Successor(x.t)] = "none"
    <2>1. \A z : r = TaskRow(z) => status[z] = "none"
      BY <1>9, RowsDiffer, Zenon
    <2>2. y.op \in OnTask => status[y.t] # "none"
      BY <1>4, Zenon DEF WellFormed
    <2>3. \A d \in y.due : status[d] # "none"
      BY <1>4, Zenon DEF Fresh, Atomic!DueTasks
    <2>4. /\ \A z : r # ExecutionRow(z)
          /\ \A z, n : r # AttemptRow(z, n)
      BY <1>9, RowsDiffer, Zenon
    <2>5. y.step = Len(Statements(y.op, y.t, y.n))
      BY <1>7, <2>1, <2>2, <2>3, <2>4, Zenon
    <2> QED
      BY <1>6, <2>5, Zenon
  <1>10. CASE \/ r = TaskRow(x.t) /\ x.step = 0
              \/ r = TaskRow(x.t) /\ x.step = 1 /\ x.op = "retry"
    <2>1. x.due = {}
      BY <1>4, <1>5, Zenon DEF WellFormed, OnTask, Outcomes
    <2>2. RowsOf(x) = {} \/ (RowsOf(x) = {AttemptRow(x.t, x.n)} /\ x.op \in Outcomes)
      <3>1. CASE x.step = 0
        BY <2>1, <3>1 DEF RowsOf
      <3>2. CASE x.step = 1 /\ x.op = "retry"
        <4>1. Statements(x.op, x.t, x.n)[1] = Update(AttemptRow(x.t, x.n))
          BY <3>2, StatementLists
        <4>2. Statements(x.op, x.t, x.n)[1].row = AttemptRow(x.t, x.n)
          BY <4>1 DEF Update
        <4>3. 1 .. x.step = {1}
          BY <3>2
        <4> QED
          BY <2>1, <3>2, <4>2, <4>3, Zenon DEF RowsOf, Outcomes
      <3> QED
        BY <1>10, <3>1, <3>2, Zenon
    <2>3. ASSUME NEW v \in Sessions, WaitsFor(v, s) PROVE FALSE
      <3>1. PICK z : z = tx[v]
        BY Zenon
      <3>2. PICK p : p = NextStatement(v).row
        BY Zenon
      <3>3. /\ p \in RowsOf(x)
            /\ (p = TaskRow(z.t) \/ p = ExecutionRow(z.t) \/ p = TaskRow(Atomic!Successor(z.t)))
        BY <1>1, <2>3, <3>1, <3>2, WaitingShape, Zenon
      <3> QED
        BY <2>2, <3>3, RowsDiffer
    <2> QED
      BY <2>3, Zenon
  <1> QED
    BY <1>5, <1>8, <1>9, <1>10, Zenon

(* Transactions never wait in a circle, whatever rows the sessions have    *)
(* come to: for any definition, any number of connections.                 *)
THEOREM NoLockCycleHolds == TransactionsSpec => []NoLockCycle
  <1>1. ASSUME TransactionsInv PROVE NoLockCycle
    <2>1. SUFFICES ASSUME NEW S \in (SUBSET Sessions) \ {{}}
                   PROVE  \E s \in S : \A u \in S : ~WaitsFor(s, u)
      BY Zenon DEF NoLockCycle
    <2>2. PICK a \in S : TRUE
      BY Zenon
    <2>3. SUFFICES ASSUME NEW b \in S, NEW c \in S, WaitsFor(a, b), WaitsFor(b, c)
                   PROVE  \E s \in S : \A u \in S : ~WaitsFor(s, u)
      BY <2>2, Zenon
    <2>4. \A v \in Sessions : ~WaitsFor(c, v)
      BY <1>1, <2>3, NoWaitingChain, Zenon
    <2> QED
      BY <2>4, Zenon
  <1> QED
    BY <1>1, TransactionsInvariant, PTL

-----------------------------------------------------------------------------
(* Store, with one step per transaction, is implemented. *)

(* The attempts of Store: the statuses of the rows. *)
Statuses == [t \in Executions \X TaskNames |-> [k \in DOMAIN rows[t] |-> rows[t][k].status]]

(* The statuses of a task's attempts, a sequence again. *)
LEMMA StatusSequence ==
  ASSUME NEW R \in Seq(AttemptRecord), NEW V, V = [k \in DOMAIN R |-> R[k].status]
  PROVE  /\ V \in Seq(Atomic!AttemptStatus) /\ Len(V) = Len(R) /\ DOMAIN V = DOMAIN R
         /\ \A k \in 1 .. Len(R) : V[k] = R[k].status
  <1>0. Len(R) \in Nat /\ DOMAIN R = 1 .. Len(R) /\ \A k \in 1 .. Len(R) : R[k] \in AttemptRecord
    OBVIOUS
  <1>1. \A k \in 1 .. Len(R) : R[k].status \in Atomic!AttemptStatus
    BY <1>0, Zenon DEF AttemptRecord
  <1>2. V = [k \in 1 .. Len(R) |-> R[k].status]
    BY <1>0, Zenon
  <1> QED
    BY <1>0, <1>1, <1>2

LEMMA StatusesFacts ==
  ASSUME TransactionsTypeOK
  PROVE  /\ Statuses \in [Tasks -> Seq(Atomic!AttemptStatus)]
         /\ \A t \in Tasks : Len(Statuses[t]) = Len(rows[t]) /\ DOMAIN Statuses[t] = DOMAIN rows[t]
  <1>1. ASSUME NEW t \in Tasks
        PROVE  /\ Statuses[t] \in Seq(Atomic!AttemptStatus)
               /\ Len(Statuses[t]) = Len(rows[t]) /\ DOMAIN Statuses[t] = DOMAIN rows[t]
    <2>1. PICK R \in Seq(AttemptRecord) : R = rows[t]
      BY Zenon DEF TransactionsTypeOK
    <2>2. Statuses[t] = [k \in DOMAIN R |-> R[k].status]
      BY <2>1, Zenon DEF Statuses, Tasks
    <2> QED
      BY <2>1, <2>2, StatusSequence
  <1>2. Statuses = [t \in Tasks |-> Statuses[t]]
    BY Zenon DEF Statuses, Tasks
  <1> QED
    BY <1>1, <1>2, Zenon

(* A commit of StartTaskAttempt appends a running attempt. *)
LEMMA StatusesStarted ==
  ASSUME TransactionsTypeOK, TransactionsTypeOK', NEW t \in Tasks, NEW n,
         rows' = [rows EXCEPT ![t] = Append(@, [number |-> n, status |-> "running"])]
  PROVE  Statuses' = [Statuses EXCEPT ![t] = Append(@, "running")]
  <1> DEFINE B == [Statuses EXCEPT ![t] = Append(@, "running")]
  <1>0. Statuses' = [u \in Tasks |-> Statuses'[u]] /\ Statuses = [u \in Tasks |-> Statuses[u]]
    BY DEF Statuses, Tasks
  <1>1. Statuses' = [u \in Tasks |-> Statuses'[u]] /\ B = [u \in Tasks |-> B[u]]
    BY <1>0, Zenon
  <1>2. ASSUME NEW u \in Tasks PROVE Statuses'[u] = B[u]
    <2>0. /\ rows \in [Tasks -> Seq(AttemptRecord)] /\ rows'[u] \in Seq(AttemptRecord)
          /\ Statuses[u] = [k \in DOMAIN rows[u] |-> rows[u][k].status]
          /\ Statuses'[u] = [k \in DOMAIN rows'[u] |-> rows'[u][k].status]
      BY Zenon DEF TransactionsTypeOK, Statuses, Tasks
    <2>1. CASE u # t
      <3>1. rows'[u] = rows[u] /\ B[u] = Statuses[u]
        BY <2>0, <2>1, StatusesFacts, Zenon
      <3> QED
        BY <3>1, Zenon DEF Statuses, Tasks
    <2>2. CASE u = t
      <3>1. PICK R \in Seq(AttemptRecord) : R = rows[t]
        BY <2>0, Zenon
      <3>2. PICK a : a = [number |-> n, status |-> "running"]
        BY Zenon
      <3>3. rows'[u] = Append(R, a) /\ a.status = "running"
        BY <2>0, <2>2, <3>1, <3>2, Zenon
      <3>4. PICK V : V = Statuses[u]
        BY Zenon
      <3>5. PICK W : W = Statuses'[u]
        BY Zenon
      <3>6. V \in Seq(Atomic!AttemptStatus) /\ Len(V) = Len(R) /\ \A k \in 1 .. Len(R) : V[k] = R[k].status
        <4>1. V = [k \in DOMAIN R |-> R[k].status]
          BY <2>0, <2>2, <3>1, <3>4, Zenon
        <4> QED
          BY <4>1, StatusSequence
      <3>7. /\ W \in Seq(Atomic!AttemptStatus) /\ Len(W) = Len(R) + 1
            /\ \A k \in 1 .. Len(R) + 1 : W[k] = Append(R, a)[k].status
        <4>1. PICK Q \in Seq(AttemptRecord) : Q = rows'[u]
          BY <2>0, Zenon
        <4>2. W \in Seq(Atomic!AttemptStatus) /\ Len(W) = Len(Q) /\ \A k \in 1 .. Len(Q) : W[k] = Q[k].status
          <5>1. W = [k \in DOMAIN Q |-> Q[k].status]
            BY <2>0, <3>5, <4>1, Zenon
          <5> QED
            BY <5>1, StatusSequence
        <4>3. Q = Append(R, a) /\ Len(Append(R, a)) = Len(R) + 1
          BY <3>3, <4>1
        <4> QED
          BY <4>2, <4>3, Zenon
      <3>8. W = Append(V, "running")
        <4>1. Len(R) \in Nat
          OBVIOUS
        <4>2. \A k \in 1 .. Len(R) : W[k] = Append(V, "running")[k]
          BY <3>6, <3>7
        <4>3. W[Len(R) + 1] = "running"
          BY <3>3, <3>7
        <4>4. Len(Append(V, "running")) = Len(R) + 1 /\ Append(V, "running")[Len(R) + 1] = "running"
          BY <3>6
        <4>5. "running" \in Atomic!AttemptStatus
          BY Zenon DEF Atomic!AttemptStatus
        <4> QED
          BY <3>7, <4>1, <4>2, <4>3, <4>4, <4>5
      <3>9. B[u] = Append(V, "running")
        BY <1>0, <2>2, <3>4, Zenon
      <3> QED
        BY <3>5, <3>8, <3>9, Zenon
    <2> QED
      BY <2>1, <2>2, Zenon
  <1> HIDE DEF B
  <1>3. Statuses' = B
    BY <1>1, <1>2, Zenon
  <1> QED
    BY <1>3, Zenon DEF B

(* A commit of an outcome writes its attempt. *)
LEMMA StatusesReported ==
  ASSUME TransactionsTypeOK, TransactionsTypeOK', NEW t \in Tasks, NEW n \in DOMAIN rows[t],
         NEW st \in Atomic!AttemptStatus, Report(t, n, st)
  PROVE  Statuses' = [Statuses EXCEPT ![t][n] = st]
  <1> DEFINE B == [Statuses EXCEPT ![t][n] = st]
  <1>1. Statuses' = [u \in Tasks |-> Statuses'[u]] /\ B = [u \in Tasks |-> B[u]]
    BY StatusesFacts, Zenon DEF Statuses, Tasks
  <1>2. ASSUME NEW u \in Tasks PROVE Statuses'[u] = B[u]
    <2>0. /\ rows \in [Tasks -> Seq(AttemptRecord)]
          /\ Statuses[u] = [k \in DOMAIN rows[u] |-> rows[u][k].status]
          /\ Statuses'[u] = [k \in DOMAIN rows'[u] |-> rows'[u][k].status]
      BY Zenon DEF TransactionsTypeOK, Statuses, Tasks
    <2>1. CASE u # t
      <3>1. rows'[u] = rows[u] /\ B[u] = Statuses[u]
        BY <2>0, <2>1, StatusesFacts, Zenon DEF Report
      <3> QED
        BY <2>0, <3>1, Zenon
    <2>2. CASE u = t
      <3>1. rows'[u] = [rows[t] EXCEPT ![n].status = st]
        BY <2>0, <2>2, Zenon DEF Report
      <3>2. PICK R \in Seq(AttemptRecord) : R = rows[t]
        BY <2>0, Zenon
      <3>3. PICK Q : Q = rows'[u]
        BY Zenon
      <3>4. /\ DOMAIN Q = DOMAIN R /\ n \in DOMAIN R
            /\ \A k \in DOMAIN R : Q[k] = IF k = n THEN [R[n] EXCEPT !.status = st] ELSE R[k]
        BY <3>1, <3>2, <3>3, Zenon
      <3>5. [R[n] EXCEPT !.status = st].status = st
        BY <3>4 DEF AttemptRecord
      <3>6. \A k \in DOMAIN R : Q[k].status = IF k = n THEN st ELSE R[k].status
        BY <3>4, <3>5, Zenon
      <3>7. B[u] = [Statuses[t] EXCEPT ![n] = st]
        BY <2>2, StatusesFacts, Zenon
      <3>8. PICK V : V = Statuses[t]
        BY Zenon
      <3>9. V = [k \in DOMAIN R |-> R[k].status]
        BY <2>0, <2>2, <3>2, <3>8, Zenon
      <3>10. Statuses'[u] = [k \in DOMAIN R |-> Q[k].status]
        BY <2>0, <3>3, <3>4, Zenon
      <3>11. [k \in DOMAIN R |-> Q[k].status] = [V EXCEPT ![n] = st]
        BY <3>4, <3>6, <3>9, Zenon
      <3> QED
        BY <3>7, <3>8, <3>10, <3>11, Zenon
    <2> QED
      BY <2>1, <2>2, Zenon
  <1> HIDE DEF B
  <1>3. Statuses' = B
    BY <1>1, <1>2, Zenon
  <1> QED
    BY <1>3, Zenon DEF B

(* Store's own operators, over the committed rows. *)
LEMMA StoreView ==
  /\ Atomic!Tasks = Tasks
  /\ Atomic!storeVars = <<exec, status, nextRunAt, Statuses, outbox, replays>>
  BY Zenon DEF Atomic!Tasks, Tasks, Atomic!storeVars, Statuses

LEMMA StoreInitMapped == TransactionsInit => Atomic!StoreInit
  BY Zenon DEF TransactionsInit

(* Every step commits one transaction of Store, or none. *)
LEMMA StoreStartMapped ==
  ASSUME TransactionsInv, TransactionsInv', NEW s \in Sessions, CommitStart(s)
  PROVE  \E t \in Tasks : Atomic!StartTaskAttempt(t)
  <1>1. PICK t : t = tx[s].t
    BY Zenon
  <1>2. Ready(s, "start") /\ "start" \in OnTask
    BY Zenon DEF CommitStart, OnTask
  <1>3. /\ t \in Tasks /\ tx[s].seen = status[t] /\ tx[s].count = total[t]
    BY <1>1, <1>2, ReadyFacts
  <1>4. status[t] \notin Atomic!Terminal
    BY <1>2, <1>3, Zenon DEF Ready, Refused, Atomic!Terminal
  <1>5. TransactionsTypeOK /\ TransactionsTypeOK' /\ AttemptNumbersDistinct
    BY Zenon DEF TransactionsInv
  <1>6. Len(Statuses[t]) < AttemptCap
    <2>1. PICK c \in Nat : c = Len(Statuses[t])
      BY <1>3, <1>5, StatusesFacts DEF TransactionsTypeOK
    <2>2. c = tx[s].count
      BY <1>3, <1>5, <2>1, StatusesFacts, Zenon DEF AttemptNumbersDistinct
    <2>3. c + 1 <= AttemptCap
      BY <2>2, Zenon DEF CommitStart
    <2> QED
      BY <2>1, <2>3, TransactionsAssumption, SMTT(30)
  <1>7. Statuses' = [Statuses EXCEPT ![t] = Append(@, "running")]
    <2>1. rows' = [rows EXCEPT ![t] = Append(@, [number |-> tx[s].count + 1, status |-> "running"])]
      BY <1>1, Zenon DEF CommitStart
    <2> QED
      BY <1>3, <1>5, <2>1, StatusesStarted, Zenon
  <1>8. /\ status' = [status EXCEPT ![t] = "running"]
        /\ nextRunAt' = [nextRunAt EXCEPT ![t] = "none"]
        /\ UNCHANGED <<exec, outbox, replays>>
    BY <1>1, Zenon DEF CommitStart
  <1>9. Atomic!StartTaskAttempt(t)
    BY <1>4, <1>6, <1>7, <1>8, Zenon DEF Atomic!StartTaskAttempt, Statuses
  <1> QED
    BY <1>3, <1>9, Zenon

LEMMA StoreReplayMapped ==
  ASSUME TransactionsInv, NEW s \in Sessions, CommitReplay(s)
  PROVE  \E t \in Tasks : Atomic!ReplayDeadLetteredTask(t)
  <1>1. PICK t : t = tx[s].t
    BY Zenon
  <1>2. Ready(s, "replay") /\ "replay" \in OnTask
    BY Zenon DEF CommitReplay, OnTask
  <1>3. t \in Tasks /\ tx[s].seen = status[t] /\ status[t] # "none"
    BY <1>1, <1>2, ReadyFacts
  <1>4. status[t] = "dead_lettered"
    BY <1>2, <1>3, Zenon DEF Ready, Refused
  <1>5. Atomic!ReplayDeadLetteredTask(t)
    BY <1>1, <1>4, Zenon DEF CommitReplay, Atomic!ReplayDeadLetteredTask
  <1> QED
    BY <1>3, <1>5, Zenon

LEMMA StoreOutcomeMapped ==
  ASSUME TransactionsInv, TransactionsInv', NEW s \in Sessions,
         CommitComplete(s) \/ CommitEnqueueNext(s) \/ CommitRetry(s) \/ CommitFail(s)
  PROVE  \E t \in Tasks : \E n \in DOMAIN Statuses[t] :
           \/ NextTask[t[2]] = NoTask /\ Atomic!CompleteTaskAttempt(t, n)
           \/ NextTask[t[2]] # NoTask /\ Atomic!CompleteTaskAttemptAndEnqueueNextTask(t, n)
           \/ Atomic!ScheduleTaskRetry(t, n)
           \/ Atomic!FailTaskAttempt(t, n)
  <1>1. PICK t : t = tx[s].t
    BY Zenon
  <1>2. PICK n : n = tx[s].n
    BY Zenon
  <1>3. PICK op \in Outcomes : Ready(s, op)
    BY Zenon DEF CommitComplete, CommitEnqueueNext, CommitRetry, CommitFail, Outcomes
  <1>4. op \in OnTask
    BY Zenon DEF OnTask
  <1>5. /\ t \in Tasks /\ n \in DOMAIN rows[t]
        /\ op = "complete" => NextTask[t[2]] = NoTask
        /\ op = "next" => NextTask[t[2]] # NoTask /\ status[Atomic!Successor(t)] = "none"
    BY <1>1, <1>2, <1>3, <1>4, ReadyFacts
  <1>6. TransactionsTypeOK /\ TransactionsTypeOK'
    BY Zenon DEF TransactionsInv
  <1>7. n \in DOMAIN Statuses[t]
    BY <1>5, <1>6, StatusesFacts, Zenon
  <1>8. \A st \in Atomic!AttemptStatus : Report(t, n, st) => Statuses' = [Statuses EXCEPT ![t][n] = st]
    BY <1>5, <1>6, StatusesReported, Zenon
  <1>9. "succeeded" \in Atomic!AttemptStatus /\ "failed" \in Atomic!AttemptStatus
    BY Zenon DEF Atomic!AttemptStatus
  <1>10. tx[s].op = op
    BY <1>3, Zenon DEF Ready
  <1>11. CASE CommitComplete(s)
    <2>1. Report(t, n, "succeeded") /\ op = "complete"
      BY <1>1, <1>2, <1>10, <1>11, Zenon DEF CommitComplete, Ready
    <2>2. Statuses' = [Statuses EXCEPT ![t][n] = "succeeded"]
      BY <1>8, <1>9, <2>1, Zenon
    <2>3. Atomic!CompleteTaskAttempt(t, n)
      BY <1>1, <1>11, <2>2, Zenon DEF CommitComplete, Atomic!CompleteTaskAttempt, Statuses
    <2> QED
      BY <1>5, <1>7, <2>1, <2>3, Zenon
  <1>12. CASE CommitEnqueueNext(s)
    <2>1. Report(t, n, "succeeded") /\ op = "next"
      BY <1>1, <1>2, <1>10, <1>12, Zenon DEF CommitEnqueueNext, Ready
    <2>2. Statuses' = [Statuses EXCEPT ![t][n] = "succeeded"]
      BY <1>8, <1>9, <2>1, Zenon
    <2>3. Atomic!CompleteTaskAttemptAndEnqueueNextTask(t, n)
      BY <1>1, <1>5, <1>12, <2>1, <2>2, Zenon
         DEF CommitEnqueueNext, Atomic!CompleteTaskAttemptAndEnqueueNextTask, Statuses
    <2> QED
      BY <1>5, <1>7, <2>1, <2>3, Zenon
  <1>13. CASE CommitRetry(s)
    <2>1. Report(t, n, "failed")
      BY <1>1, <1>2, <1>13, Zenon DEF CommitRetry
    <2>2. Statuses' = [Statuses EXCEPT ![t][n] = "failed"]
      BY <1>8, <1>9, <2>1, Zenon
    <2>3. Atomic!ScheduleTaskRetry(t, n)
      BY <1>1, <1>13, <2>2, Zenon DEF CommitRetry, Atomic!ScheduleTaskRetry, Statuses
    <2> QED
      BY <1>5, <1>7, <2>3, Zenon
  <1>14. CASE CommitFail(s)
    <2>1. Report(t, n, "failed")
      BY <1>1, <1>2, <1>14, Zenon DEF CommitFail
    <2>2. Statuses' = [Statuses EXCEPT ![t][n] = "failed"]
      BY <1>8, <1>9, <2>1, Zenon
    <2>3. Atomic!FailTaskAttempt(t, n)
      BY <1>1, <1>14, <2>2, Zenon DEF CommitFail, Atomic!FailTaskAttempt, Statuses
    <2> QED
      BY <1>5, <1>7, <2>3, Zenon
  <1> QED
    BY <1>11, <1>12, <1>13, <1>14, Zenon

LEMMA StoreScanMapped ==
  ASSUME TransactionsInv, NEW s \in Sessions, CommitScan(s)
  PROVE  \E S \in SUBSET Atomic!DueTasks :
           /\ outbox' = Atomic!InsertEvents(S)
           /\ nextRunAt' = [t \in Atomic!Tasks |-> IF t \in S THEN "none" ELSE nextRunAt[t]]
           /\ UNCHANGED <<exec, status, Statuses, replays>>
  <1>1. tx[s].due \in SUBSET Atomic!DueTasks
    BY Zenon DEF TransactionsInv, Fresh
  <1> WITNESS tx[s].due \in SUBSET Atomic!DueTasks
  <1> QED
    BY StoreView, Zenon DEF CommitScan, Statuses

LEMMA StoreStepsMapped ==
  ASSUME TransactionsInv, TransactionsInv', [TransactionsNext]_transactionVars
  PROVE  [Atomic!StoreNext]_(Atomic!storeVars)
  <1>1. ASSUME NEW e \in Executions, CreateExecutionAndTask(e) PROVE Atomic!CreateExecutionAndTask(e)
    BY <1>1, Zenon DEF CreateExecutionAndTask, Atomic!CreateExecutionAndTask
  <1>2. ASSUME NEW t \in Tasks, BackoffElapses(t) PROVE Atomic!BackoffElapses(t)
    BY <1>2, Zenon DEF BackoffElapses, Atomic!BackoffElapses
  <1>3. ASSUME UNCHANGED committed PROVE UNCHANGED Atomic!storeVars
    BY <1>3, Zenon DEF committed, Atomic!storeVars
  <1>4. ASSUME NEW s \in Sessions, SessionNext(s) PROVE Atomic!StoreNext \/ UNCHANGED Atomic!storeVars
    <2>1. CASE BeginStart(s) \/ BeginReplay(s) \/ BeginOutcome(s) \/ BeginScan(s) \/ Statement(s) \/ Rollback(s)
      <3>1. UNCHANGED committed
        BY <2>1, Zenon DEF BeginStart, BeginReplay, BeginOutcome, Begin, BeginScan, Statement, Rollback
      <3> QED
        BY <1>3, <3>1, Zenon
    <2>2. CASE CommitStart(s)
      BY <2>2, StoreStartMapped, StoreView, Zenon DEF Atomic!StoreNext
    <2>3. CASE CommitReplay(s)
      BY <2>3, StoreReplayMapped, StoreView, Zenon DEF Atomic!StoreNext
    <2>4. CASE CommitComplete(s) \/ CommitEnqueueNext(s) \/ CommitRetry(s) \/ CommitFail(s)
      BY <2>4, StoreOutcomeMapped, StoreView, Zenon DEF Atomic!StoreNext, Statuses
    <2>5. CASE CommitScan(s)
      BY <2>5, StoreScanMapped, Zenon DEF Atomic!StoreNext, Statuses
    <2> QED
      BY <1>4, <2>1, <2>2, <2>3, <2>4, <2>5, Zenon DEF SessionNext
  <1>5. CASE UNCHANGED transactionVars
    BY <1>3, <1>5, Zenon DEF transactionVars
  <1>6. CASE TransactionsNext
    BY <1>1, <1>2, <1>4, <1>6, StoreView, Zenon DEF TransactionsNext, Atomic!StoreNext
  <1> QED
    BY <1>5, <1>6, Zenon

(* Statement by statement, with waits, early returns and sessions cut off  *)
(* anywhere, the transactions of store.go commit only what Store's atomic  *)
(* transactions do, each on the state it is applied to: the row locks they *)
(* take are enough.  Every module built on Store rests on this.            *)
THEOREM ImplementsStoreHolds == TransactionsSpec => ImplementsStore
  <1>1. TransactionsInv /\ TransactionsInv' /\ [TransactionsNext]_transactionVars =>
          [Atomic!StoreNext]_(Atomic!storeVars)
    BY StoreStepsMapped, Zenon
  <1> QED
    BY <1>1, StoreInitMapped, TransactionsInvariant, PTL
       DEF TransactionsSpec, ImplementsStore, Atomic!StoreSpec
=============================================================================
