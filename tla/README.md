# DurableFlow in TLA+

A model of the durable workflow engine in `src/`: its PostgreSQL store, the
transactional outbox, the Redis stream with its consumer group, the workers, the
idempotency records of the handlers, how its processes start, and its clients:
the HTTP API, the web console and the benchmark. TLC checks it on small instances
and TLAPS proves the central invariants for every value of the constants.

## The system

A client triggers an execution of a workflow definition: a chain of tasks, each
naming its successor by `next_task`. PostgreSQL holds all durable state. Work
travels from it to the workers along this path:

1. A transaction that makes a task runnable also inserts an *outbox event*.
2. A *publisher* (one goroutine per API process) lists undispatched events, adds
   a message to the Redis stream for each, and marks the event dispatched.
3. A *worker* reads the message through the consumer group, starts an attempt in
   one transaction, runs the handler, records the outcome in a second one, and
   acknowledges the message (`XACK`).
4. A message that is not acknowledged stays in the group's pending-entries list
   and is claimed (`XAUTOCLAIM`) by some worker once it has been idle for
   `ReclaimMinIdle`.

The outcome of an attempt is one of: success (the next task is inserted, or the
execution completes), a retry (`next_run_at` is set; a scan in each publisher
tick turns due retries into events), or dead-lettering (the execution fails, and
an operator may replay the task).

### Inventory

| Part | State | Operations | Where it is hard |
| --- | --- | --- | --- |
| Store (`internal/db/store.go`) | execution, task, attempt and outbox rows | create, replay, retry scan, start, three outcomes, mark | outcomes are written by id, without looking at the row's status |
| Redis Streams (`internal/queue`) | stream, last-delivered id, pending entries | XADD, XREADGROUP, XAUTOCLAIM, XACK | redelivery, reclaim from a live worker |
| Worker (`internal/orchestrator/worker.go`) | the messages in hand, the attempt number | claim, read, start, skip, outcome, ack | crash between any two of them |
| Publisher (`internal/outbox`) | the events listed | retry scan, list, publish, mark | publish and mark are not atomic; several publishers |
| Service (`internal/orchestrator/service.go`) | none | trigger, replay, validation, successor lookup | which definitions are accepted |
| Handlers and idempotency records (`internal/handlers`, `internal/db/idempotency.go`) | one row per key | begin (two statements), complete, release | overlap, lost replies |
| HTTP API (`internal/httpapi`) | none of its own | five routes, refusals, status codes | commits whose acknowledgement is lost, requests sent again |
| Start-up (`apps/*/main.go`, `migrate.go`, `postgres.go`) | schema, versions, advisory lock, consumer group | connect, migrate, wait, create the group, exit | releases starting together, crashes between files |
| Configuration (`internal/config`) | the settings of a process | parse, default, validate | three layers of defaults |
| Benchmark (`cmd/bench`) | a run's phase, the pool, the results | trigger, poll, replay, report; launch, wait; summarise | reads piecemeal, goroutines, percentiles |
| Web console (`apps/web`) | React state, requests in flight | click, effects, timers, replies | replies that overtake each other |
| Telemetry | | | not modelled, see below |

## Modules

| Module | Models | How state and steps correspond |
| --- | --- | --- |
| `Store` | the transactions of `store.go` | One operator per transaction, atomic because a transaction locks the task row and commits or rolls back as a whole. A task is `<<execution, task name>>`, which its unique idempotency key identifies. `attempts[t]` is the sequence of attempt statuses, so `attempts_total` is its length. `outbox[t]` is the sequence of the task's events, pending or dispatched. `nextRunAt` is NULL, in the future, or due. |
| `RedisStreams` | the commands of `redis_streams.go` | The server is external. A message is its position in the stream. `idle` holds the pending messages past `ReclaimMinIdle`. |
| `Worker` | `Consume`, `processMessages`, `HandleDispatchedTask` | A phase per worker; each transaction or Redis command is one step, and each way out of `HandleDispatchedTask` is an action. |
| `Publisher` | `publishOnce`, `Run` | A phase per publisher. The order by `created_at` is left open: any listed event may be published next. |
| `Engine` | composition with the API's two requests and time | `Next` interleaves all processes. Properties and fairness are here. |
| `Idempotency` | `idempotency.go` with the two handlers | The row of one key, and runs of `Handle` that reach its statements one at a time. |
| `WorkflowDefinition` | validation and lookups of `service.go` | A string is its trimmed text and whether it is padded. The rows an execution creates when every handler succeeds follow from the same lookups the worker does. |
| `TaskLifecycle` | the lifecycle drawn in `ARCHITECTURE.md` | Abstract: only the statuses of executions and tasks. `Engine` implements it (`ImplementsLifecycle`), its two variables mapped to themselves. |
| `StoreTransactions` | the statements and row locks inside the transactions of `store.go` | A session is in one transaction: what it runs, how far it is, what its `SELECT ... FOR UPDATE` saw. Committed rows have `Store`'s names. `Store` is the abstract specification here: `ImplementsStore` maps `attempts` to the statuses of the attempt rows. |
| `Snapshot` | `GetExecutionSnapshot` | Three queries with engine steps between them, and the view put together from their answers. |
| `OutboxOrder` | the order and limit of the retry scan and of `ListPendingOutbox` | Both backlogs are sequences by age; one task is told apart from all others. |
| `Startup` | both `main` functions, `OpenWithRetry`, `ApplyMigrations`, `WaitForReady`, `EnsureGroup` | A phase per process, the advisory lock and who holds it, the files run in the order they committed. |
| `Config` | `config.go` and the fallbacks of its users | A numeric setting is unset, words, a number, or a number with something after it. |
| `Api` | `router.go` and the errors `service.go` passes on, over `Store` | A client's request is sent, answered or lost; its answer is a status code and whether the database changed. |
| `BenchRun` | `runExecution` | Beside `Engine`, with the reads of `Snapshot` as its GET. |
| `BenchPool` | `runBenchmark`'s goroutines | Channel, WaitGroup and `sync.Once` as counters; idle until `main` calls it. |
| `BenchScenario` | `buildScenarioSpec` and the checks of the flags | Its definitions are taken through `WorkflowDefinition`. |
| `BenchSummary` | the statistics and the suite | Pure operators, compared with the definition by nearest rank. |
| `Console` | `App.tsx` | State as in the component; an effect runs some time after its dependency changed; requests in flight are answered in any order. |
| `MCParts` | | `WorkflowDefinition`, `BenchScenario`, `Config`, `BenchPool`, `BenchSummary` and `OutboxOrder` side by side: they share no state, and in each behaviour one of them is at work |
| `MCCalls` | | `Api` and `Idempotency` in the same way: both are about calls made again because their outcome is not known |
| the other `MC...` | | constants for TLC |
| `EngineProofs`, `EngineCoverProofs`, `EngineCountProofs` | | theorems about `Engine`, each module extending the one before: types, messages, attempts, statuses and the lifecycle; what brings a task to a worker; how many of those there can be |
| `BenchRunProofs` | | theorems about `Snapshot` and `BenchRun`, on top of `EngineProofs` |
| `StoreTransactionsProofs` | | theorems about `StoreTransactions`, the refinement of `Store` among them |
| `ServiceProofs` | | theorems about `Api`, `Startup` and `Idempotency` |
| `DefinitionProofs` | | theorems about `WorkflowDefinition` and `BenchScenario` |
| `PartsProofs` | | theorems about `Config`, `BenchPool` and `Console` |

Failures are actions of their own, each bounded by a cap:

- `CrashWorker`: the process dies, or a Redis error ends the consume loop and
  with it the process. It comes back with nothing in hand.
- `LeavePending`: the callback returned an error, so there is no XACK. In phase
  `ack` it is a commit whose reply was lost.
- A worker that dies while XACK takes effect is `Ack` followed by a crash.
- `PublishFails`: XADD failed, with or without effect. `AbortTick`: any other
  failure of a tick, or the end of the process.
- `Rollback` (`StoreTransactions`): a session is cut off between two statements.
- `Stop`, `PostgresGoesDown`, `RedisGoesDown` (`Startup`): a process dies at any
  point, leaving a session behind that holds the lock for a while; an outage ends
  every session.
- `ConnectionBreaks` (`Api`): before the commit, or after it and before its
  acknowledgement. `LoseReply`: the client sends the request again.
- `DispatchFails`, `TickFails` (`OutboxOrder`), `GiveUp` (`BenchRun`), `PollFails`
  and `ListFails` (`Console`): a request that fails.

The operators whose comment begins with "Faulty variant" are not part of the
model. Each is a plausible bug in the operator below it, and shows that a
property fails when the code does.

Constants that are bounds and not code: the ones whose name ends in `Cap`, and
`Backlog` and `Slots`. `SlowWorkers` says whether a
handler may take longer than `ReclaimMinIdle`. `overlapped` in `Idempotency` is
auxiliary: it remembers whether handler runs of one task have overlapped.

## Runs

| Run | Instance | Shows |
| --- | --- | --- |
| `core` | chain of two tasks (two attempts allowed; none given, so one), 2 workers, 1 publisher, one worker failure, one publisher failure, one replay | type invariant, `NoLostTask`, `ExclusiveHolding`, `RunningExecutionHasWork`, `ChainOrder`, `OutcomeHasCause`; up to the first failure `OneAttemptAtATime` |
| `duplicates` | one task, 2 workers, 2 publishers that list the same events, one worker failure | `AttemptOwnership`, `AttemptHistoryKept` |
| `single` | the chain, 1 worker, 1 publisher, one failure of each, one replay, fairness | `AttemptsBounded`, the refinement `ImplementsLifecycle`, `ExecutionFinishes`, `QueueDrains` |
| `slow` | as `core`, handlers slower than `ReclaimMinIdle` | `NoStrandedTask` is violated |
| `final` | as `core`, one worker failure only | `SucceededIsFinal` is violated |
| `transactions` | the chain, 2 sessions, two attempts per task, one replay | `AttemptNumbersDistinct`, `NoLockCycle`, the refinement `ImplementsStore` |
| `bench_run` | a benchmark run, with or without a replay, beside 1 worker and 1 publisher, one worker failure and one of the run, fairness | `ShownOutcomeHasCause`, `ShownTaskHasItsAttempts`, `ReportIsFinal`, `ReplayIsMeasured`, `BenchEnds` |
| `calls`: requests | 2 clients, 4 requests, one fault, a chain of two tasks, two replays | `ReplyTellsTheEffect`, `ReplayedOncePerDeadLetter` |
| `calls`: handlers | five handler runs of two tasks on one key, three failures, overlapping or not | `ReturnedIsStored`, `StoredIsKept`; until runs overlap `SameResponse` |
| `startup` | an API and a worker of one release (two files), a worker of an older one (one file), two starts each, one outage, two messages, fairness | `MigrationsOnceInOrder`, `ServesOnItsSchema`, `GroupReadsEachOnce`, `StartupEnds` |
| `console` | 2 executions that change once, 3 clicks, two requests of a kind in flight, fairness | `LastActionIsShown`, `ConsoleCatchesUp` |
| `parts`: definitions | up to three tasks, with every choice of names out of two, one of them also padded, and blank; handler keys and numbers vary with up to two tasks; and all benchmark scenarios, flags on both sides of their bounds, chains up to 6 | `RowFindsItsTask`, `OneRowPerTask`, `ScenarioRunsWholeChain` |
| `parts`: settings | up to three edits of the environment | `RunsOnItsSettings` |
| `malformed` | one edit of the environment | `MalformedIsRefused` is violated |
| `parts`: pool | 4 runs, 2 at a time, fairness | `ReturnIsComplete`, `PoolEnds` |
| `parts`: suite | two repetitions, each any list of up to three runs over three latencies, or a longer one of up to 120 | `StatisticsMatchDefinition` |
| `parts`: outbox | limit 2, backlogs of 6 rows, the first scan full before the task, two late commits, fairness | `RetryIsPublished` |

Bounds. One execution is enough: executions share no row, and meet only in the
stream and in the publishers' limits. Two tasks give a first and a last task.
One failure of each kind already lets a message be redelivered, an event be
published twice and two attempts overlap. `AttemptCap` stands for unbounded
attempts and, in the runs that check liveness, is larger than what the failures
and replays allow, so that it never binds. Symmetry is used among workers and
among publishers, and in `calls` among clients, in the runs that check safety only. The idempotency key of two
tasks differs in the engine; the store accepts two owners of one key and
`store_integration_test.go` (`TestIdempotencyConflictAndCachedResponse`) uses
it so, which is why `calls` does too.

`AttemptCap` binds in `core`, `duplicates`, `transactions` and `calls`, which
check safety only. Two sessions are enough for a lost update and for two
transactions that wait for each other; three sessions have too many states for
TLC, and circles of any length are excluded by proof. In the outbox a backlog of three times
the limit lets a task wait for several ticks; `late` is finite because a
transaction that began before the task's event commits, or not, in finite time.
Two migration files let a process die between them. Two messages and two workers
let a worker that starts late find a group that another has read from, and make
the order of deliveries something that can fail. In `console` two slots let
one reply overtake another. The lengths of lists for the percentiles are 1 to 4
and those around 20 and 100, where the rounding changes; that the floating-point
product rounds to the same integer was computed separately for lengths up to two
million.

No passing run checks deadlock: an engine with nothing to do, runs that have all
returned, and clients that have sent their requests, may stop.

Fairness (`LiveSpec`): weak fairness of every worker's and publisher's own steps
and of the passing of time. The loops of `Consume` and `Run` never stop on their
own. A failed process is taken to be started again, which is the operator's
part: the compose file has no restart policy. Requests, failures and the
handler's result have no fairness: a handler may fail every time. With failures,
liveness is checked with one worker. With two workers on a chain two overlapping
attempts can leave a task open whose successor exists; each completion then
violates the unique key and the message is redelivered for ever
(`EnqueueNextConflicts`).

Elsewhere:

- `OutboxOrder`: the loop of `Run` goes on (weak fairness). A tick reaches its
  listing again and again and the oldest event is not refused every time (strong
  fairness): failures come and go. Without that nothing can be promised.
- `BenchRun`: as `Engine`, and the client's own loop. `BenchPool`: goroutines are
  scheduled, and a run returns, at the latest by its time-out.
- `Startup`: a process takes the steps it can, and PostgreSQL notices a session
  whose client is gone. Servers need not come up: a start then ends in an exit.
- `Console`: timers fire, effects run, each request settles. Polls do not fail
  for ever (strong fairness).

### What the violations show

- `slow`. Worker A is slow with a message; B claims it. A's handler fails: a
  retry is persisted and the message acknowledged. B starts its attempt, which
  clears `next_run_at`, and then fails. The task stays `running`; no event,
  message or retry time is left for it. `docs/low-level-design.md` says an error
  persisting an outcome leaves the message pending for reclaim, but the message
  B holds was acknowledged by A.
- `final`. A worker persists a retry and dies before XACK. The reclaimed message
  and the retry's own message are handled side by side; one attempt succeeds,
  the other then fails and takes the task out of `succeeded`, for which
  `ARCHITECTURE.md`'s lifecycle has no transition.

- `malformed`. `REDIS_RECLAIM_COUNT` is parsed with `fmt.Sscan`, which reads the
  number a text begins with and no further: with `10abc` the process starts, on
  10. `docs/operations.md` says that API and worker fail fast on malformed
  settings and names this one. Durations are refused, by `time.ParseDuration`:
  that, and that every other value in use is the one set, is what
  `RunsOnItsSettings` says.

The second is what the lifecycle excludes: `ImplementsLifecycle` says that a
succeeded task stays succeeded, that a task stays finished once its successor
exists, and that an execution's outcome agrees with its tasks. It holds with one
worker, whatever fails, and with any number of workers as long as nothing fails;
both are proved.

One more place where code and documentation differ has no run of its own: it
shows as soon as the invariant `stage # "conflict"` is added to `Parts.cfg`. Two tasks that name each other are accepted. After the
second one the first would get a second row, which its unique key forbids: the
completion fails on every redelivery and each redelivery starts one more
attempt. `README.md` calls chaining linear; only a task naming itself is
rejected.

## Theorems

Proved with TLAPS for any sets of executions, tasks, workers, publishers,
sessions, clients or runs and for any caps, from the assumptions on constants
that the modules name; the less obvious ones are in the table. A theorem that
needs more has it as an `ASSUME` of its own and it is given here. Every safety property that a passing run checks is proved,
except `StatisticsMatchDefinition`.

| Assumption | Says | Where the code has it |
| --- | --- | --- |
| `DefinitionAssumption`, `TransactionsAssumption` | the entry task and every successor are tasks of the definition, and no task is its own successor | `ParseAndValidateWorkflowDefinition` |
| `ListAssumption` | the tasks of a definition are a list | the type of `WorkflowDefinitionSpec.Tasks` |
| `ScenarioAssumption` | flags are integers; the names `buildScenarioSpec` makes up are not blank | `flag.Int`, `fmt.Sprintf("step-%d", i)` |
| `Ordered(rank)` | the definition is a chain: some order of the tasks is respected by `NextTask` | not checked by the code; `README.md` of the repository calls workflows linear |

### Engine: messages and attempts (`EngineProofs`)

- `TypeCorrect`: `TypeOK` is inductive. It includes that what a worker holds has
  been delivered and that what a publisher has listed exists.
- `AttemptOwnershipHolds`: inductive with `TypeOK`, for slow workers and any
  number of publishers too. A new attempt has a number no other has, and an
  outcome goes to the row of the worker that ran the attempt.
- `AttemptHistoryKeptHolds`: from `AttemptOwnership`, since the row an outcome
  goes to is running.
- `ChainOrderHolds`, `OutcomeHasCauseHolds`: what they look for is an attempt that
  ended, which `AttemptHistoryKept` keeps. A row that is new must have a cause in
  the same step; `StartTaskAttempt` writes the status of whatever task a message
  names, so `KnownTasks` says that events and messages are of tasks that exist.
- `ExclusiveHoldingHolds`: inductive with `TypeOK`. A message becomes idle only
  when no worker holds it (`~SlowWorkers`), XAUTOCLAIM takes it out of `idle`,
  and XREADGROUP delivers one that was never delivered.

### Engine: statuses (`EngineProofs`)

- `RunningExecutionHasWorkHolds`: for any definition, cyclic ones included, any
  workers and failures. Inductive with `TypeOK`: each transaction that finishes a
  task either ends the execution or inserts the row of a next task, and each that
  sets the execution running leaves a task of it open.
- `ImplementsLifecycleHolds`: assumes one worker. `OneUnfinished` is inductive: an
  execution has at most one task that has not succeeded, the execution's status
  follows it, and the task a worker runs is shown as running. An outcome is then
  written only to a task that the lifecycle lets move. A repeated message finds
  its task terminal, and is skipped, or starts an attempt of the open one.
- `SucceededIsFinalForOneWorker`: from the same invariant. Two workers break it,
  which the run `final` shows.

### Engine: carriers (`EngineCoverProofs`, `EngineCountProofs`)

- `NoTaskIsLost`: assumes `~SlowWorkers`. `NoLostTask` is not inductive: a step
  that marks an event or acknowledges a message removes what it counts. `Covered`
  does not count an event about to be marked, or a message about to be
  acknowledged. It is preserved because a publisher reaches `mark` only by adding
  a message, and a worker reaches `ack` only after its outcome gave the task a
  retry time or made it terminal. That step needs `ExclusiveHolding`: with two
  holders, one could acknowledge the message the other's task depends on, which
  is what the run `slow` shows.
- `OneAttemptAtATimeHolds`: assumes a chain and finitely many publishers. The
  *carriers* of a task are what can still bring it to a worker: events not yet
  published, messages not yet acknowledged, a retry time. `CarrierSteps` says what
  each step does to them: none is added, one takes another's place (an event's
  message, an attempt's retry), one comes with a task that opens, or one is added
  by a step that is a failure. `CarriersBounded` follows: an open task has at most
  one, plus one per failure, and a finished one only the latter. Without failures
  two workers therefore never run one task; `Attended` says that a running attempt
  has its worker.
- `ImplementsLifecycleWithoutFaults`: assumes that nothing fails, one publisher
  and `~SlowWorkers`; for any number of workers and any definition. One carrier
  per task takes the place of one worker in the argument above.
- `AttemptsBoundedHolds`: assumes a chain, one worker and one publisher.
  `Budgeted` counts the carriers that no worker is running as attempts already
  made: to begin an attempt uses one up, a retry gives one only below
  `max_attempts`, and a replay and a failure each add one. A retry is decided on
  the number of the attempt that failed, so the invariant also says that this is
  the latest (`Latest`), which takes one worker.

The hypotheses are needed. In a cycle the second visit of a task leaves its
attempt running and its message pending (`EnqueueNextConflicts`), which breaks
`OneAttemptAtATime` without a failure and `AttemptsBounded` for good. With three
overlapping workers on a chain the same conflict can bring a message back that
is counted as no failure.

### Transactions (`StoreTransactionsProofs`)

The inductive invariant `TransactionsInv` says which rows a transaction has locked
at each statement and that no other transaction has them (`Locking`), that what it
has seen of a row it has locked is still so (`Fresh`), and that the attempt a
session reports on exists and no other session reports on it (`Owned`).

- `ImplementsStoreHolds`: a commit applies its writes to the state its reads came
  from, so it is the step of `Store` of the same name; every other statement
  leaves what is committed alone. `Engine`, `Api`, `Snapshot` and `BenchRun` use
  `Store`'s atomic transactions because of this theorem.
- `AttemptNumbersDistinctHolds`: `attempts_total` is read under the lock and is
  the number of rows.
- `NoLockCycleHolds`: in every set of sessions there is one that waits for none of
  the others. A transaction that waits for its task's row has locked nothing that
  another could wait for: at most its attempt, and attempts are `Owned`. One that
  waits for an execution or for a row being inserted waits for a transaction that
  is at its last statement. So no chain of waits is longer than two.

### Snapshots and the benchmark (`BenchRunProofs`)

- `BenchRunsTheEngine`: `BenchSpec => Spec`, so every theorem about `Engine` holds
  while it is measured.
- `ShownOutcomeHasCauseHolds`, `ShownTaskHasItsAttemptsHolds`: `SnapshotBacked` says
  that what the first queries returned has its attempts on record already; rows
  and ended attempts are only added (`AttemptHistoryKept`), so the later queries
  see them too.
- `ReportIsFinalHolds`, `ReplayIsMeasuredHolds`: assume one worker. An execution
  that has ended is then frozen until a replay (`EndedIsFrozen`), so queries of
  different times agree once the first has read an end. `Staged`, `UpToDate` and
  `Measured` relate the phases of `runExecution` to that. With two workers an
  overlapping attempt may move an ended execution.

### Handlers, start-up, API (`ServiceProofs`)

- `ReturnedIsStoredHolds`, `StoredIsKeptHolds`: for overlapping runs too.
- `SameResponseHolds`, `KeyIsExclusiveHolds`: from `IInv`, which adds that as long
  as nothing has overlapped the active runs of one task are one (`ActiveApart`).
  A run at work then holds an unfinished row, so that the response it stores
  replaces none.
- `MigrationsOnceInOrderHolds`, `ServesOnItsSchemaHolds`: for any processes and
  releases. The invariant says that the files run are `1 .. n`, recorded exactly,
  that only the holder of the lock is among its files, and that a process at a
  file has all files before it behind it. A process that lost its session is no
  longer at a file, which is why an outage may free the lock.
- `GroupReadsEachOnceHolds`: inductive with the group's position being 0 until it
  is created.
- `ReplayedOncePerDeadLetterHolds`: inductive with the types it needs; a replay
  is accepted only from `dead_lettered`, which it leaves, under the row lock.
- `ReplyTellsTheEffectHolds`: inductive over the calls, each answer given with
  its code by the step that has the effect.

### Definitions and scenarios (`DefinitionProofs`)

- `RowFindsItsTaskHolds`, `OneRowPerTaskHolds`: for lists of any length and any
  names; names may be padded or repeated, as validation does not refuse it. Every
  lookup returns the first task of a trimmed name (`MinIsFirst`, `FindFinds`), so
  rows are made from first matches only and a row's name leads back to its task.
  Two rows whose names trim to the same text are then of one task and spelt alike,
  which the unique key refuses.
- `ScenarioRunsWholeChainHolds`: for chains of any length. What
  `buildScenarioSpec` returns is a chain (`IsChain`); a chain is valid, and the
  execution's rows are its first tasks in order, so it can stop only at the end.

### Settings, pool, console (`PartsProofs`)

- `RunsOnItsSettingsHolds`: for any environment; a `REDIS_RECLAIM_COUNT` with
  something after its number is left to the run `malformed`. `ConfigInv` adds that every number
  of a loaded configuration is positive, so that no later fallback replaces it.
- `AtMostConcurrencyHolds`, `ReturnIsCompleteHolds`: the semaphore's count is the
  number of goroutines that have not released it, and the WaitGroup's the number
  not gone, plus one while the loop is between `Add` and `go`.
- `LastActionIsShownHolds`: `ActionInv` says that at most one action is under way
  and that it is the last one clicked, because `loading` disables the buttons.

### Model-checked only

- Liveness: `ExecutionFinishes`, `QueueDrains`, `BenchEnds`, `StartupEnds`,
  `ConsoleCatchesUp`, `PoolEnds`, `RetryIsPublished`. Fairness is beyond the prover.
- `StatisticsMatchDefinition`: sorting and the percentiles are recursive, and what
  a recursive definition computes takes an induction over data.
- That `Ordered(rank)` follows from an accepted definition that has no cycle.

## Not modelled

- Payloads, outputs, error texts, other time stamps, logs and metrics.
- In `Engine` a workflow definition is the constants `TaskNames`, `EntryTask`,
  `NextTask`, `MaxAttempts`: its row never changes once created. The backoff is
  "later".
- Definitions that are not JSON. The name of a definition is only a creation
  that may fail (`CreationFails`), or one that is taken (`Api`).
- Telemetry: counters, traces and logs that nothing reads.
- The health endpoints and the dead-letter list with its limit: reads that no
  step depends on. `Console` reads the list as a set.
- The decoding of requests beyond whether it succeeds; layout and panels of the
  console; printing and writing the benchmark's result, and its throughput.
- Error texts cut at 1000 bytes (`truncate`), which may fall inside a character.
- Loss of Redis data. A dispatched event is not published again.
- `XAUTOCLAIM`'s cursor, which the code discards: each scan begins at the oldest
  pending message and takes the first idle ones, as the model does. The server's
  own limit on the entries it looks at per call is left out.
- Overlapping attempts in `TaskLifecycle`: there the engine does not implement
  it, which is what `final` shows.
