------------------------------ MODULE Startup ------------------------------
(***************************************************************************)
(* How API and worker processes start and stop (apps/api/main.go,          *)
(* apps/worker/main.go): connecting to PostgreSQL with a deadline, the     *)
(* migrations under an advisory lock (internal/db/migrate.go), waiting for *)
(* Redis, and the consumer group a worker makes sure of before it reads.   *)
(* Processes of different releases start together, crash and start again.  *)
(* A process is in one of the phases                                       *)
(*   off       not running                                                 *)
(*   connect   OpenWithRetry                                               *)
(*   lock      pg_advisory_lock                                            *)
(*   check     looking up its next migration file                          *)
(*   apply     about to run it                                             *)
(*   unlock    done with the files                                         *)
(*   lost      its database session is gone: the next query will fail      *)
(*   redis     WaitForReady                                                *)
(*   group     a worker's EnsureGroup                                      *)
(*   serving   publishing (API) or reading messages (worker)               *)
(***************************************************************************)
EXTENDS Naturals, Sequences

CONSTANTS
  Processes,
  Apis,          \* those that are API processes; the others are workers
  Release,       \* how many migration files each process was built with
  StartCap,      \* bound: starts of a process
  OutageCap,     \* bound: outages of PostgreSQL and of Redis
  DispatchCap    \* bound: messages

ASSUME StartupAssumption ==
  /\ Apis \subseteq Processes
  /\ Release \in [Processes -> Nat]
  /\ StartCap \in Nat /\ OutageCap \in Nat /\ DispatchCap \in Nat
  /\ "free" \notin Processes /\ "dead" \notin Processes

VARIABLES
  phase,
  nextFile,    \* the file a process is at, 1 while it is at none
  lock,        \* who holds the advisory lock: "free", a process, or the
               \* session a "dead" process left behind
  schema,      \* the migration files run, in the order they committed
  versions,    \* schema_migrations
  pgUp, redisUp,
  added,       \* messages in the stream
  created,     \* does the consumer group exist?
  group,       \* its last-delivered position
  reads,       \* the messages read through it, in order
  starts, outages

databaseVars == <<lock, schema, versions, pgUp>>
redisVars == <<redisUp, added, created, group, reads>>
startupVars == <<phase, nextFile, databaseVars, redisVars, starts, outages>>

Init ==
  /\ phase = [p \in Processes |-> "off"]
  /\ nextFile = [p \in Processes |-> 1]
  /\ lock = "free"
  /\ schema = <<>>
  /\ versions = {}
  /\ pgUp = FALSE
  /\ redisUp = FALSE
  /\ added = 0
  /\ created = FALSE
  /\ group = 0
  /\ reads = <<>>
  /\ starts = [p \in Processes |-> 0]
  /\ outages = 0

-----------------------------------------------------------------------------
Enter(p, ph) == phase' = [phase EXCEPT ![p] = ph]

Start(p) ==
  /\ phase[p] = "off"
  /\ starts[p] < StartCap
  /\ starts' = [starts EXCEPT ![p] = @ + 1]
  /\ Enter(p, "connect")
  /\ UNCHANGED <<nextFile, databaseVars, redisVars, outages>>

(* OpenWithRetry: a ping succeeds, or the deadline passes without one. *)
OpenWithRetry(p) ==
  /\ phase[p] = "connect"
  /\ Enter(p, IF pgUp THEN "lock" ELSE "off")
  /\ UNCHANGED <<nextFile, databaseVars, redisVars, starts, outages>>

(* Faulty variant: no waiting for the lock. *)
AcquireWithoutWaiting(p) ==
  /\ phase[p] = "lock"
  /\ lock' = p
  /\ nextFile' = [nextFile EXCEPT ![p] = 1]
  /\ Enter(p, "check")
  /\ UNCHANGED <<schema, versions, pgUp, redisVars, starts, outages>>

(* Blocks until the lock is free; the table of versions is made sure of. *)
AcquireLock(p) ==
  /\ phase[p] = "lock"
  /\ lock = "free"
  /\ lock' = p
  /\ nextFile' = [nextFile EXCEPT ![p] = 1]
  /\ Enter(p, "check")
  /\ UNCHANGED <<schema, versions, pgUp, redisVars, starts, outages>>

(* Faulty variant: any recorded version counts. *)
CheckAnyVersion(p) ==
  /\ phase[p] = "check"
  /\ IF nextFile[p] > Release[p]
     THEN Enter(p, "unlock") /\ UNCHANGED nextFile
     ELSE IF versions # {}
     THEN nextFile' = [nextFile EXCEPT ![p] = @ + 1] /\ UNCHANGED phase
     ELSE Enter(p, "apply") /\ UNCHANGED nextFile
  /\ UNCHANGED <<databaseVars, redisVars, starts, outages>>

(* The next file, in the order of the names: skipped when its version is   *)
(* recorded.                                                               *)
CheckFile(p) ==
  /\ phase[p] = "check"
  /\ IF nextFile[p] > Release[p]
     THEN Enter(p, "unlock") /\ UNCHANGED nextFile
     ELSE IF nextFile[p] \in versions
     THEN nextFile' = [nextFile EXCEPT ![p] = @ + 1] /\ UNCHANGED phase
     ELSE Enter(p, "apply") /\ UNCHANGED nextFile
  /\ UNCHANGED <<databaseVars, redisVars, starts, outages>>

(* The script and its version commit together.  The insert would say       *)
(* nothing of a version recorded in between: ON CONFLICT DO NOTHING.       *)
ApplyFile(p) ==
  /\ phase[p] = "apply"
  /\ schema' = Append(schema, nextFile[p])
  /\ versions' = versions \cup {nextFile[p]}
  /\ nextFile' = [nextFile EXCEPT ![p] = @ + 1]
  /\ Enter(p, "check")
  /\ UNCHANGED <<lock, pgUp, redisVars, starts, outages>>

(* Faulty variant: the connection goes back to the pool with the lock. *)
KeepLock(p) ==
  /\ phase[p] = "unlock"
  /\ Enter(p, "redis")
  /\ nextFile' = [nextFile EXCEPT ![p] = 1]
  /\ UNCHANGED <<databaseVars, redisVars, starts, outages>>

(* The deferred unlock, whose failure is ignored. *)
Unlock(p) ==
  /\ phase[p] = "unlock"
  /\ lock' = IF lock = p THEN "free" ELSE lock
  /\ Enter(p, "redis")
  /\ nextFile' = [nextFile EXCEPT ![p] = 1]
  /\ UNCHANGED <<schema, versions, pgUp, redisVars, starts, outages>>

(* ApplyMigrations returned the error of a query, and the process exits. *)
MigrationFails(p) ==
  /\ phase[p] = "lost"
  /\ Enter(p, "off")
  /\ nextFile' = [nextFile EXCEPT ![p] = 1]
  /\ UNCHANGED <<databaseVars, redisVars, starts, outages>>

(* A ping succeeds, or the deadline passes without one. *)
WaitForReady(p) ==
  /\ phase[p] = "redis"
  /\ Enter(p, IF ~redisUp THEN "off" ELSE IF p \in Apis THEN "serving" ELSE "group")
  /\ UNCHANGED <<nextFile, databaseVars, redisVars, starts, outages>>

(* Faulty variant: the group starts with messages added later. *)
EnsureGroupAtEnd(p) ==
  /\ phase[p] = "group"
  /\ redisUp
  /\ created' = TRUE
  /\ group' = IF created THEN group ELSE added
  /\ Enter(p, "serving")
  /\ UNCHANGED <<nextFile, databaseVars, redisUp, added, reads, starts, outages>>

(* Faulty variant: an existing group is set back to where a new one starts. *)
EnsureGroupAnew(p) ==
  /\ phase[p] = "group"
  /\ redisUp
  /\ created' = TRUE
  /\ group' = 0
  /\ Enter(p, "serving")
  /\ UNCHANGED <<nextFile, databaseVars, redisUp, added, reads, starts, outages>>

(* XGROUP CREATE at "0"; an existing group (BUSYGROUP) is left alone. *)
EnsureGroup(p) ==
  /\ phase[p] = "group"
  /\ redisUp
  /\ created' = TRUE
  /\ group' = IF created THEN group ELSE 0
  /\ Enter(p, "serving")
  /\ UNCHANGED <<nextFile, databaseVars, redisUp, added, reads, starts, outages>>

(* A Redis error ends Consume, which cancels the worker's context. *)
ConsumerExits(p) ==
  /\ p \notin Apis
  /\ phase[p] \in {"group", "serving"}
  /\ ~redisUp
  /\ Enter(p, "off")
  /\ UNCHANGED <<nextFile, databaseVars, redisVars, starts, outages>>

(* The publisher of an API process adds a message. *)
Dispatch(p) ==
  /\ p \in Apis
  /\ phase[p] = "serving"
  /\ redisUp
  /\ added < DispatchCap
  /\ added' = added + 1
  /\ UNCHANGED <<phase, nextFile, databaseVars, redisUp, created, group, reads, starts, outages>>

(* A worker reads the next message of the group. *)
Read(p) ==
  /\ p \notin Apis
  /\ phase[p] = "serving"
  /\ redisUp
  /\ group < added
  /\ group' = group + 1
  /\ reads' = Append(reads, group + 1)
  /\ UNCHANGED <<phase, nextFile, databaseVars, redisUp, added, created, starts, outages>>

-----------------------------------------------------------------------------
(* A signal or a crash, at any point.  The session it leaves behind keeps  *)
(* the lock until the server notices.                                      *)
Stop(p) ==
  /\ phase[p] # "off"
  /\ Enter(p, "off")
  /\ lock' = IF lock = p THEN "dead" ELSE lock
  /\ nextFile' = [nextFile EXCEPT ![p] = 1]
  /\ UNCHANGED <<schema, versions, pgUp, redisVars, starts, outages>>

SessionEnds ==
  /\ lock = "dead"
  /\ lock' = "free"
  /\ UNCHANGED <<phase, nextFile, schema, versions, pgUp, redisVars, starts, outages>>

(* An outage of PostgreSQL ends every session and so frees the lock. *)
PostgresGoesDown ==
  /\ pgUp
  /\ outages < OutageCap
  /\ outages' = outages + 1
  /\ pgUp' = FALSE
  /\ lock' = "free"
  /\ phase' = [p \in Processes |->
                 IF phase[p] \in {"lock", "check", "apply"} THEN "lost" ELSE phase[p]]
  /\ UNCHANGED <<nextFile, schema, versions, redisVars, starts>>

RedisGoesDown ==
  /\ redisUp
  /\ outages < OutageCap
  /\ outages' = outages + 1
  /\ redisUp' = FALSE
  /\ UNCHANGED <<phase, nextFile, databaseVars, added, created, group, reads, starts>>

ServersComeUp ==
  /\ ~pgUp \/ ~redisUp
  /\ pgUp' \in {pgUp, TRUE} /\ redisUp' \in {redisUp, TRUE}
  /\ UNCHANGED <<phase, nextFile, lock, schema, versions, added, created, group, reads, starts, outages>>

-----------------------------------------------------------------------------
ProcessStep(p) ==
  \/ OpenWithRetry(p) \/ AcquireLock(p) \/ CheckFile(p) \/ ApplyFile(p)
  \/ Unlock(p) \/ MigrationFails(p) \/ WaitForReady(p) \/ EnsureGroup(p) \/ ConsumerExits(p)

Next ==
  \/ \E p \in Processes : Start(p) \/ ProcessStep(p) \/ Dispatch(p) \/ Read(p) \/ Stop(p)
  \/ SessionEnds \/ PostgresGoesDown \/ RedisGoesDown \/ ServersComeUp

Spec == Init /\ [][Next]_startupVars

(* A process goes on with what it can do, and the server notices a session *)
(* whose client is gone.                                                   *)
LiveSpec ==
  /\ Spec
  /\ \A p \in Processes : WF_startupVars(ProcessStep(p))
  /\ WF_startupVars(SessionEnds)

-----------------------------------------------------------------------------
(* The migration files run once each and in the order of their names,      *)
(* whatever processes of whatever releases start together, fail half way   *)
(* or start again: nothing but the advisory lock keeps two of them from    *)
(* running a file both found missing.                                      *)
MigrationsOnceInOrder == \A k \in DOMAIN schema : schema[k] = k

(* A process that goes on past its migrations has the schema it was built  *)
(* for: every file of its release has been run and recorded.               *)
ServesOnItsSchema ==
  \A p \in Processes : phase[p] \in {"unlock", "redis", "group", "serving"} =>
    \A f \in 1 .. Release[p] : f \in versions /\ \E k \in DOMAIN schema : schema[k] = f

(* The consumer group delivers every message once and in order to the      *)
(* workers together, also those added before any worker had created it:    *)
(* EnsureGroup starts at the beginning of the stream, and that of a worker *)
(* that starts later, or again, does not set back what others have read.   *)
GroupReadsEachOnce == reads = [k \in 1 .. group |-> k]

(* A starting process comes to serve or exits: it is not left waiting for  *)
(* a lock that nobody will release.                                        *)
StartupEnds ==
  \A p \in Processes : phase[p] = "connect" ~> phase[p] \in {"off", "serving"}
=============================================================================
