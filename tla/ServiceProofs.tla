--------------------------- MODULE ServiceProofs ----------------------------
(***************************************************************************)
(* Proofs about what a process does around the engine: answering requests  *)
(* (Api, for any number of clients, workflows, executions and requests),   *)
(* starting up (Startup, for any processes, any releases and any number of *)
(* starts and outages) and recording side effects (Idempotency, for any    *)
(* number of runs and tasks).                                              *)
(***************************************************************************)
EXTENDS Api, Startup, Idempotency, TLAPS, SequenceTheorems

-----------------------------------------------------------------------------
(* Requests. *)

Argument == (UNION {Arguments(r) : r \in Routes}) \cup {"none"}

Calling ==
  [route : Routes \cup {"none"}, method : {"none", "OPTIONS", "GET", "POST"},
   sound : BOOLEAN, arg : Argument,
   phase : {"idle", "sent", "answered", "lost"}, reply : Nat, changed : BOOLEAN]

(* Every dead-lettering leaves one replay to accept, and a replay uses it  *)
(* up: with the types of the two counters this is inductive.               *)
ReplayInv ==
  /\ status \in [Tasks -> TaskStatus]
  /\ deadLettered \in [Tasks -> Nat]
  /\ accepted \in [Tasks -> Nat]
  /\ ReplayedOncePerDeadLetter

(* A step that writes no status and no counter preserves ReplayInv. *)
LEMMA ReplayInvSame ==
  ASSUME ReplayInv, UNCHANGED <<status, deadLettered, accepted>>
  PROVE  ReplayInv'
BY Zenon DEF ReplayInv, ReplayedOncePerDeadLetter

(* Nor does one that dead-letters no task. *)
LEMMA NoNewDeadLetter ==
  ASSUME ReplayInv, UNCHANGED <<deadLettered, accepted>>,
         status' \in [Tasks -> TaskStatus],
         \A t \in Tasks : status'[t] = "dead_lettered" => status[t] = "dead_lettered"
  PROVE  ReplayInv'
<1> SUFFICES ASSUME NEW t \in Tasks
             PROVE  accepted[t] + (IF status'[t] = "dead_lettered" THEN 1 ELSE 0)
                      <= deadLettered[t]
  BY Zenon DEF ReplayInv, ReplayedOncePerDeadLetter
<1>1. accepted[t] \in Nat /\ deadLettered[t] \in Nat
  BY Zenon DEF ReplayInv
<1>2. accepted[t] + (IF status[t] = "dead_lettered" THEN 1 ELSE 0) <= deadLettered[t]
  BY Zenon DEF ReplayInv, ReplayedOncePerDeadLetter
<1> QED BY <1>1, <1>2

(* An answer other than 202 to a replay leaves accepted alone. *)
LEMMA OtherAnswer ==
  ASSUME ReplayInv, NEW c, NEW code, NEW ch, Answer(c, code, ch),
         code # 202 \/ call[c].route # "tasks"
  PROVE  accepted' = accepted /\ deadLettered' = deadLettered
BY Zenon DEF Answer, ReplayInv

LEMMA ErrorStatusIs == \A r : ErrorStatus(r) \in {400, 500} /\ ErrorStatus("tasks") = 500
BY DEF ErrorStatus

(* What a transaction behind a request does to the statuses. *)
LEMMA WriteStep ==
  ASSUME ReplayInv, NEW c, NEW code \in Nat, Write(c, code)
  PROVE  ReplayInv'
<1>1. CASE Calls(c, "workflows") /\ InsertDefinition(call[c].arg) /\ Answer(c, code, TRUE)
  <2>1. call[c].route # "tasks"
    BY <1>1, Zenon DEF Calls
  <2>2. accepted' = accepted /\ deadLettered' = deadLettered
    BY <1>1, <2>1, OtherAnswer, Zenon
  <2> QED BY <1>1, <2>2, ReplayInvSame, Zenon DEF InsertDefinition, storeVars
<1>2. CASE /\ Calls(c, "executions") /\ Answer(c, code, TRUE)
           /\ \E e \in Executions : CreateExecutionAndTask(e)
  <2>1. call[c].route # "tasks"
    BY <1>2, Zenon DEF Calls
  <2>2. accepted' = accepted /\ deadLettered' = deadLettered
    BY <1>2, <2>1, OtherAnswer, Zenon
  <2>3. PICK e \in Executions : CreateExecutionAndTask(e)
    BY <1>2, Zenon
  <2>4. status' = [status EXCEPT ![<<e, EntryTask>>] = "pending"]
    BY <2>3, Zenon DEF CreateExecutionAndTask
  <2>5. status' \in [Tasks -> TaskStatus]
    BY <2>4, Zenon DEF ReplayInv, TaskStatus
  <2>6. \A t \in Tasks : status'[t] \in {status[t], "pending"}
    BY <2>4, Zenon DEF ReplayInv
  <2> QED BY <2>2, <2>5, <2>6, NoNewDeadLetter, Zenon
<1>3. CASE Calls(c, "tasks") /\ ReplayDeadLetteredTask(call[c].arg) /\ Answer(c, code, TRUE)
  <2> DEFINE a == call[c].arg
  <2>1. /\ status[a] = "dead_lettered"
        /\ status' = [status EXCEPT ![a] = "pending"]
    BY <1>3, Zenon DEF ReplayDeadLetteredTask
  <2>2. /\ deadLettered' = deadLettered
        /\ accepted' \in [Tasks -> Nat]
        /\ \A t \in Tasks : accepted'[t] = accepted[t] \/ (t = a /\ accepted'[t] = accepted[t] + 1)
    BY <1>3 DEF Answer, ReplayInv
  <2>3. status' \in [Tasks -> TaskStatus]
    BY <2>1, Zenon DEF ReplayInv, TaskStatus
  <2>4. ReplayedOncePerDeadLetter'
    <3> SUFFICES ASSUME NEW t \in Tasks
                 PROVE  accepted'[t] + (IF status'[t] = "dead_lettered" THEN 1 ELSE 0)
                          <= deadLettered'[t]
      BY Zenon DEF ReplayedOncePerDeadLetter
    <3>1. accepted[t] + (IF status[t] = "dead_lettered" THEN 1 ELSE 0) <= deadLettered[t]
      BY Zenon DEF ReplayInv, ReplayedOncePerDeadLetter
    <3>2. accepted[t] \in Nat /\ deadLettered[t] \in Nat
      BY Zenon DEF ReplayInv
    <3>3. CASE t = a
      <4>1. status'[t] = "pending"
        BY <2>1, <3>3, Zenon DEF ReplayInv
      <4> HIDE DEF a
      <4> QED BY <2>1, <2>2, <3>1, <3>2, <3>3, <4>1
    <3>4. CASE t # a
      <4>1. status'[t] = status[t]
        BY <2>1, <3>4, Zenon DEF ReplayInv
      <4> HIDE DEF a
      <4> QED BY <2>2, <3>1, <3>2, <3>4, <4>1, Zenon
    <3> QED BY <3>3, <3>4, Zenon
  <2> QED BY <2>2, <2>3, <2>4, Zenon DEF ReplayInv
<1> QED BY <1>1, <1>2, <1>3, Zenon DEF Write

(* A worker's step: only FailTaskAttempt makes a dead letter, and counts it. *)
LEMMA WorkersStep ==
  ASSUME ReplayInv, Workers
  PROVE  ReplayInv'
<1>0. accepted' = accepted
  BY Zenon DEF Workers
<1>1. PICK t \in Tasks :
        \/ StartTaskAttempt(t) /\ UNCHANGED deadLettered
        \/ \E n \in DOMAIN attempts[t] : WorkerEnds(t, n)
  BY Zenon DEF Workers
<1>2. CASE StartTaskAttempt(t) /\ UNCHANGED deadLettered
  <2>1. status' = [status EXCEPT ![t] = "running"]
    BY <1>2, Zenon DEF StartTaskAttempt
  <2>2. /\ status' \in [Tasks -> TaskStatus]
        /\ \A u \in Tasks : status'[u] \in {status[u], "running"}
    BY <2>1, Zenon DEF ReplayInv, TaskStatus
  <2> QED BY <1>0, <1>2, <2>2, NoNewDeadLetter, Zenon
<1>3. ASSUME NEW n, WorkerEnds(t, n) PROVE ReplayInv'
  <2>1. CASE CompleteTaskAttempt(t, n) /\ UNCHANGED deadLettered
    <3>1. status' = [status EXCEPT ![t] = "succeeded"]
      BY <2>1, Zenon DEF CompleteTaskAttempt
    <3>2. /\ status' \in [Tasks -> TaskStatus]
          /\ \A u \in Tasks : status'[u] \in {status[u], "succeeded"}
      BY <3>1, Zenon DEF ReplayInv, TaskStatus
    <3> QED BY <1>0, <2>1, <3>2, NoNewDeadLetter, Zenon
  <2>2. CASE CompleteTaskAttemptAndEnqueueNextTask(t, n) /\ UNCHANGED deadLettered
    <3>1. status' = [status EXCEPT ![t] = "succeeded", ![Successor(t)] = "pending"]
      BY <2>2, Zenon DEF CompleteTaskAttemptAndEnqueueNextTask
    <3>2. /\ status' \in [Tasks -> TaskStatus]
          /\ \A u \in Tasks : status'[u] \in {status[u], "succeeded", "pending"}
      BY <3>1, Zenon DEF ReplayInv, TaskStatus
    <3> QED BY <1>0, <2>2, <3>2, NoNewDeadLetter, Zenon
  <2>3. CASE /\ FailTaskAttempt(t, n)
             /\ deadLettered' = [deadLettered EXCEPT
                   ![t] = IF status[t] = "dead_lettered" THEN @ ELSE @ + 1]
    <3>1. status' = [status EXCEPT ![t] = "dead_lettered"]
      BY <2>3, Zenon DEF FailTaskAttempt
    <3>2. status' \in [Tasks -> TaskStatus] /\ deadLettered' \in [Tasks -> Nat]
      BY <2>3, <3>1 DEF ReplayInv, TaskStatus
    <3>3. ASSUME NEW u \in Tasks
          PROVE  accepted[u] + (IF status'[u] = "dead_lettered" THEN 1 ELSE 0) <= deadLettered'[u]
      <4>1. accepted[u] \in Nat /\ deadLettered[u] \in Nat
        BY Zenon DEF ReplayInv
      <4>2. accepted[u] + (IF status[u] = "dead_lettered" THEN 1 ELSE 0) <= deadLettered[u]
        BY Zenon DEF ReplayInv, ReplayedOncePerDeadLetter
      <4>3. CASE u = t
        <5>1. deadLettered'[u] = IF status[u] = "dead_lettered" THEN deadLettered[u]
                                 ELSE deadLettered[u] + 1
          BY <2>3, <4>3, Zenon DEF ReplayInv
        <5> QED BY <4>1, <4>2, <5>1
      <4>4. CASE u # t
        <5>1. status'[u] = status[u] /\ deadLettered'[u] = deadLettered[u]
          BY <2>3, <3>1, <4>4, Zenon DEF ReplayInv
        <5> QED BY <4>1, <4>2, <5>1, Zenon
      <4> QED BY <4>3, <4>4, Zenon
    <3> QED BY <1>0, <3>2, <3>3, Zenon DEF ReplayInv, ReplayedOncePerDeadLetter
  <2> QED BY <1>3, <2>1, <2>2, <2>3, Zenon DEF WorkerEnds
<1> QED BY <1>1, <1>2, <1>3, Zenon

LEMMA ReplayInvInit == ApiInit => ReplayInv
BY DEF ApiInit, StoreInit, ReplayInv, ReplayedOncePerDeadLetter, TaskStatus

LEMMA ReplayInvStep ==
  ASSUME ReplayInv, [ApiNext]_<<storeVars, apiVars>>
  PROVE  ReplayInv'
<1>1. CASE UNCHANGED <<storeVars, apiVars>>
  BY <1>1, ReplayInvSame, Zenon DEF storeVars, apiVars
<1>2. CASE Workers
  BY <1>2, WorkersStep, Zenon
<1>3. ASSUME NEW c \in Clients,
             Send(c) \/ Refuse(c) \/ Accept(c) \/ Report(c)
               \/ ConnectionBreaks(c) \/ Deliver(c) \/ LoseReply(c)
      PROVE  ReplayInv'
  <2>1. CASE Send(c) \/ Deliver(c) \/ LoseReply(c)
    BY <2>1, ReplayInvSame, Zenon DEF Send, Deliver, LoseReply, storeVars
  <2>2. CASE Refuse(c)
    <3>1. Refusal(call[c]) # 202
      BY DEF Refusal, UnsoundStatus
    <3>2. accepted' = accepted /\ deadLettered' = deadLettered
      BY <2>2, <3>1, OtherAnswer, Zenon DEF Refuse
    <3> QED BY <2>2, <3>2, ReplayInvSame, Zenon DEF Refuse, storeVars
  <2>3. CASE Accept(c)
    BY <2>3, WriteStep DEF Accept
  <2>4. CASE Report(c)
    <3>1. accepted' = accepted /\ deadLettered' = deadLettered
      BY <2>4 DEF Report, Answer, ReplayInv
    <3> QED BY <2>4, <3>1, ReplayInvSame, Zenon DEF Report, storeVars
  <2>5. CASE ConnectionBreaks(c)
    <3>1. CASE /\ Answer(c, ErrorStatus(call[c].route), FALSE)
               /\ UNCHANGED <<storeVars, definitions>>
      <4>1. accepted' = accepted /\ deadLettered' = deadLettered
        BY <3>1 DEF Answer, ErrorStatus, ReplayInv
      <4> QED BY <3>1, <4>1, ReplayInvSame, Zenon DEF storeVars
    <3>2. CASE Write(c, ErrorStatus(call[c].route))
      BY <3>2, WriteStep, ErrorStatusIs
    <3> QED BY <2>5, <3>1, <3>2, Zenon DEF ConnectionBreaks
  <2> QED BY <1>3, <2>1, <2>2, <2>3, <2>4, <2>5, Zenon
<1> QED BY <1>1, <1>2, <1>3, Zenon DEF ApiNext

(* What ReplyTellsTheEffect asks of one reply. *)
Truthful(route, code, change) ==
  /\ code \in {201, 202} => change
  /\ change => code \in {201, 202, ErrorStatus(route)}
  /\ route = "tasks" /\ code \in {400, 404} => ~change

ReplyInv == call \in [Clients -> Calling] /\ ReplyTellsTheEffect

LEMMA AnswerStep ==
  ASSUME ReplyInv, NEW c \in Clients, NEW code \in Nat, NEW change \in BOOLEAN,
         Answer(c, code, change), Truthful(call[c].route, code, change)
  PROVE  ReplyInv'
<1>1. call \in [Clients -> Calling] /\ call[c] \in Calling
  BY Zenon DEF ReplyInv
<1> DEFINE q == [call[c] EXCEPT !.phase = "answered", !.reply = code, !.changed = change]
<1>2. q \in Calling
  BY <1>1, Zenon DEF Calling
<1>3. q.route = call[c].route /\ q.reply = code /\ q.changed = change
  BY <1>1, Zenon DEF Calling
<1>4. call' = [call EXCEPT ![c] = q]
  BY <1>1, Zenon DEF Answer, Calling
<1> HIDE DEF q
<1>5. call' \in [Clients -> Calling] /\ call'[c] = q /\ \A d \in Clients \ {c} : call'[d] = call[d]
  BY <1>1, <1>2, <1>4, Zenon
<1>6. ReplyTellsTheEffect'
  BY <1>3, <1>5 DEF ReplyInv, ReplyTellsTheEffect, Truthful
<1> QED BY <1>5, <1>6, Zenon DEF ReplyInv

LEMMA AnswerFalse ==
  ASSUME ReplyInv, NEW c \in Clients, NEW code \in Nat,
         Answer(c, code, FALSE), Truthful(call[c].route, code, FALSE)
  PROVE  ReplyInv'
BY AnswerStep, Zenon

(* A step after which c has no answer to believe. *)
LEMMA NoAnswerStep ==
  ASSUME ReplyInv, NEW c \in Clients, call' \in [Clients -> Calling],
         call'[c].phase # "answered", \A d \in Clients \ {c} : call'[d] = call[d]
  PROVE  ReplyInv'
BY DEF ReplyInv, ReplyTellsTheEffect

LEMMA NoCallIsCalling == NoCall \in Calling /\ NoCall.phase = "idle"
<1>1. "none" \in Argument
  BY Zenon DEF Argument
<1> QED BY <1>1, Zenon DEF NoCall, Calling

LEMMA ReplyInvInit == ApiInit => ReplyInv
<1> SUFFICES ASSUME ApiInit PROVE ReplyInv
  BY Zenon
<1>1. call = [c \in Clients |-> NoCall]
  BY Zenon DEF ApiInit
<1> QED BY <1>1, NoCallIsCalling, Zenon DEF ReplyInv, ReplyTellsTheEffect

LEMMA ReplyInvStep ==
  ASSUME ReplyInv, [ApiNext]_<<storeVars, apiVars>>
  PROVE  ReplyInv'
<1>1. CASE UNCHANGED <<storeVars, apiVars>> \/ Workers
  BY <1>1 DEF apiVars, Workers, ReplyInv, ReplyTellsTheEffect
<1>2. ASSUME NEW c \in Clients,
             Send(c) \/ Refuse(c) \/ Accept(c) \/ Report(c)
               \/ ConnectionBreaks(c) \/ Deliver(c) \/ LoseReply(c)
      PROVE  ReplyInv'
  <2>0. call[c] \in Calling /\ call \in [Clients -> Calling]
    BY Zenon DEF ReplyInv
  <2>1. CASE Send(c)
    <3>1. CASE call' = [call EXCEPT ![c].phase = "sent", ![c].reply = 0, ![c].changed = FALSE]
      <4>1. /\ call'[c].phase = "sent" /\ call' \in [Clients -> Calling]
            /\ \A d \in Clients \ {c} : call'[d] = call[d]
        BY <2>0, <3>1, Zenon DEF Calling
      <4> QED BY <4>1, NoAnswerStep, Zenon
    <3>2. ASSUME NEW r \in Routes, NEW m \in {"OPTIONS", "GET", "POST"}, NEW s \in BOOLEAN,
                 NEW a \in Arguments(r),
                 call' = [call EXCEPT ![c] = [NoCall EXCEPT
                   !.route = r, !.method = m, !.sound = s, !.arg = a, !.phase = "sent"]]
          PROVE  ReplyInv'
      <4> DEFINE q == [NoCall EXCEPT
                   !.route = r, !.method = m, !.sound = s, !.arg = a, !.phase = "sent"]
      <4>1. a \in Argument
        BY Zenon DEF Argument
      <4>2. q.phase = "sent" /\ q \in Calling
        BY <4>1, NoCallIsCalling, Zenon DEF Calling
      <4>3. call' = [call EXCEPT ![c] = q]
        BY <3>2, Zenon
      <4> HIDE DEF q
      <4>4. call'[c] = q /\ call' \in [Clients -> Calling] /\ \A d \in Clients \ {c} : call'[d] = call[d]
        BY <2>0, <4>2, <4>3, Zenon
      <4> QED BY <4>2, <4>4, NoAnswerStep, Zenon
    <3> QED BY <2>1, <3>1, <3>2, Zenon DEF Send
  <2>2. CASE Refuse(c)
    <3>1. Refusal(call[c]) \in Nat \ {201, 202}
      BY DEF Refusal, UnsoundStatus
    <3>2. Truthful(call[c].route, Refusal(call[c]), FALSE)
      BY <3>1, Zenon DEF Truthful
    <3> QED BY <2>2, <3>1, <3>2, AnswerStep, Zenon DEF Refuse
  <2>3. ASSUME NEW code \in Nat, Truthful(call[c].route, code, TRUE), Write(c, code)
        PROVE  ReplyInv'
    <3>1. Answer(c, code, TRUE)
      BY <2>3, Zenon DEF Write
    <3> QED BY <2>3, <3>1, AnswerStep, Zenon
  <2>4. CASE Accept(c)
    <3> DEFINE code == IF call[c].route = "workflows" THEN 201 ELSE 202
    <3>1. code \in Nat /\ Truthful(call[c].route, code, TRUE)
      BY DEF Truthful
    <3>2. Write(c, code)
      BY <2>4, Zenon DEF Accept
    <3> HIDE DEF code
    <3> QED BY <2>3, <3>1, <3>2, Zenon
  <2>5. CASE Report(c)
    <3>0. /\ 200 \in Nat /\ Truthful(call[c].route, 200, FALSE)
          /\ 400 \in Nat /\ Truthful(call[c].route, 400, FALSE)
          /\ 404 \in Nat /\ Truthful(call[c].route, 404, FALSE)
      BY DEF Truthful
    <3>1. /\ Answer(c, 200, FALSE) => ReplyInv'
          /\ Answer(c, 400, FALSE) => ReplyInv'
          /\ Answer(c, 404, FALSE) => ReplyInv'
      BY <3>0, AnswerFalse, ZenonT(30)
    <3>2. CASE exec[call[c].arg] = "none"
      <4>1. Answer(c, 400, FALSE) \/ Answer(c, 404, FALSE) \/ Answer(c, 200, FALSE)
        BY <2>5, <3>2, Zenon DEF Report
      <4> QED BY <3>1, <4>1, Zenon
    <3>3. CASE exec[call[c].arg] # "none"
      <4>1. Answer(c, 400, FALSE) \/ Answer(c, 404, FALSE) \/ Answer(c, 200, FALSE)
        BY <2>5, <3>3, Zenon DEF Report
      <4> QED BY <3>1, <4>1, Zenon
    <3> QED BY <3>2, <3>3, Zenon
  <2>6. CASE ConnectionBreaks(c)
    <3> DEFINE code == ErrorStatus(call[c].route)
    <3>1. /\ code \in {400, 500}
          /\ call[c].route = "tasks" => code = 500
          /\ code = ErrorStatus(call[c].route)
      BY DEF ErrorStatus
    <3>2. Answer(c, code, FALSE) \/ Write(c, code)
      BY <2>6, Zenon DEF ConnectionBreaks
    <3> HIDE DEF code
    <3>3. Truthful(call[c].route, code, TRUE) /\ Truthful(call[c].route, code, FALSE)
      BY <3>1 DEF Truthful
    <3>4. code \in Nat
      BY <3>1
    <3> QED BY <2>3, <3>2, <3>3, <3>4, AnswerFalse, Zenon
  <2>7. CASE Deliver(c)
    <3>1. call'[c].phase = "idle" /\ call' \in [Clients -> Calling]
      BY <2>0, <2>7, NoCallIsCalling, Zenon DEF Deliver
    <3> QED BY <2>0, <2>7, <3>1, NoAnswerStep, Zenon DEF Deliver
  <2>8. CASE LoseReply(c)
    <3>1. call'[c].phase = "lost" /\ call' \in [Clients -> Calling]
      BY <2>0, <2>8, Zenon DEF LoseReply, Calling
    <3> QED BY <2>0, <2>8, <3>1, NoAnswerStep, Zenon DEF LoseReply
  <2> QED BY <1>2, <2>1, <2>2, <2>4, <2>5, <2>6, <2>7, <2>8, Zenon
<1> QED BY <1>1, <1>2, Zenon DEF ApiNext

-----------------------------------------------------------------------------
(* However many clients ask, each dead-lettering of a task is replayed by  *)
(* at most one accepted request: ReplayDeadLetteredTask resets the status  *)
(* it checks.                                                              *)
THEOREM ReplayedOncePerDeadLetterHolds == ApiSpec => []ReplayedOncePerDeadLetter
<1>1. ReplayInv => ReplayedOncePerDeadLetter
  BY Zenon DEF ReplayInv
<1> QED BY <1>1, ReplayInvInit, ReplayInvStep, PTL DEF ApiSpec

(* A client may believe its reply, whatever the router, the service and    *)
(* the connection to PostgreSQL did: an accepted request is committed, and *)
(* a replay answered 400 or 404 changed nothing.                           *)
THEOREM ReplyTellsTheEffectHolds == ApiSpec => []ReplyTellsTheEffect
<1>1. ReplyInv => ReplyTellsTheEffect
  BY Zenon DEF ReplyInv
<1> QED BY <1>1, ReplyInvInit, ReplyInvStep, PTL DEF ApiSpec

-----------------------------------------------------------------------------
(* Migrations and the consumer group. *)

StartupPhases == {"off", "connect", "lock", "check", "apply", "unlock", "lost", "redis", "group", "serving"}

Migrating == {"check", "apply"}

Migrated == {"unlock", "redis", "group", "serving"}

(* The database side of what every step preserves: the files run are an    *)
(* initial segment and the versions say so; a process at work on them has  *)
(* the lock, and what it found missing is the next one still.              *)
DatabaseInv ==
  /\ phase \in [Processes -> StartupPhases]
  /\ nextFile \in [Processes -> Nat]
  /\ schema \in Seq(Nat)
  /\ MigrationsOnceInOrder
  /\ versions = 1 .. Len(schema)
  /\ \A p \in Processes : phase[p] \in Migrating =>
       lock = p /\ nextFile[p] >= 1 /\ nextFile[p] <= Len(schema) + 1
  /\ \A p \in Processes : phase[p] = "apply" => nextFile[p] = Len(schema) + 1
  /\ \A p \in Processes : phase[p] \in Migrated => Release[p] <= Len(schema)

(* A step that runs no file and takes or leaves the lock only in ways that *)
(* keep the processes at work on files its holders, preserves the rest.    *)
Quiet ==
  /\ UNCHANGED <<schema, versions>>
  /\ phase' \in [Processes -> StartupPhases]
  /\ nextFile' \in [Processes -> Nat]
  /\ \A p \in Processes : phase'[p] # phase[p] => phase'[p] \notin Migrating
  /\ \A p \in Processes : phase'[p] \in Migrating => lock' = lock /\ nextFile'[p] = nextFile[p]
  /\ \A p \in Processes : phase'[p] \in Migrated => phase[p] \in Migrated

LEMMA QuietKeepsDatabaseInv == DatabaseInv /\ Quiet => DatabaseInv'
BY Zenon DEF DatabaseInv, Quiet, MigrationsOnceInOrder, Migrating, Migrated

LEMMA ProcessStepsQuiet ==
  ASSUME DatabaseInv, NEW p \in Processes,
         \/ Start(p) \/ OpenWithRetry(p) \/ Unlock(p) \/ MigrationFails(p)
         \/ WaitForReady(p) \/ EnsureGroup(p) \/ ConsumerExits(p)
         \/ Dispatch(p) \/ Read(p) \/ Stop(p)
  PROVE  Quiet
<1>1. 1 \in Nat
  OBVIOUS
<1> QED
  BY <1>1, StartupAssumption, ZenonT(30)
     DEF DatabaseInv, Quiet, Start, OpenWithRetry, Unlock, MigrationFails, WaitForReady,
         EnsureGroup, ConsumerExits, Dispatch, Read, Stop, Enter, databaseVars, StartupPhases,
         Migrating, Migrated

LEMMA EnvironmentQuiet ==
  ASSUME DatabaseInv,
         SessionEnds \/ PostgresGoesDown \/ RedisGoesDown \/ ServersComeUp
  PROVE  Quiet
BY StartupAssumption, Zenon
   DEF DatabaseInv, Quiet, SessionEnds, PostgresGoesDown, RedisGoesDown, ServersComeUp,
       databaseVars, StartupPhases, Migrating, Migrated

LEMMA DatabaseInvStep == DatabaseInv /\ [Next]_startupVars => DatabaseInv'
<1> SUFFICES ASSUME DatabaseInv, [Next]_startupVars PROVE DatabaseInv'
  BY Zenon
<1>1. ASSUME NEW p \in Processes, AcquireLock(p) PROVE DatabaseInv'
  BY <1>1, StartupAssumption
     DEF DatabaseInv, AcquireLock, Enter, MigrationsOnceInOrder, StartupPhases, Migrating, Migrated
<1>2. ASSUME NEW p \in Processes, CheckFile(p) PROVE DatabaseInv'
  <2> USE <1>2 DEF DatabaseInv, CheckFile, Enter, databaseVars, MigrationsOnceInOrder
  <2>1. Release[p] \in Nat /\ nextFile[p] \in Nat /\ Len(schema) \in Nat
    BY StartupAssumption
  <2>2. CASE nextFile[p] > Release[p]
    BY <2>1, <2>2 DEF StartupPhases, Migrating, Migrated
  <2>3. CASE ~(nextFile[p] > Release[p]) /\ nextFile[p] \in versions
    <3>1. nextFile[p] <= Len(schema) /\ phase[p] = "check"
      BY <2>1, <2>3
    <3>2. nextFile' = [nextFile EXCEPT ![p] = @ + 1] /\ UNCHANGED <<phase, lock, schema, versions>>
      BY <2>3, Zenon
    <3>3. \A q \in Processes : phase'[q] \in Migrating =>
            lock' = q /\ nextFile'[q] >= 1 /\ nextFile'[q] <= Len(schema') + 1
      BY <2>1, <3>1, <3>2
    <3>4. \A q \in Processes : phase'[q] = "apply" => nextFile'[q] = Len(schema') + 1
      BY <3>1, <3>2, Zenon
    <3> QED BY <2>1, <3>2, <3>3, <3>4
  <2>4. CASE ~(nextFile[p] > Release[p]) /\ nextFile[p] \notin versions
    BY <2>1, <2>4, SMTT(30) DEF StartupPhases, Migrating, Migrated
  <2> QED BY <2>2, <2>3, <2>4, Zenon
<1>3. ASSUME NEW p \in Processes, ApplyFile(p) PROVE DatabaseInv'
  <2> USE <1>3 DEF DatabaseInv, ApplyFile, Enter, StartupPhases
  <2>1. phase[p] = "apply" /\ lock = p /\ nextFile[p] = Len(schema) + 1 /\ Len(schema) \in Nat
    BY DEF Migrating
  <2>2. \A q \in Processes \ {p} : phase[q] \notin Migrating
    BY <2>1, Zenon
  <2>3. Len(schema') = Len(schema) + 1 /\ schema' \in Seq(Nat) /\ MigrationsOnceInOrder'
    BY <2>1 DEF MigrationsOnceInOrder
  <2>4. versions' = 1 .. Len(schema')
    BY <2>1, <2>3
  <2>5. \A q \in Processes : phase'[q] \in Migrating =>
          lock' = q /\ nextFile'[q] >= 1 /\ nextFile'[q] <= Len(schema') + 1
    BY <2>1, <2>2, <2>3
  <2>6. \A q \in Processes : phase'[q] # "apply"
    BY <2>1, <2>2, Zenon DEF Migrating
  <2>7. \A q \in Processes : phase'[q] \in Migrated => Release[q] <= Len(schema')
    <3> TAKE q \in Processes
    <3>1. Release[q] \in Nat
      BY StartupAssumption, Zenon
    <3> QED BY <2>1, <2>3, <3>1 DEF Migrated
  <2> QED BY <2>3, <2>4, <2>5, <2>6, <2>7
<1>4. CASE UNCHANGED startupVars
  BY <1>4, Zenon DEF startupVars, databaseVars, DatabaseInv, MigrationsOnceInOrder
<1> QED BY <1>1, <1>2, <1>3, <1>4, ProcessStepsQuiet, EnvironmentQuiet, QuietKeepsDatabaseInv, Zenon
        DEF Next, ProcessStep

LEMMA DatabaseInvInit == Init => DatabaseInv
BY StartupAssumption DEF Init, DatabaseInv, MigrationsOnceInOrder, StartupPhases, Migrating, Migrated

(* However many processes start together, of whatever releases, and        *)
(* wherever they fail, ApplyMigrations runs every file once and in order.  *)
THEOREM MigrationsOnceInOrderHolds == Spec => []MigrationsOnceInOrder
<1>1. DatabaseInv => MigrationsOnceInOrder
  BY Zenon DEF DatabaseInv
<1> QED BY <1>1, DatabaseInvInit, DatabaseInvStep, PTL DEF Spec

(* A process past its migrations has every file of its release applied and *)
(* recorded, also when another process ran them.                           *)
THEOREM ServesOnItsSchemaHolds == Spec => []ServesOnItsSchema
<1>1. DatabaseInv => ServesOnItsSchema
  BY StartupAssumption DEF DatabaseInv, ServesOnItsSchema, MigrationsOnceInOrder, Migrated
<1> QED BY <1>1, DatabaseInvInit, DatabaseInvStep, PTL DEF Spec

-----------------------------------------------------------------------------
(* The Redis side: a group that does not exist has delivered nothing, a    *)
(* worker that reads has made sure there is one, and a group only ever     *)
(* delivers the message after the last.                                    *)
GroupInv ==
  /\ phase \in [Processes -> StartupPhases]
  /\ added \in Nat
  /\ group \in Nat
  /\ ~created => group = 0
  /\ \A p \in Processes \ Apis : phase[p] = "serving" => created
  /\ GroupReadsEachOnce

LEMMA GroupInvStep == GroupInv /\ [Next]_startupVars => GroupInv'
<1> SUFFICES ASSUME GroupInv, [Next]_startupVars PROVE GroupInv'
  BY Zenon
<1> USE DEF GroupInv, GroupReadsEachOnce, StartupPhases, Enter
<1>1. ASSUME NEW p \in Processes, EnsureGroup(p) PROVE GroupInv'
  BY <1>1, Zenon DEF EnsureGroup
<1>2. ASSUME NEW p \in Processes, Dispatch(p) PROVE GroupInv'
  BY <1>2 DEF Dispatch
<1>3. ASSUME NEW p \in Processes, Read(p) PROVE GroupInv'
  <2>1. reads' = [k \in 1 .. group + 1 |-> k]
    BY <1>3, SMTT(30) DEF Read
  <2> QED BY <1>3, <2>1 DEF Read
<1>4. ASSUME NEW p \in Processes,
             \/ Start(p) \/ OpenWithRetry(p) \/ AcquireLock(p) \/ CheckFile(p) \/ ApplyFile(p)
             \/ Unlock(p) \/ MigrationFails(p) \/ WaitForReady(p) \/ ConsumerExits(p) \/ Stop(p)
      PROVE GroupInv'
  BY <1>4 DEF Start, OpenWithRetry, AcquireLock, CheckFile, ApplyFile, Unlock, MigrationFails,
              WaitForReady, ConsumerExits, Stop, redisVars
<1>5. CASE SessionEnds \/ RedisGoesDown \/ ServersComeUp
  <2>1. UNCHANGED <<phase, added, created, group, reads>>
    BY <1>5, Zenon DEF SessionEnds, RedisGoesDown, ServersComeUp, redisVars
  <2> QED BY <2>1, Zenon
<1>6. CASE PostgresGoesDown
  <2>1. phase' \in [Processes -> StartupPhases] /\ \A p \in Processes : phase'[p] = "serving" => phase[p] = "serving"
    BY <1>6, Zenon DEF PostgresGoesDown
  <2>2. UNCHANGED redisVars
    BY <1>6, Zenon DEF PostgresGoesDown
  <2> QED BY <2>1, <2>2, Zenon DEF redisVars
<1>7. CASE UNCHANGED startupVars
  BY <1>7, Zenon DEF startupVars, redisVars
<1> QED BY <1>1, <1>2, <1>3, <1>4, <1>5, <1>6, <1>7, Zenon DEF Next, ProcessStep

(* Every message of the stream reaches the workers once and in order, also *)
(* when API processes published before the first worker made the group.    *)
THEOREM GroupReadsEachOnceHolds == Spec => []GroupReadsEachOnce
<1>1. Init => GroupInv
  BY DEF Init, GroupInv, GroupReadsEachOnce, StartupPhases
<1>2. GroupInv => GroupReadsEachOnce
  BY Zenon DEF GroupInv
<1> QED BY <1>1, <1>2, GroupInvStep, PTL DEF Spec

-----------------------------------------------------------------------------
(* Side effects.  Without overlap the properties of the record need each   *)
(* other: a run at work holds an unfinished row, so storing its response   *)
(* replaces none; that needs the runs of a task to be apart, as Reserve    *)
(* notes.                                                                  *)

(* Under way, runs of one task do not overlap. *)
ActiveApart ==
  overlapped = {} => \A r, q \in Active : Owner[r] = Owner[q] => r = q

IInv ==
  /\ IdempotencyTypeOK
  /\ ReturnedIsStored
  /\ ActiveApart
  /\ KeyIsExclusive
  /\ SameResponse

(* A row that is not None has the three columns. *)
LEMMA RowShape ==
  ASSUME IdempotencyTypeOK, record # None
  PROVE  /\ record \in Record
         /\ record.owner \in Owners
         /\ record.status \in {"in_progress", "completed"}
         /\ record.response \in Runs \cup {None}
BY Zenon DEF IdempotencyTypeOK, Record

(* No row is None: None is not a row. *)
LEMMA RowIsNotNone ==
  ASSUME IdempotencyTypeOK, NEW r \in Runs, OwnedBy(r)
  PROVE  record \in Record
BY Zenon DEF IdempotencyTypeOK, OwnedBy

(* The store of a response (CompleteIdempotentTask) keeps the row well     *)
(* formed and its owner, and completes it when it belongs to the run.      *)
LEMMA WriteFacts ==
  ASSUME IdempotencyTypeOK, NEW r \in Runs, WriteResponse(r)
  PROVE  /\ record' \in Record \cup {None}
         /\ OwnedBy(r) => /\ record' \in Record
                          /\ record'.status = "completed"
                          /\ record'.response = r
                          /\ record'.owner = record.owner
         /\ ~OwnedBy(r) => record' = record
<1>1. CASE OwnedBy(r)
  <2>1. record \in Record
    BY <1>1, RowIsNotNone, Zenon
  <2>2. record' = [record EXCEPT !.status = "completed", !.response = r]
    BY <1>1, Zenon DEF WriteResponse
  <2> QED
    BY <1>1, <2>1, <2>2, Zenon DEF Record
<1>2. CASE ~OwnedBy(r)
  BY <1>2, Zenon DEF WriteResponse, IdempotencyTypeOK
<1> QED
  BY <1>1, <1>2, Zenon

(* Every step keeps the variables' types. *)
LEMMA TypeStep ==
  ASSUME IdempotencyTypeOK, [IdempotencyNext]_idemVars
  PROVE  IdempotencyTypeOK'
<1> USE RunAssumption DEF IdempotencyTypeOK, Goes, Phases
<1>1. CASE UNCHANGED idemVars
  BY <1>1, Zenon DEF idemVars
<1>2. ASSUME NEW r \in Runs, Reserve(r)
      PROVE  IdempotencyTypeOK'
  BY <1>2 DEF Reserve, Record, Owners
<1>3. ASSUME NEW r \in Runs, SelectExisting(r)
      PROVE  IdempotencyTypeOK'
  <2>1. Completed => record.response \in Runs \cup {None}
    BY RowShape, Zenon DEF Completed
  <2> QED
    BY <1>3, <2>1, Zenon DEF SelectExisting
<1>4. ASSUME NEW r \in Runs, DecodeFails(r)
      PROVE  IdempotencyTypeOK'
  BY <1>4, Zenon DEF DecodeFails
<1>5. ASSUME NEW r \in Runs, CompleteRun(r)
      PROVE  IdempotencyTypeOK'
  <2>1. record' \in Record \cup {None}
    BY <1>5, WriteFacts, Zenon DEF CompleteRun
  <2> QED
    BY <1>5, <2>1 DEF CompleteRun
<1>6. ASSUME NEW r \in Runs, ReleaseRun(r)
      PROVE  IdempotencyTypeOK'
  BY <1>6, Zenon DEF ReleaseRun, DeleteReservation
<1>7. ASSUME NEW r \in Runs, CompleteErrs(r)
      PROVE  IdempotencyTypeOK'
  <2>1. record' \in Record \cup {None}
    BY <1>7, WriteFacts, Zenon DEF CompleteErrs
  <2> QED
    BY <1>7, <2>1 DEF CompleteErrs
<1>8. ASSUME NEW r \in Runs, RunDies(r)
      PROVE  IdempotencyTypeOK'
  BY <1>8 DEF RunDies
<1> QED
  BY <1>1, <1>2, <1>3, <1>4, <1>5, <1>6, <1>7, <1>8, Zenon DEF IdempotencyNext

(* A step leaves a stored response where it is, and with its task: the     *)
(* insert does nothing to a row, the update keeps the owner and completes, *)
(* the delete asks for an unfinished row.                                  *)
LEMMA StoredStep ==
  ASSUME IdempotencyTypeOK, [IdempotencyNext]_idemVars, Completed
  PROVE  Completed' /\ record'.owner = record.owner
<1>1. record \in Record /\ record # None
  BY RowShape, Zenon DEF Completed
<1>2. CASE UNCHANGED record
  BY <1>2, Zenon DEF Completed
<1>3. ASSUME NEW r \in Runs, WriteResponse(r)
      PROVE  Completed' /\ record'.owner = record.owner
  <2>1. CASE OwnedBy(r)
    BY <1>3, <2>1, WriteFacts, NoneIsNoRow, Zenon DEF Completed
  <2>2. CASE ~OwnedBy(r)
    BY <1>2, <1>3, <2>2, WriteFacts, Zenon
  <2> QED
    BY <2>1, <2>2, Zenon
<1>4. UNCHANGED record \/ \E r \in Runs : WriteResponse(r)
  BY <1>1, Zenon DEF IdempotencyNext, idemVars, Reserve, SelectExisting, DecodeFails, CompleteRun,
              ReleaseRun, DeleteReservation, CompleteErrs, RunDies
<1> QED
  BY <1>2, <1>3, <1>4, Zenon

-----------------------------------------------------------------------------
(* One run moves at a time, and only along the phases of Handle.  The row  *)
(* is what it was, or reserved for the run that found none, or completed   *)
(* by the run at work, or deleted by the run that releases it.             *)
LEMMA RunMoves ==
  ASSUME IdempotencyTypeOK, NEW r \in Runs,
         \/ Reserve(r) \/ SelectExisting(r) \/ DecodeFails(r) \/ CompleteRun(r)
         \/ ReleaseRun(r) \/ CompleteErrs(r) \/ RunDies(r)
  PROVE  /\ \A q \in Runs \ {r} : runPhase'[q] = runPhase[q] /\ result'[q] = result[q]
         /\ runPhase[r] \in {"new", "conflict", "work", "release"}
         /\ runPhase'[r] \in Phases
BY Zenon DEF IdempotencyTypeOK, Phases, Goes, Active, Reserve, SelectExisting, DecodeFails,
       CompleteRun, ReleaseRun, CompleteErrs, RunDies

(* A returned response is stored, and stays so. *)
LEMMA ReturnedStep ==
  ASSUME IdempotencyTypeOK, ReturnedIsStored, [IdempotencyNext]_idemVars
  PROVE  ReturnedIsStored'
<1>1. CASE UNCHANGED idemVars
  BY <1>1, Zenon DEF idemVars, ReturnedIsStored, Completed
<1>2. ASSUME NEW r \in Runs, NEW q \in Runs, runPhase'[q] = "done",
             \/ Reserve(r) \/ SelectExisting(r) \/ DecodeFails(r) \/ CompleteRun(r)
             \/ ReleaseRun(r) \/ CompleteErrs(r) \/ RunDies(r)
      PROVE  Completed'
  <2>1. CASE runPhase[q] = "done"
    BY <2>1, StoredStep, Zenon DEF ReturnedIsStored
  <2>2. CASE runPhase[q] # "done"
    <3>1. q = r
      BY <1>2, <2>2, RunMoves, Zenon
    <3>2. SelectExisting(r) \/ CompleteRun(r)
      BY <1>2, <3>1, Zenon DEF IdempotencyTypeOK, Goes, Reserve, DecodeFails, ReleaseRun,
                        CompleteErrs, RunDies
    <3>3. CASE SelectExisting(r)
      BY <1>2, <3>1, <3>3, Zenon DEF SelectExisting, Goes, IdempotencyTypeOK, Completed
    <3>4. CASE CompleteRun(r)
      <4>1. OwnedBy(r) /\ WriteResponse(r)
        BY <1>2, <3>1, <3>4, Zenon DEF CompleteRun, Goes, IdempotencyTypeOK
      <4> QED
        BY <4>1, WriteFacts, NoneIsNoRow, Zenon DEF Completed
    <3> QED
      BY <3>2, <3>3, <3>4, Zenon
  <2> QED
    BY <2>1, <2>2, Zenon
<1> QED
  BY <1>1, <1>2, Zenon DEF IdempotencyNext, ReturnedIsStored

(* What a handler run returned is stored, in every reachable state: by     *)
(* CompleteIdempotentTask before the run returns, and never deleted by the *)
(* ReleaseIdempotentTask of another.                                       *)
THEOREM ReturnedIsStoredHolds == IdempotencySpec => []ReturnedIsStored
<1>1. IdempotencyInit => IdempotencyTypeOK /\ ReturnedIsStored
  BY RunAssumption DEF IdempotencyInit, IdempotencyTypeOK, ReturnedIsStored, Phases
<1>2. IdempotencyTypeOK /\ ReturnedIsStored /\ [IdempotencyNext]_idemVars
        => (IdempotencyTypeOK /\ ReturnedIsStored)'
  BY TypeStep, ReturnedStep, Zenon
<1> QED
  BY <1>1, <1>2, PTL DEF IdempotencySpec

(* A stored response is never deleted, reopened or moved to another task   *)
(* by any step of any run.                                                 *)
THEOREM StoredIsKeptHolds == IdempotencySpec => StoredIsKept
<1>1. IdempotencyInit => IdempotencyTypeOK
  BY RunAssumption DEF IdempotencyInit, IdempotencyTypeOK, Phases
<1>2. IdempotencyTypeOK /\ [IdempotencyNext]_idemVars => IdempotencyTypeOK'
  BY TypeStep, Zenon
<1>3. IdempotencyTypeOK /\ [IdempotencyNext]_idemVars
        => [Completed => /\ record' # None
                         /\ record'.status = "completed"
                         /\ record'.owner = record.owner]_idemVars
  BY StoredStep, Zenon DEF Completed
<1> QED
  BY <1>1, <1>2, <1>3, PTL DEF IdempotencySpec, StoredIsKept

-----------------------------------------------------------------------------
(* The step of one run preserves IInv while no runs have overlapped.       *)
LEMMA ApartStep ==
  ASSUME IInv, overlapped = {}, NEW r \in Runs,
         \/ Reserve(r) \/ SelectExisting(r) \/ DecodeFails(r) \/ CompleteRun(r)
         \/ ReleaseRun(r) \/ CompleteErrs(r) \/ RunDies(r)
  PROVE  ActiveApart' /\ KeyIsExclusive' /\ SameResponse'
<1> USE DEF IInv
<1>0. /\ \A q \in Runs \ {r} : runPhase'[q] = runPhase[q] /\ result'[q] = result[q]
      /\ runPhase[r] \in {"new", "conflict", "work", "release"}
  BY RunMoves, Zenon
<1>a. [IdempotencyNext]_idemVars
  BY Zenon DEF IdempotencyNext
<1>b. ReturnedIsStored' /\ IdempotencyTypeOK'
  BY <1>a, ReturnedStep, TypeStep, Zenon
<1>1. ActiveApart'
  <2>1. CASE Reserve(r)
    BY <1>0, <2>1 DEF ActiveApart, Active, Reserve
  <2>2. CASE ~Reserve(r)
    <3>1. r \in Active
      BY <2>2, Zenon DEF Active, SelectExisting, DecodeFails, CompleteRun, ReleaseRun,
                  CompleteErrs, RunDies
    <3>2. Active' \subseteq Active
      BY <1>0, <3>1, Zenon DEF Active
    <3> QED
      BY <3>2, Zenon DEF ActiveApart
  <2> QED
    BY <2>1, <2>2, Zenon
(* Another run at work would hold the row too, and so be of the same task. *)
<1>2. ASSUME NEW q \in Runs \ {r}, runPhase[q] = "work", OwnedBy(r), r \in Active
      PROVE  FALSE
  <2>1. OwnedBy(q) /\ q \in Active
    BY <1>2, Zenon DEF KeyIsExclusive, Active
  <2> QED
    BY <1>2, <2>1, Zenon DEF OwnedBy, ActiveApart
<1>3. KeyIsExclusive'
  <2>1. CASE Reserve(r)
    <3>1. CASE record = None
      <4>1. \A q \in Runs : runPhase[q] # "work"
        BY <3>1, Zenon DEF KeyIsExclusive, OwnedBy
      <4>2. record' \in Record /\ record'.owner = Owner[r] /\ record'.status = "in_progress"
        BY <2>1, <3>1, RunAssumption DEF Reserve, Record, Owners
      <4> QED
        BY <1>0, <4>1, <4>2, NoneIsNoRow, Zenon DEF KeyIsExclusive, OwnedBy, Completed
    <3>2. CASE record # None
      <4>1. runPhase'[r] # "work" /\ UNCHANGED record
        BY <2>1, <3>2, Zenon DEF Reserve, Goes, IdempotencyTypeOK
      <4> QED
        BY <1>0, <4>1, Zenon DEF KeyIsExclusive, OwnedBy, Completed
    <3> QED
      BY <3>1, <3>2, Zenon
  <2>2. CASE SelectExisting(r)
    <3>1. UNCHANGED record /\ r \in Active
      BY <2>2, Zenon DEF SelectExisting, Active
    <3>2. runPhase'[r] = "work" => OwnedBy(r) /\ ~Completed
      BY <2>2, Zenon DEF SelectExisting, Goes, IdempotencyTypeOK
    <3> QED
      BY <1>0, <1>2, <3>1, <3>2 DEF KeyIsExclusive, OwnedBy, Completed
  <2>3. CASE DecodeFails(r) \/ RunDies(r)
    <3>1. runPhase'[r] # "work" /\ UNCHANGED record
      BY <2>3, Zenon DEF DecodeFails, RunDies, Goes, IdempotencyTypeOK
    <3> QED
      BY <1>0, <3>1, Zenon DEF KeyIsExclusive, OwnedBy, Completed
  <2>4. CASE CompleteRun(r) \/ CompleteErrs(r)
    <3>1. runPhase[r] = "work" /\ runPhase'[r] # "work"
      BY <2>4, Zenon DEF CompleteRun, CompleteErrs, Goes, IdempotencyTypeOK
    <3> QED
      BY <1>0, <3>1, Zenon DEF KeyIsExclusive
  <2>5. CASE ReleaseRun(r)
    <3>1. runPhase'[r] # "work" /\ r \in Active
      BY <2>5, Zenon DEF ReleaseRun, Goes, IdempotencyTypeOK, Active
    <3>2. CASE OwnedBy(r)
      BY <1>0, <1>2, <3>1, <3>2, Zenon DEF KeyIsExclusive
    <3>3. CASE ~OwnedBy(r)
      BY <1>0, <2>5, <3>1, <3>3, Zenon
         DEF KeyIsExclusive, ReleaseRun, DeleteReservation, OwnedBy, Completed
    <3> QED
      BY <3>2, <3>3, Zenon
  <2> QED
    BY <2>1, <2>2, <2>3, <2>4, <2>5, Zenon
(* Only a run at work writes, and while one is, nothing has been returned. *)
<1>4. SameResponse'
  <2>1. CASE CompleteRun(r) \/ CompleteErrs(r)
    <3>1. \A q \in Runs : runPhase[q] # "done"
      BY <2>1, Zenon DEF CompleteRun, CompleteErrs, KeyIsExclusive, ReturnedIsStored
    <3>2. CASE CompleteErrs(r)
      BY <1>0, <3>1, <3>2, Zenon DEF CompleteErrs, Goes, IdempotencyTypeOK, SameResponse
    <3>3. CASE CompleteRun(r)
      BY <1>0, <3>1, <3>3, WriteFacts, Zenon DEF CompleteRun, Goes, IdempotencyTypeOK, SameResponse
    <3> QED
      BY <2>1, <3>2, <3>3, Zenon
  <2>2. CASE SelectExisting(r)
    BY <1>0, <2>2, Zenon DEF SelectExisting, Goes, IdempotencyTypeOK, SameResponse
  <2>3. CASE Reserve(r) \/ DecodeFails(r) \/ ReleaseRun(r) \/ RunDies(r)
    <3>1. runPhase'[r] # "done"
      BY <2>3, Zenon DEF Reserve, DecodeFails, ReleaseRun, RunDies, Goes, IdempotencyTypeOK
    <3>2. Completed => UNCHANGED record
      BY <2>3, Zenon DEF Reserve, DecodeFails, ReleaseRun, RunDies, DeleteReservation, Completed
    <3> QED
      BY <1>0, <3>1, <3>2, Zenon DEF SameResponse, ReturnedIsStored
  <2> QED
    BY <2>1, <2>2, <2>3, Zenon
<1> QED
  BY <1>1, <1>3, <1>4, Zenon

(* Once runs have overlapped they have. *)
LEMMA OverlapStays ==
  ASSUME [IdempotencyNext]_idemVars, overlapped # {}
  PROVE  overlapped' # {}
BY Zenon DEF IdempotencyNext, idemVars, Reserve, SelectExisting, DecodeFails, CompleteRun,
       ReleaseRun, CompleteErrs, RunDies

(* IInv is inductive. *)
THEOREM InvariantHolds == IdempotencySpec => []IInv
<1>1. IdempotencyInit => IInv
  BY RunAssumption DEF IdempotencyInit, IInv, IdempotencyTypeOK, ReturnedIsStored, Phases,
     ActiveApart, Active, KeyIsExclusive, SameResponse
<1>2. IInv /\ [IdempotencyNext]_idemVars => IInv'
  <2> SUFFICES ASSUME IInv, [IdempotencyNext]_idemVars
               PROVE  IInv'
    BY Zenon
  <2>1. IdempotencyTypeOK' /\ ReturnedIsStored'
    BY TypeStep, ReturnedStep, Zenon DEF IInv
  <2>2. CASE UNCHANGED idemVars
    BY <2>1, <2>2, Zenon DEF IInv, idemVars, ActiveApart, Active, KeyIsExclusive, SameResponse,
                      OwnedBy, Completed
  <2>3. CASE overlapped # {}
    BY <2>1, <2>3, OverlapStays, Zenon DEF IInv, ActiveApart, KeyIsExclusive, SameResponse
  <2>4. CASE overlapped = {} /\ IdempotencyNext
    BY <2>1, <2>4, ApartStep, Zenon DEF IInv, IdempotencyNext
  <2> QED
    BY <2>2, <2>3, <2>4, Zenon
<1> QED
  BY <1>1, <1>2, PTL DEF IdempotencySpec

(* Attempts of a task that do not overlap get the one stored response from *)
(* the handler, however often the task is delivered.                       *)
THEOREM SameResponseHolds == IdempotencySpec => []SameResponse
<1>1. IInv => SameResponse
  BY Zenon DEF IInv
<1> QED
  BY <1>1, InvariantHolds, PTL

(* Runs of two tasks are never both at work on a key, given that attempts  *)
(* of one task do not overlap.                                             *)
THEOREM KeyIsExclusiveHolds == IdempotencySpec => []KeyIsExclusive
<1>1. IInv => KeyIsExclusive
  BY Zenon DEF IInv
<1> QED
  BY <1>1, InvariantHolds, PTL
=============================================================================
