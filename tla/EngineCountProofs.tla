------------------------- MODULE EngineCountProofs --------------------------
(***************************************************************************)
(* How many carriers, and so attempts, a task can have.  With one          *)
(* publisher it has one carrier at most, and one more for each failure:    *)
(* CarriersBounded is inductive, keeps a run without failures to one       *)
(* attempt at a time, and bounds the attempts of a task.                   *)
(***************************************************************************)
EXTENDS EngineCoverProofs, FiniteSetTheorems

-----------------------------------------------------------------------------
(* How many carriers a task can have.  Each effect above is a small change  *)
(* of a finite set, so the count follows from four facts about finite sets. *)
LEMMA CountShrinks ==
  ASSUME NEW S, NEW T, IsFiniteSet(S), T \subseteq S
  PROVE  IsFiniteSet(T) /\ Cardinality(T) \in Nat /\ Cardinality(S) \in Nat /\ Cardinality(T) <= Cardinality(S)
  BY FS_Subset, FS_CardinalityType, Zenon

LEMMA CountLoses ==
  ASSUME NEW S, NEW T, IsFiniteSet(S), NEW x \in S, T \subseteq S \ {x}
  PROVE  /\ IsFiniteSet(T) /\ Cardinality(T) \in Nat /\ Cardinality(S) \in Nat
         /\ Cardinality(T) + 1 <= Cardinality(S)
  <1>1. IsFiniteSet(S \ {x}) /\ Cardinality(S \ {x}) = Cardinality(S) - 1
    BY FS_RemoveElement, Zenon
  <1>2. /\ IsFiniteSet(T) /\ Cardinality(T) \in Nat /\ Cardinality(T) <= Cardinality(S \ {x})
    BY <1>1, CountShrinks, Zenon
  <1>3. Cardinality(S) \in Nat
    BY FS_CardinalityType, Zenon
  <1> QED
    BY <1>1, <1>2, <1>3

LEMMA CountGains ==
  ASSUME NEW S, NEW T, IsFiniteSet(S), NEW y, T \subseteq S \cup {y}
  PROVE  /\ IsFiniteSet(T) /\ Cardinality(T) \in Nat /\ Cardinality(S) \in Nat
         /\ Cardinality(T) <= Cardinality(S) + 1
  <1>1. /\ IsFiniteSet(S \cup {y}) /\ Cardinality(S) \in Nat
        /\ Cardinality(S \cup {y}) = Cardinality(S) \/ Cardinality(S \cup {y}) = Cardinality(S) + 1
    BY FS_AddElement, FS_CardinalityType, Zenon
  <1>2. /\ IsFiniteSet(T) /\ Cardinality(T) \in Nat /\ Cardinality(T) <= Cardinality(S \cup {y})
    BY <1>1, CountShrinks, Zenon
  <1> QED
    BY <1>1, <1>2

LEMMA CountSwaps ==
  ASSUME NEW S, NEW T, IsFiniteSet(S), NEW x \in S, NEW y, T \subseteq (S \ {x}) \cup {y}
  PROVE  /\ IsFiniteSet(T) /\ Cardinality(T) \in Nat /\ Cardinality(S) \in Nat
         /\ Cardinality(T) <= Cardinality(S)
  <1>1. /\ IsFiniteSet(S \ {x}) /\ Cardinality(S \ {x}) \in Nat /\ Cardinality(S) \in Nat
        /\ Cardinality(S \ {x}) + 1 <= Cardinality(S)
    BY CountLoses, Zenon
  <1>2. IsFiniteSet(T) /\ Cardinality(T) \in Nat /\ Cardinality(T) <= Cardinality(S \ {x}) + 1
    BY <1>1, CountGains, Zenon
  <1> QED
    BY <1>1, <1>2

(* A task has at most one carrier while it is unfinished and none           *)
(* afterwards, but for one more for every attempt a process abandoned.      *)
CarriersBounded ==
  \A t \in Tasks : /\ IsFiniteSet(Carriers(t))
                   /\ Cardinality(Carriers(t)) <= Faults + (IF Open(t) THEN 1 ELSE 0)

LEMMA CarriersBoundedStep ==
  ASSUME NEW t \in Tasks, CarrierStep(t), CountersGrow, Faults \in Nat, Faults' \in Nat,
         IsFiniteSet(Carriers(t)), Cardinality(Carriers(t)) <= Faults + (IF Open(t) THEN 1 ELSE 0)
  PROVE  /\ IsFiniteSet(Carriers(t)')
         /\ Cardinality(Carriers(t)') <= Faults' + (IF Open(t)' THEN 1 ELSE 0)
  <1>0. /\ Faults' >= Faults /\ Cardinality(Carriers(t)) \in Nat
    BY FS_CardinalityType, Zenon DEF CountersGrow
  <1>b. Same(t) => (Open(t)' <=> Open(t))
    BY Zenon DEF Same
  <1>c. Waiting(t) \subseteq Carriers(t)
    BY Zenon DEF Waiting
  <1>1. CASE Quiet(t) \/ Conflicted(t)
    <2>1. Same(t) /\ Carriers(t)' \subseteq Carriers(t)
      BY <1>1, Zenon DEF Quiet, Conflicted
    <2>2. IsFiniteSet(Carriers(t)') /\ Cardinality(Carriers(t)') \in Nat /\ Cardinality(Carriers(t)') <= Cardinality(Carriers(t))
      BY <2>1, CountShrinks, Zenon
    <2> QED
      BY <1>0, <1>b, <2>1, <2>2, SMTT(30)
  <1>2. CASE Passed(t)
    <2>1. Same(t) /\ \E x \in Carriers(t) : \E y : Carriers(t)' \subseteq (Carriers(t) \ {x}) \cup {y}
      BY <1>c, <1>2, Zenon DEF Passed
    <2>2. IsFiniteSet(Carriers(t)') /\ Cardinality(Carriers(t)') \in Nat /\ Cardinality(Carriers(t)') <= Cardinality(Carriers(t))
      BY <2>1, CountSwaps, Zenon
    <2> QED
      BY <1>0, <1>b, <2>1, <2>2, SMTT(30)
  <1>3. CASE Came(t)
    <2>1. ~Open(t) /\ Open(t)' /\ \E y : Carriers(t)' \subseteq Carriers(t) \cup {y}
      BY <1>3, Zenon DEF Came
    <2>2. IsFiniteSet(Carriers(t)') /\ Cardinality(Carriers(t)') \in Nat /\ Cardinality(Carriers(t)') <= Cardinality(Carriers(t)) + 1
      BY <2>1, CountGains, Zenon
    <2> QED
      BY <1>0, <1>b, <2>1, <2>2, SMTT(30)
  <1>4. CASE Began(t)
    <2>1. Open(t) /\ Open(t)' /\ Carriers(t)' \subseteq Carriers(t)
      BY <1>4, Zenon DEF Began
    <2>2. IsFiniteSet(Carriers(t)') /\ Cardinality(Carriers(t)') \in Nat /\ Cardinality(Carriers(t)') <= Cardinality(Carriers(t))
      BY <2>1, CountShrinks, Zenon
    <2> QED
      BY <1>0, <1>b, <2>1, <2>2, SMTT(30)
  <1>5. CASE Ended(t)
    <2>1. \E x \in Carriers(t) : Carriers(t)' \subseteq Carriers(t) \ {x}
      BY <1>5, Zenon DEF Ended
    <2>2. IsFiniteSet(Carriers(t)') /\ Cardinality(Carriers(t)') \in Nat /\ Cardinality(Carriers(t)') + 1 <= Cardinality(Carriers(t))
      BY <2>1, CountLoses, Zenon
    <2> QED
      BY <1>0, <2>2
  <1>6. CASE Again(t)
    <2>1. Open(t)' /\ \E x \in Carriers(t) : \E y : Carriers(t)' \subseteq (Carriers(t) \ {x}) \cup {y}
      BY <1>6, Zenon DEF Again
    <2>2. IsFiniteSet(Carriers(t)') /\ Cardinality(Carriers(t)') \in Nat /\ Cardinality(Carriers(t)') <= Cardinality(Carriers(t))
      BY <2>1, CountSwaps, Zenon
    <2> QED
      BY <1>0, <1>b, <2>1, <2>2, SMTT(30)
  <1>7. CASE Slipped(t)
    <2>1. Same(t) /\ Faults' = Faults + 1 /\ \E y : Carriers(t)' \subseteq Carriers(t) \cup {y}
      BY <1>7, Zenon DEF Slipped
    <2>2. IsFiniteSet(Carriers(t)') /\ Cardinality(Carriers(t)') \in Nat /\ Cardinality(Carriers(t)') <= Cardinality(Carriers(t)) + 1
      BY <2>1, CountGains, Zenon
    <2> QED
      BY <1>0, <1>b, <2>1, <2>2, SMTT(30)
  <1> QED
    BY <1>1, <1>2, <1>3, <1>4, <1>5, <1>6, <1>7, Zenon DEF CarrierStep

LEMMA CarriersBoundedHolds ==
  ASSUME \A p, q \in Publishers : p = q, ~SlowWorkers \/ \A v, w \in Workers : v = w
  PROVE  Spec => []CarriersBounded
  <1>1. Init => CarriersBounded
    <2> SUFFICES ASSUME Init, NEW t \in Tasks
                 PROVE  IsFiniteSet(Carriers(t)) /\ Cardinality(Carriers(t)) <= Faults + (IF Open(t) THEN 1 ELSE 0)
      BY Zenon DEF CarriersBounded
    <2>1. EventsLeft(t) = {} /\ ~RetryCover(t) /\ ~Open(t)
      BY DEF Init, StoreInit, EventsLeft, PendingEvents, RetryCover, Open
    <2>2. MessagesLeft(t) = {}
      <3>1. stream = <<>> /\ delivered = 0 /\ pel = {}
        BY Zenon DEF Init, RedisInit
      <3>2. Len(stream) = 0
        BY <3>1, Zenon
      <3>3. Unread = {}
        BY <3>1, <3>2, SMTT(30) DEF Unread
      <3> QED
        BY <3>1, <3>3, Zenon DEF MessagesLeft, Unacked
    <2>3. Carriers(t) = {} /\ Faults = 0
      BY <2>1, <2>2, SMTT(30) DEF Init, WorkerInit, PublisherInit, Carriers, Faults
    <2> QED
      BY <2>1, <2>3, FS_EmptySet, SMTT(30)
  <1>2. TypeOK /\ TypeOK' /\ KnownTasks /\ FreshTasks /\ Holding /\ Listing /\ CarriersBounded /\ [Next]_vars => CarriersBounded'
    <2> SUFFICES ASSUME TypeOK, TypeOK', KnownTasks, FreshTasks, Holding, Listing, CarriersBounded, [Next]_vars,
                        NEW t \in Tasks
                 PROVE  /\ IsFiniteSet(Carriers(t)')
                        /\ Cardinality(Carriers(t)') <= Faults' + (IF Open(t)' THEN 1 ELSE 0)
      BY Zenon DEF CarriersBounded
    <2>0. /\ workerFaults \in Nat /\ publisherFaults \in Nat
          /\ workerFaults' \in Nat /\ publisherFaults' \in Nat
      BY Zenon DEF TypeOK, WorkerTypeOK, PublisherTypeOK
    <2>1. Faults \in Nat /\ Faults' \in Nat
      <3>1. Faults = workerFaults + publisherFaults /\ Faults' = workerFaults' + publisherFaults'
        BY Zenon DEF Faults
      <3>2. \A m, n \in Nat : m + n \in Nat
        OBVIOUS
      <3> QED
        BY <2>0, <3>1, <3>2, Zenon
    <2>2. CarrierStep(t) /\ CountersGrow
      BY CarrierSteps, Zenon
    <2> QED
      BY <2>1, <2>2, CarriersBoundedStep, Zenon DEF CarriersBounded
  <1> QED
    BY <1>1, <1>2, TypeCorrect, KnownTasksHold, FreshHolds, HoldingHolds, ListingHolds, PTL DEF Spec

-----------------------------------------------------------------------------
(* While nothing has failed a task has one carrier, and one worker on it.   *)
LEMMA SoleWithoutFaults ==
  ASSUME TypeOK, Holding, CarriersBounded, Faults = 0
  PROVE  SoleWorker
  <1> SUFFICES ASSUME NEW v \in Workers, NEW w \in Workers, phase[v] = "running", phase[w] = "running",
                      TaskOf(v) = TaskOf(w), v # w
               PROVE  FALSE
    BY Zenon DEF SoleWorker
  <1>1. PICK t : t = TaskOf(v)
    BY Zenon
  <1>2. /\ msg[v] \in Held(v) /\ msg[w] \in Held(w) /\ Held(v) \cap Held(w) = {}
        /\ Held(v) \subseteq pel /\ Held(w) \subseteq pel
    BY Zenon DEF Holding, Held
  <1>3. msg[v] # msg[w] /\ msg[v] \in Unacked /\ msg[w] \in Unacked
    BY <1>2, Zenon DEF Unacked
  <1>4. \A u \in Workers : phase[u] = "ack" => msg[u] # msg[v] /\ msg[u] # msg[w]
    <2> SUFFICES ASSUME NEW u \in Workers, phase[u] = "ack" PROVE msg[u] # msg[v] /\ msg[u] # msg[w]
      BY Zenon
    <2>1. msg[u] \in Held(u) /\ u # v /\ u # w
      BY Zenon DEF Held
    <2>2. Held(u) \cap Held(v) = {} /\ Held(u) \cap Held(w) = {}
      BY <2>1, Zenon DEF Holding
    <2> QED
      BY <1>2, <2>1, <2>2, Zenon
  <1>a. t \in Tasks /\ stream[msg[v]] = t /\ stream[msg[w]] = t /\ msg[v] \in Nat /\ msg[w] \in Nat
    <2>1. t \in Tasks /\ stream[msg[v]] = t /\ stream[msg[w]] = t
      BY <1>1, TaskOfIsTask, Zenon DEF TaskOf
    <2>2. msg[v] \in 1 .. delivered /\ msg[w] \in 1 .. delivered
      BY TaskOfIsTask, Zenon
    <2> QED
      BY <2>1, <2>2, SMTT(30)
  <1>5. t \in Tasks /\ msg[v] \in MessagesLeft(t) /\ msg[w] \in MessagesLeft(t) /\ msg[v] \in Nat /\ msg[w] \in Nat
    BY <1>3, <1>4, <1>a, Zenon DEF MessagesLeft
  <1>6. <<"message", msg[v]>> \in Carriers(t) /\ <<"message", msg[w]>> \in Carriers(t)
    BY <1>5, Zenon DEF Carriers
  <1>7. IsFiniteSet(Carriers(t)) /\ Cardinality(Carriers(t)) <= 1
    <2>1. /\ IsFiniteSet(Carriers(t))
          /\ Cardinality(Carriers(t)) <= Faults + (IF Open(t) THEN 1 ELSE 0)
      BY <1>5, Zenon DEF CarriersBounded
    <2>2. Cardinality(Carriers(t)) \in Nat
      BY <2>1, FS_CardinalityType, Zenon
    <2> QED
      BY <2>1, <2>2, SMTT(30)
  <1>8. {<<"message", msg[w]>>} \subseteq Carriers(t) \ {<<"message", msg[v]>>}
    BY <1>3, <1>6, SMTT(30)
  <1>9. Cardinality({<<"message", msg[w]>>}) + 1 <= Cardinality(Carriers(t))
    BY <1>6, <1>7, <1>8, CountLoses, Zenon
  <1>10. Cardinality({<<"message", msg[w]>>}) = 1 /\ Cardinality(Carriers(t)) \in Nat
    BY <1>7, FS_Singleton, FS_CardinalityType, Zenon
  <1> QED
    BY <1>7, <1>9, <1>10, SMTT(30)

(* A task shown as running, and an attempt row that is, has its worker. *)
Attended ==
  \A t \in Tasks :
    /\ status[t] = "running" => \E w \in Workers : phase[w] = "running" /\ TaskOf(w) = t
    /\ \A k \in DOMAIN attempts[t] : attempts[t][k] = "running" =>
         \E w \in Workers : phase[w] = "running" /\ TaskOf(w) = t /\ attempt[w] = k

LEMMA AttendedFrame ==
  ASSUME TypeOK, Attended, attempts' = attempts, MessagesStay,
         \A t \in Tasks : status'[t] = "running" => status[t] = "running",
         \A v \in Workers : phase[v] = "running" =>
           phase'[v] = "running" /\ msg'[v] = msg[v] /\ attempt'[v] = attempt[v]
  PROVE  Attended'
  <1>1. \A v \in Workers : phase[v] = "running" => TaskOf(v)' = TaskOf(v)
    BY TaskOfIsTask, Zenon DEF MessagesStay, TaskOf
  <1> QED
    BY <1>1 DEF Attended

(* Attempts end with their outcome as long as no process fails and no row   *)
(* is in the way.                                                           *)
LEMMA AttendedSteps ==
  ASSUME TypeOK, AttemptOwnership, Attended, [Next]_vars,
         \A w \in Workers : ~WorkerFault(w) /\ ~EnqueueNextConflicts(w)
  PROVE  Attended'
  <1>0. /\ StoreTypeOK /\ phase \in [Workers -> {"poll", "read", "batch", "running", "ack"}]
        /\ msg \in [Workers -> 0 .. delivered] /\ attempt \in [Workers -> Nat]
    BY Zenon DEF TypeOK, WorkerTypeOK
  <1>1. CASE Api \/ Timer \/ PublisherNext \/ UNCHANGED vars
    <2>1. attempts' = attempts /\ MessagesStay /\ UNCHANGED <<phase, msg, attempt>>
      BY <1>1, OtherSteps, Zenon
    <2>2. \A t \in Tasks : status'[t] = "running" => status[t] = "running"
      <3>1. CASE Api
        BY <1>0, <3>1, ZenonT(30)
           DEF Api, TriggerExecution, ReplayTask, CreateExecutionAndTask, ReplayDeadLetteredTask, StoreTypeOK
      <3>2. CASE Timer \/ PublisherNext \/ UNCHANGED vars
        <4>1. status' = status
          BY <3>2, Zenon DEF Timer, BackoffElapses, PendingTimesOut, PublisherNext, PublisherStep, PublisherFault,
                      EnqueueRetries, EnqueueDueTaskRetries, ListPendingOutbox, Publish, MarkDispatched,
                      MarkOutboxDispatched, PublishFails, AbortTick, storeVars, vars
        <4> QED
          BY <4>1, Zenon
      <3> QED
        BY <1>1, <3>1, <3>2, Zenon
    <2> QED
      BY <2>1, <2>2, AttendedFrame, Zenon
  <1>2. ASSUME NEW w \in Workers, WorkerStep(w) PROVE Attended'
    <2>a. ASSUME UNCHANGED storeVars, stream' = stream, phase[w] # "running",
                 \A v \in Workers \ {w} : phase'[v] = phase[v] /\ msg'[v] = msg[v] /\ attempt'[v] = attempt[v]
          PROVE  Attended'
      BY <2>a, AttendedFrame, Zenon DEF storeVars, MessagesStay
    <2>1. CASE ClaimPending(w) \/ ReadNew(w) \/ ReadTimesOut(w)
      <3>1. phase[w] # "running" /\ UNCHANGED storeVars /\ stream' = stream /\ \E p, S : Receive(w, p, S)
        BY <2>1, Zenon DEF ClaimPending, ReadNew, ReadTimesOut, AutoClaim, ReadNext, streamVars
      <3>2. \A v \in Workers \ {w} : phase'[v] = phase[v] /\ msg'[v] = msg[v] /\ attempt'[v] = attempt[v]
        BY <1>0, <3>1, Zenon DEF Receive
      <3> QED
        BY <2>a, <3>1, <3>2, Zenon
    <2>2. CASE Ack(w)
      <3>1. phase[w] # "running" /\ UNCHANGED storeVars /\ stream' = stream /\ Advance(w, batch[w])
        BY <2>2, Zenon DEF Ack, XAck
      <3>2. \A v \in Workers \ {w} : phase'[v] = phase[v] /\ msg'[v] = msg[v] /\ attempt'[v] = attempt[v]
        BY <1>0, <3>1, Zenon DEF Advance
      <3> QED
        BY <2>a, <3>1, <3>2, Zenon
    <2>3. CASE SkipDuplicate(w)
      <3>1. phase[w] # "running" /\ UNCHANGED storeVars /\ stream' = stream /\ \E m : Begin(w, m, "ack", 0)
        BY <2>3, Zenon DEF SkipDuplicate, streamVars
      <3>2. \A v \in Workers \ {w} : phase'[v] = phase[v] /\ msg'[v] = msg[v] /\ attempt'[v] = attempt[v]
        BY <1>0, <3>1, Zenon DEF Begin
      <3> QED
        BY <2>a, <3>1, <3>2, Zenon
    <2>4. CASE BeginAttempt(w)
      <3>1. PICK m \in batch[w] : StartTaskAttempt(stream[m]) /\ Begin(w, m, "running", Len(attempts[stream[m]]) + 1)
        BY <2>4, Zenon DEF BeginAttempt
      <3>2. PICK t0 : t0 = stream[m]
        BY Zenon
      <3>3. PICK n : n = Len(attempts[t0]) + 1
        BY Zenon
      <3>4. t0 \in Tasks /\ phase[w] = "batch" /\ stream' = stream /\ n \in Nat
        BY <1>0, <2>4, <3>2, <3>3, SMTT(30)
           DEF BeginAttempt, streamVars, TypeOK, WorkerTypeOK, StoreTypeOK
      <3>5. /\ phase'[w] = "running" /\ msg'[w] = m /\ attempt'[w] = n
            /\ \A v \in Workers \ {w} : phase'[v] = phase[v] /\ msg'[v] = msg[v] /\ attempt'[v] = attempt[v]
        BY <1>0, <3>1, <3>2, <3>3, Zenon DEF Begin
      <3>6. /\ \A t \in Tasks \ {t0} : status'[t] = status[t] /\ attempts'[t] = attempts[t]
            /\ attempts'[t0] = Append(attempts[t0], "running")
        BY <1>0, <3>1, <3>2, <3>4, Zenon DEF StartTaskAttempt, StoreTypeOK
      <3>7. \A k \in DOMAIN attempts'[t0] : k = n \/ (k \in DOMAIN attempts[t0] /\ attempts'[t0][k] = attempts[t0][k])
        BY <1>0, <3>3, <3>4, <3>6, SMTT(30) DEF StoreTypeOK
      <3>8. /\ TaskOf(w)' = t0
            /\ \A v \in Workers : phase[v] = "running" =>
                 phase'[v] = "running" /\ TaskOf(v)' = TaskOf(v) /\ attempt'[v] = attempt[v]
        BY <3>2, <3>4, <3>5, Zenon DEF TaskOf
      <3> SUFFICES ASSUME NEW t \in Tasks
                   PROVE  /\ status'[t] = "running" => \E v \in Workers : phase'[v] = "running" /\ TaskOf(v)' = t
                          /\ \A k \in DOMAIN attempts'[t] : attempts'[t][k] = "running" =>
                               \E v \in Workers : phase'[v] = "running" /\ TaskOf(v)' = t /\ attempt'[v] = k
        BY Zenon DEF Attended
      <3>9. /\ status[t] = "running" => \E v \in Workers : phase'[v] = "running" /\ TaskOf(v)' = t
            /\ \A k \in DOMAIN attempts[t] : attempts[t][k] = "running" =>
                 \E v \in Workers : phase'[v] = "running" /\ TaskOf(v)' = t /\ attempt'[v] = k
        BY <3>8 DEF Attended
      <3>10. CASE t # t0
        BY <3>6, <3>9, <3>10, Zenon
      <3>11. CASE t = t0
        BY <3>5, <3>7, <3>8, <3>9, <3>11, Zenon
      <3> QED
        BY <3>10, <3>11, Zenon
    <2>5. CASE RetryAttempt(w) \/ FailAttempt(w) \/ CompleteAttempt(w) \/ CompleteAndEnqueueNext(w)
      <3>1. PICK t0 : t0 = TaskOf(w)
        BY Zenon
      <3>2. PICK n : n = attempt[w]
        BY Zenon
      <3>3. /\ phase[w] = "running" /\ phase'[w] = "ack" /\ stream' = stream /\ msg' = msg /\ t0 \in Tasks
            /\ \A v \in Workers \ {w} : phase'[v] = phase[v]
        BY <2>5, <3>1, OutcomeStatuses, Zenon
      <3>4. attempt' = attempt /\ \E s \in {"failed", "succeeded"} : attempts' = [attempts EXCEPT ![t0][n] = s]
        BY <2>5, <3>1, <3>2, Zenon DEF RetryAttempt, FailAttempt, CompleteAttempt, CompleteAndEnqueueNext, Recorded,
             ScheduleTaskRetry, FailTaskAttempt, CompleteTaskAttempt, CompleteTaskAttemptAndEnqueueNextTask
      <3>5. PICK s \in {"failed", "succeeded"} : attempts' = [attempts EXCEPT ![t0][n] = s]
        BY <3>4, Zenon
      <3>6. n \in DOMAIN attempts[t0]
        BY <3>1, <3>2, <3>3, Zenon DEF AttemptOwnership
      <3>7. /\ \A t \in Tasks \ {t0} : attempts'[t] = attempts[t]
            /\ attempts'[t0] = [attempts[t0] EXCEPT ![n] = s]
        BY <1>0, <3>3, <3>5, Zenon DEF StoreTypeOK
      <3>8. \A k \in DOMAIN attempts'[t0] : attempts'[t0][k] = "running" =>
              k # n /\ k \in DOMAIN attempts[t0] /\ attempts[t0][k] = "running"
        BY <1>0, <3>3, <3>6, <3>7, Zenon DEF StoreTypeOK
      <3>9. \A t \in Tasks : status'[t] = "running" => t # t0 /\ status[t] = "running"
        <4>1. RetryAttempt(w) \/ FailAttempt(w) \/ CompleteAttempt(w) =>
                \E x \in {"pending", "dead_lettered", "succeeded"} : status' = [status EXCEPT ![t0] = x]
          BY <2>5, <3>1, OutcomeStatuses, Zenon
        <4>2. RetryAttempt(w) \/ FailAttempt(w) \/ CompleteAttempt(w) =>
                \A t \in Tasks : status'[t] = "running" => t # t0 /\ status[t] = "running"
          BY <1>0, <3>3, <4>1, Zenon DEF StoreTypeOK
        <4>3. CASE CompleteAndEnqueueNext(w)
          <5>1. PICK q : q = Successor(t0)
            BY Zenon
          <5>2. status' = [status EXCEPT ![t0] = "succeeded", ![q] = "pending"] /\ NextTask[t0[2]] # NoTask
            BY <3>1, <4>3, <5>1, OutcomeStatuses, Zenon
          <5> QED
            BY <1>0, <3>3, <5>2, Zenon DEF StoreTypeOK
        <4> QED
          BY <2>5, <4>2, <4>3, Zenon
      <3>10. \A v \in Workers : /\ TaskOf(v)' = TaskOf(v)
                                /\ phase[v] = "running" /\ v # w => phase'[v] = "running"
        BY <3>3, Zenon DEF TaskOf
      <3> SUFFICES ASSUME NEW t \in Tasks
                   PROVE  /\ status'[t] = "running" => \E v \in Workers : phase'[v] = "running" /\ TaskOf(v)' = t
                          /\ \A k \in DOMAIN attempts'[t] : attempts'[t][k] = "running" =>
                               \E v \in Workers : phase'[v] = "running" /\ TaskOf(v)' = t /\ attempt'[v] = k
        BY Zenon DEF Attended
      <3>11. status'[t] = "running" => \E v \in Workers : phase'[v] = "running" /\ TaskOf(v)' = t
        <4>1. status'[t] = "running" => \E v \in Workers : phase[v] = "running" /\ TaskOf(v) = t /\ t # t0
          BY <3>9, Zenon DEF Attended
        <4> QED
          BY <3>1, <3>10, <4>1, Zenon
      <3>12. ASSUME NEW k \in DOMAIN attempts'[t], attempts'[t][k] = "running"
             PROVE  \E v \in Workers : phase'[v] = "running" /\ TaskOf(v)' = t /\ attempt'[v] = k
        <4>1. k \in DOMAIN attempts[t] /\ attempts[t][k] = "running" /\ (t # t0 \/ k # n)
          BY <3>7, <3>8, <3>12, Zenon
        <4>2. PICK v \in Workers : phase[v] = "running" /\ TaskOf(v) = t /\ attempt[v] = k
          BY <4>1, Zenon DEF Attended
        <4>3. v # w
          BY <3>1, <3>2, <4>1, <4>2, Zenon
        <4> QED
          BY <3>4, <3>10, <4>2, <4>3, Zenon
      <3> QED
        BY <3>11, <3>12, Zenon
    <2> QED
      BY <1>2, <2>1, <2>2, <2>3, <2>4, <2>5, Zenon DEF WorkerStep
  <1> QED
    BY <1>1, <1>2, Zenon DEF Next, WorkerNext

LEMMA FaultsGrow ==
  ASSUME TypeOK, [Next]_vars
  PROVE  /\ Faults \in Nat /\ Faults' \in Nat /\ Faults' >= Faults
         /\ (\E w \in Workers : WorkerFault(w)) => Faults' = Faults + 1
  <1>0. workerFaults \in Nat /\ publisherFaults \in Nat
    BY Zenon DEF TypeOK, WorkerTypeOK, PublisherTypeOK
  <1>1. CASE Api \/ Timer \/ UNCHANGED vars
    <2>1. workerFaults' = workerFaults /\ publisherFaults' = publisherFaults
      BY <1>1, Zenon DEF Api, Timer, TriggerExecution, ReplayTask, PendingTimesOut, workerVars, publisherVars, vars
    <2>2. \A w \in Workers : ~WorkerFault(w)
      BY <1>0, <2>1, SMTT(30) DEF WorkerFault, LeavePending, CrashWorker
    <2> QED
      BY <1>0, <2>1, <2>2, SMTT(30) DEF Faults
  <1>2. CASE WorkerNext
    <2>1. publisherFaults' = publisherFaults
      BY <1>2, Zenon DEF WorkerNext, publisherVars
    <2>2. PICK w \in Workers : WorkerStep(w) \/ WorkerFault(w)
      BY <1>2, Zenon DEF WorkerNext
    <2>3. WorkerStep(w) => workerFaults' = workerFaults
      BY Zenon DEF WorkerStep, ClaimPending, ReadNew, ReadTimesOut, Ack, BeginAttempt, SkipDuplicate, RetryAttempt,
           FailAttempt, CompleteAttempt, CompleteAndEnqueueNext, EnqueueNextConflicts, Receive, Begin, Recorded
    <2>4. \A v \in Workers : WorkerFault(v) => workerFaults' = workerFaults + 1
      BY Zenon DEF WorkerFault, LeavePending, CrashWorker
    <2> QED
      BY <1>0, <2>1, <2>2, <2>3, <2>4, SMTT(30) DEF Faults
  <1>3. CASE PublisherNext
    <2>1. workerFaults' = workerFaults
      BY <1>3, Zenon DEF PublisherNext, workerVars
    <2>2. \A w \in Workers : ~WorkerFault(w)
      BY <1>0, <2>1, SMTT(30) DEF WorkerFault, LeavePending, CrashWorker
    <2>3. PICK p \in Publishers : PublisherStep(p) \/ PublisherFault(p)
      BY <1>3, Zenon DEF PublisherNext
    <2>4. publisherFaults' = publisherFaults \/ publisherFaults' = publisherFaults + 1
      BY <2>3, Zenon DEF PublisherStep, PublisherFault, EnqueueRetries, ListPendingOutbox, Publish, MarkDispatched,
           PublishFails, AbortTick
    <2> QED
      BY <1>0, <2>1, <2>2, <2>4, SMTT(30) DEF Faults
  <1> QED
    BY <1>1, <1>2, <1>3, Zenon DEF Next

(* What holds until the first failure. *)
CleanRun(rank) == Faults = 0 => OneUnfinished /\ InOrder(rank) /\ Attended

LEMMA CleanRunHolds ==
  ASSUME NEW rank, Ordered(rank), \A p, q \in Publishers : p = q, ~SlowWorkers
  PROVE  Spec => []CleanRun(rank)
  <1>1. Init => CleanRun(rank)
    <2> SUFFICES ASSUME Init PROVE OneUnfinished /\ InOrder(rank) /\ Attended
      BY Zenon DEF CleanRun
    <2>1. OneUnfinished
      BY Zenon
         DEF Init, StoreInit, WorkerInit, OneUnfinished, AtMostOneUnfinished, RunningIsShown, Open, Unfinished, Tasks
    <2>2. InOrder(rank) /\ Attended
      BY DEF Init, StoreInit, InOrder, Attended, Unfinished, Tasks
    <2> QED
      BY <2>1, <2>2, Zenon
  <1>2. TypeOK /\ KnownTasks /\ AttemptOwnership /\ Holding /\ CarriersBounded /\ CleanRun(rank) /\ [Next]_vars
        => CleanRun(rank)'
    <2> SUFFICES ASSUME TypeOK, KnownTasks, AttemptOwnership, Holding, CarriersBounded, CleanRun(rank), [Next]_vars,
                        Faults' = 0
                 PROVE  OneUnfinished' /\ InOrder(rank)' /\ Attended'
      BY Zenon DEF CleanRun
    <2>1. Faults = 0 /\ \A w \in Workers : ~WorkerFault(w)
      BY FaultsGrow
    <2>2. OneUnfinished /\ InOrder(rank) /\ Attended
      BY <2>1, Zenon DEF CleanRun
    <2>3. SoleWorker
      BY <2>1, SoleWithoutFaults, Zenon
    <2>4. OneUnfinished' /\ [Lifecycle!LifecycleNext]_<<exec, status>>
      BY <2>2, <2>3, LifecycleSteps, Zenon
    <2>5. InOrder(rank)'
      BY <2>2, <2>4, InOrderSteps, Zenon DEF OneUnfinished, TypeOK
    <2>6. Attended'
      BY <2>1, <2>2, NextRowIsFree, AttendedSteps, Zenon DEF OneUnfinished
    <2> QED
      BY <2>4, <2>5, <2>6, Zenon
  <1> QED
    BY <1>1, <1>2, TypeCorrect, KnownTasksHold, AttemptOwnershipHolds, HoldingHolds, CarriersBoundedHolds, PTL DEF Spec

(* Until something fails, with one publisher and handlers faster than the  *)
(* reclaim time, a task shown as running has exactly one attempt under way *)
(* and any other task none: for any number of workers, tasks, retries and  *)
(* replays, and any definition that is a chain.  In a loop the second      *)
(* visit of a task finds its row taken and leaves its attempt running.     *)
THEOREM OneAttemptAtATimeHolds ==
  ASSUME NEW rank, Ordered(rank), IsFiniteSet(Publishers)
  PROVE  Spec => []OneAttemptAtATime
  <1>1. CASE SlowWorkers \/ Cardinality(Publishers) # 1
    <2>1. OneAttemptAtATime
      BY <1>1, Zenon DEF OneAttemptAtATime
    <2> QED
      BY <2>1, PTL
  <1>2. CASE ~SlowWorkers /\ Cardinality(Publishers) = 1
    <2>1. \A p, q \in Publishers : p = q
      BY <1>2, FS_Singleton
    <2>2. TypeOK /\ AttemptOwnership /\ Holding /\ CarriersBounded /\ CleanRun(rank) => OneAttemptAtATime
      <3> SUFFICES ASSUME TypeOK, AttemptOwnership, Holding, CarriersBounded, CleanRun(rank),
                          workerFaults + publisherFaults = 0, NEW t \in Tasks
                   PROVE  Cardinality({k \in DOMAIN attempts[t] : attempts[t][k] = "running"})
                            = IF status[t] = "running" THEN 1 ELSE 0
        BY Zenon DEF OneAttemptAtATime
      <3>1. OneUnfinished /\ Attended /\ SoleWorker
        BY SoleWithoutFaults, Zenon DEF CleanRun, Faults
      <3>2. PICK R : R = {k \in DOMAIN attempts[t] : attempts[t][k] = "running"}
        BY Zenon
      <3>3. CASE status[t] # "running"
        <4>1. R = {}
          BY <3>1, <3>2, <3>3, SMTT(30) DEF Attended, OneUnfinished, RunningIsShown
        <4> QED
          BY <3>2, <3>3, <4>1, FS_EmptySet, Zenon
      <3>4. CASE status[t] = "running"
        <4>1. PICK w \in Workers : phase[w] = "running" /\ TaskOf(w) = t
          BY <3>1, <3>4, Zenon DEF Attended
        <4>2. attempt[w] \in R
          BY <3>2, <4>1, Zenon DEF AttemptOwnership
        <4>3. \A k \in R : k = attempt[w]
          BY <3>1, <3>2, <4>1, SMTT(30) DEF Attended, SoleWorker
        <4>4. R = {attempt[w]}
          BY <4>2, <4>3, Zenon
        <4> QED
          BY <3>2, <3>4, <4>4, FS_Singleton, Zenon
      <3> QED
        BY <3>3, <3>4, Zenon
    <2> QED
      BY <1>2, <2>1, <2>2, TypeCorrect, AttemptOwnershipHolds, HoldingHolds, CarriersBoundedHolds, CleanRunHolds, PTL
  <1> QED
    BY <1>1, <1>2, Zenon

(* Nor is there, as long as nothing can fail, any other way through the    *)
(* statuses than the lifecycle of ARCHITECTURE.md: for any number of       *)
(* workers, with one publisher and handlers faster than the reclaim time,  *)
(* and for any definition.                                                 *)
THEOREM ImplementsLifecycleWithoutFaults ==
  ASSUME WorkerFaultCap = 0, PublisherFaultCap = 0, \A p, q \in Publishers : p = q, ~SlowWorkers
  PROVE  Spec => ImplementsLifecycle
  <1> DEFINE Unfailed == Faults = 0 /\ OneUnfinished
  <1>1. Init => Unfailed /\ Lifecycle!LifecycleInit
    <2> SUFFICES ASSUME Init PROVE Faults = 0 /\ OneUnfinished /\ Lifecycle!LifecycleInit
      BY Zenon
    <2>1. Faults = 0
      BY DEF Init, WorkerInit, PublisherInit, Faults
    <2>2. OneUnfinished
      BY Zenon
         DEF Init, StoreInit, WorkerInit, OneUnfinished, AtMostOneUnfinished, RunningIsShown, Open, Unfinished, Tasks
    <2>3. Lifecycle!LifecycleInit
      BY Zenon DEF Init, StoreInit, Lifecycle!LifecycleInit, Tasks
    <2> QED
      BY <2>1, <2>2, <2>3, Zenon
  <1>2. TypeOK /\ KnownTasks /\ Holding /\ CarriersBounded /\ Unfailed /\ [Next]_vars
        => Unfailed' /\ [Lifecycle!LifecycleNext]_<<exec, status>>
    <2> SUFFICES ASSUME TypeOK, KnownTasks, Holding, CarriersBounded, Faults = 0, OneUnfinished, [Next]_vars
                 PROVE  Faults' = 0 /\ OneUnfinished' /\ [Lifecycle!LifecycleNext]_<<exec, status>>
      BY Zenon
    <2>1. SoleWorker
      BY SoleWithoutFaults, Zenon
    <2>2. OneUnfinished' /\ [Lifecycle!LifecycleNext]_<<exec, status>>
      BY <2>1, LifecycleSteps, Zenon
    <2>3. workerFaults' = workerFaults /\ publisherFaults' = publisherFaults
      <3>1. workerFaults \in Nat /\ publisherFaults \in Nat
        BY Zenon DEF TypeOK, WorkerTypeOK, PublisherTypeOK
      <3>2. /\ \A w \in Workers : ~WorkerFault(w)
            /\ \A p \in Publishers : ~PublisherFault(p)
        BY <3>1 DEF WorkerFault, LeavePending, CrashWorker, PublisherFault, PublishFails, AbortTick
      <3>3. CASE Api \/ Timer \/ UNCHANGED vars
        BY <3>3, Zenon DEF Api, Timer, TriggerExecution, ReplayTask, PendingTimesOut, workerVars, publisherVars, vars
      <3>4. CASE WorkerNext
        <4>1. (\E w \in Workers : WorkerStep(w)) /\ publisherFaults' = publisherFaults
          BY <3>2, <3>4, Zenon DEF WorkerNext, publisherVars
        <4> QED
          BY <4>1, Zenon
             DEF WorkerStep, ClaimPending, ReadNew, ReadTimesOut, Ack, BeginAttempt, SkipDuplicate, RetryAttempt,
                 FailAttempt, CompleteAttempt, CompleteAndEnqueueNext, EnqueueNextConflicts, Receive, Begin, Recorded
      <3>5. CASE PublisherNext
        <4>1. (\E p \in Publishers : PublisherStep(p)) /\ workerFaults' = workerFaults
          BY <3>2, <3>5, Zenon DEF PublisherNext, workerVars
        <4> QED
          BY <4>1, Zenon DEF PublisherStep, EnqueueRetries, ListPendingOutbox, Publish, MarkDispatched
      <3> QED
        BY <3>3, <3>4, <3>5, Zenon DEF Next
    <2> QED
      BY <2>2, <2>3, Zenon DEF Faults
  <1> QED
    BY <1>1, <1>2, TypeCorrect, KnownTasksHold, HoldingHolds, CarriersBoundedHolds, PTL
       DEF Spec, ImplementsLifecycle, Lifecycle!LifecycleSpec, Lifecycle!lifecycleVars

-----------------------------------------------------------------------------
(* How often a task is attempted.  Every carrier no worker is busy with     *)
(* may begin one attempt more, so these count like attempts already made.   *)
Budgeted(t) ==
  Len(attempts[t]) + Cardinality(Waiting(t)) <= AttemptBudget(t[2]) + replays + Faults

(* The one worker is on the latest attempt of its task. *)
Latest == \A w \in Workers : phase[w] = "running" => attempt[w] = Len(attempts[TaskOf(w)])

LEMMA LatestSteps ==
  ASSUME \A v, w \in Workers : v = w, TypeOK, Latest, [Next]_vars
  PROVE  Latest'
  <1>0. /\ StoreTypeOK /\ phase \in [Workers -> {"poll", "read", "batch", "running", "ack"}]
        /\ msg \in [Workers -> 0 .. delivered] /\ attempt \in [Workers -> Nat]
    BY Zenon DEF TypeOK, WorkerTypeOK
  <1>1. CASE attempts' = attempts /\ MessagesStay /\ \A w \in Workers : StaysOrStops(w)
    <2>1. \A v \in Workers : phase'[v] = "running" => TaskOf(v)' = TaskOf(v)
      BY <1>1, TaskOfIsTask, Zenon DEF StaysOrStops, MessagesStay, TaskOf
    <2> QED
      BY <1>1, <2>1, Zenon DEF Latest, StaysOrStops
  <1>2. CASE \/ \E e \in Executions : CreateExecutionAndTask(e) /\ UNCHANGED <<streamVars, workerVars>>
             \/ \E t \in Tasks : ReplayDeadLetteredTask(t) /\ UNCHANGED <<streamVars, workerVars>>
    BY <1>2, Zenon
       DEF CreateExecutionAndTask, ReplayDeadLetteredTask, streamVars, workerVars, Latest, TaskOf
  <1>3. ASSUME NEW w \in Workers, BeginAttempt(w) PROVE Latest'
    <2>1. PICK m \in batch[w] : StartTaskAttempt(stream[m]) /\ Begin(w, m, "running", Len(attempts[stream[m]]) + 1)
      BY <1>3, Zenon DEF BeginAttempt
    <2>2. PICK t : t = stream[m]
      BY Zenon
    <2>3. t \in Tasks /\ stream' = stream
      BY <1>3, <2>2, SMTT(30) DEF BeginAttempt, streamVars, TypeOK, WorkerTypeOK
    <2>4. msg'[w] = m /\ attempt'[w] = Len(attempts[t]) + 1
      BY <1>0, <2>1, <2>2, ZenonT(30) DEF Begin
    <2>5. Len(attempts'[t]) = Len(attempts[t]) + 1
      BY <1>0, <2>1, <2>2, <2>3, SMTT(30) DEF StartTaskAttempt, StoreTypeOK
    <2>6. TaskOf(w)' = t
      BY <2>2, <2>3, <2>4, Zenon DEF TaskOf
    <2> QED
      BY <2>4, <2>5, <2>6, Zenon DEF Latest
  <1>4. ASSUME NEW w \in Workers,
               RetryAttempt(w) \/ FailAttempt(w) \/ CompleteAttempt(w) \/ CompleteAndEnqueueNext(w)
        PROVE  Latest'
    <2>1. phase'[w] = "ack"
      BY <1>4, OutcomeStatuses, Zenon
    <2> QED
      BY <2>1, Zenon DEF Latest
  <1> QED
    BY <1>1, <1>2, <1>3, <1>4, StatusSteps, Zenon DEF StatusStep

LEMMA BudgetedStep ==
  ASSUME NEW t \in Tasks, CarrierStep(t), ~Conflicted(t), CountersGrow, StoreTypeOK,
         Latest, FreshTasks, replays \in Nat, replays' \in Nat, Faults \in Nat, Faults' \in Nat,
         IsFiniteSet(Carriers(t)), Cardinality(Carriers(t)) <= Faults + (IF Open(t) THEN 1 ELSE 0), Budgeted(t)
  PROVE  Budgeted(t)'
  <1>1. PICK b : b = AttemptBudget(t[2])
    BY Zenon
  <1>2. b \in Nat \ {0}
    BY <1>1, WorkerAssumption, SMTT(30) DEF AttemptBudget, Tasks
  <1>3. PICK n : n = Len(attempts[t])
    BY Zenon
  <1>4. n \in Nat
    BY <1>3 DEF StoreTypeOK
  <1>5. IsFiniteSet(Waiting(t)) /\ Cardinality(Waiting(t)) \in Nat /\ Waiting(t) \subseteq Carriers(t)
    BY CountShrinks, Zenon DEF Waiting
  <1>6. n + Cardinality(Waiting(t)) <= b + replays + Faults /\ replays' >= replays /\ Faults' >= Faults
    BY <1>1, <1>3, Zenon DEF Budgeted, CountersGrow
  <1> SUFFICES Len(attempts'[t]) + Cardinality(Waiting(t)') <= b + replays' + Faults'
    BY <1>1, Zenon DEF Budgeted, AttemptBudget
  <1>7. CASE Quiet(t) \/ Ended(t)
    <2>1. Len(attempts'[t]) = n /\ Waiting(t)' \subseteq Waiting(t)
      BY <1>3, <1>7, Zenon DEF Quiet, Same, Ended
    <2>2. Cardinality(Waiting(t)') \in Nat /\ Cardinality(Waiting(t)') <= Cardinality(Waiting(t))
      BY <1>5, <2>1, CountShrinks, Zenon
    <2> QED
      BY <1>2, <1>4, <1>5, <1>6, <2>1, <2>2, SMTT(30)
  <1>8. CASE Passed(t)
    <2>1. Len(attempts'[t]) = n /\ \E x \in Waiting(t) : \E y : Waiting(t)' \subseteq (Waiting(t) \ {x}) \cup {y}
      BY <1>3, <1>8, Zenon DEF Passed, Same
    <2>2. Cardinality(Waiting(t)') \in Nat /\ Cardinality(Waiting(t)') <= Cardinality(Waiting(t))
      BY <1>5, <2>1, CountSwaps, Zenon
    <2> QED
      BY <1>2, <1>4, <1>5, <1>6, <2>1, <2>2, SMTT(30)
  <1>9. CASE Came(t)
    <2>1. /\ Len(attempts'[t]) = n /\ \E y : Waiting(t)' \subseteq Waiting(t) \cup {y}
          /\ (Carriers(t) = {} /\ attempts[t] = <<>>) \/ replays' = replays + 1
      BY <1>3, <1>9, Zenon DEF Came
    <2>2. Cardinality(Waiting(t)') \in Nat /\ Cardinality(Waiting(t)') <= Cardinality(Waiting(t)) + 1
      BY <1>5, <2>1, CountGains, Zenon
    <2>3. CASE Carriers(t) = {} /\ attempts[t] = <<>>
      <3>1. Waiting(t) = {} /\ n = 0
        BY <1>3, <1>5, <2>3, Zenon
      <3>2. Cardinality(Waiting(t)) = 0
        BY <3>1, FS_EmptySet, ZenonT(30)
      <3> QED
        BY <1>2, <2>1, <2>2, <3>1, <3>2, SMTT(30)
    <2> QED
      BY <1>2, <1>4, <1>5, <1>6, <2>1, <2>2, <2>3, SMTT(30)
  <1>10. CASE Began(t)
    <2>1. Len(attempts'[t]) = n + 1 /\ \E x \in Waiting(t) : Waiting(t)' \subseteq Waiting(t) \ {x}
      BY <1>3, <1>10, Zenon DEF Began
    <2>2. Cardinality(Waiting(t)') \in Nat /\ Cardinality(Waiting(t)') + 1 <= Cardinality(Waiting(t))
      BY <1>5, <2>1, CountLoses, Zenon
    <2> QED
      BY <1>2, <1>4, <1>5, <1>6, <2>1, <2>2, SMTT(30)
  (* The retry was granted to the latest attempt, so there were fewer       *)
  (* attempts than allowed, and its own carrier was not waiting.            *)
  <1>11. CASE Again(t)
    <2>1. Len(attempts'[t]) = n /\ n < b
      BY <1>1, <1>3, <1>11, Zenon DEF Again, Latest
    <2>2. PICK x \in Carriers(t) \ Waiting(t) : \E y : Waiting(t)' \subseteq Waiting(t) \cup {y}
      BY <1>11, Zenon DEF Again
    <2>3. Cardinality(Waiting(t)') \in Nat /\ Cardinality(Waiting(t)') <= Cardinality(Waiting(t)) + 1
      BY <1>5, <2>2, CountGains, Zenon
    <2>4. Waiting(t) \subseteq Carriers(t) \ {x}
      BY <1>5, <2>2, Zenon
    <2>5. Cardinality(Waiting(t)) + 1 <= Cardinality(Carriers(t)) /\ Cardinality(Carriers(t)) \in Nat
      BY <2>2, <2>4, CountLoses, SMTT(30)
    <2>6. Cardinality(Waiting(t)) <= Faults
      BY <1>5, <2>5, SMTT(30)
    <2> QED
      BY <1>2, <1>4, <1>5, <1>6, <2>1, <2>3, <2>6, SMTT(30)
  <1>12. CASE Slipped(t)
    <2>1. Len(attempts'[t]) = n /\ Faults' = Faults + 1 /\ \E y : Waiting(t)' \subseteq Waiting(t) \cup {y}
      BY <1>3, <1>12, Zenon DEF Slipped, Same
    <2>2. Cardinality(Waiting(t)') \in Nat /\ Cardinality(Waiting(t)') <= Cardinality(Waiting(t)) + 1
      BY <1>5, <2>1, CountGains, Zenon
    <2> QED
      BY <1>2, <1>4, <1>5, <1>6, <2>1, <2>2, SMTT(30)
  <1> QED
    BY <1>7, <1>8, <1>9, <1>10, <1>11, <1>12, Zenon DEF CarrierStep

(* One worker, one publisher, a chain: what holds together in every state. *)
Sequential(rank) == InOrder(rank) /\ Latest /\ \A t \in Tasks : Budgeted(t)

LEMMA SequentialHolds ==
  ASSUME NEW rank, Ordered(rank), \A p, q \in Publishers : p = q, \A v, w \in Workers : v = w
  PROVE  Spec => []Sequential(rank)
  <1>1. Init => Sequential(rank)
    <2> SUFFICES ASSUME Init PROVE Sequential(rank)
      BY Zenon
    <2>1. InOrder(rank) /\ Latest
      BY Zenon DEF Init, StoreInit, WorkerInit, InOrder, Latest, Unfinished, Tasks
    <2>2. ASSUME NEW t \in Tasks PROVE Budgeted(t)
      <3>1. EventsLeft(t) = {} /\ ~RetryCover(t)
        BY DEF Init, StoreInit, EventsLeft, PendingEvents, RetryCover
      <3>2. MessagesLeft(t) = {}
        <4>1. stream = <<>> /\ delivered = 0 /\ pel = {}
          BY Zenon DEF Init, RedisInit
        <4>2. Len(stream) = 0
          BY <4>1, Zenon
        <4>3. Unread = {}
          BY <4>1, <4>2, SMTT(30) DEF Unread
        <4> QED
          BY <4>1, <4>3, Zenon DEF MessagesLeft, Unacked
      <3>3. Waiting(t) = {}
        BY <3>1, <3>2, Zenon DEF Waiting, Carriers
      <3>4. Cardinality(Waiting(t)) = 0
        BY <3>3, FS_EmptySet, ZenonT(30)
      <3>5. Len(attempts[t]) = 0 /\ replays = 0 /\ Faults = 0
        BY DEF Init, StoreInit, WorkerInit, PublisherInit, Faults
      <3>6. AttemptBudget(t[2]) \in Nat
        BY WorkerAssumption, Zenon DEF AttemptBudget, Tasks
      <3> QED
        BY <3>4, <3>5, <3>6, SMTT(30) DEF Budgeted
    <2> QED
      BY <2>1, <2>2, Zenon DEF Sequential
  <1>2. TypeOK /\ TypeOK' /\ KnownTasks /\ FreshTasks /\ Holding /\ Listing /\ CarriersBounded /\ OneUnfinished
          /\ Sequential(rank) /\ [Next]_vars
        => Sequential(rank)'
    <2> SUFFICES ASSUME TypeOK, TypeOK', KnownTasks, FreshTasks, Holding, Listing, CarriersBounded, OneUnfinished,
                        Sequential(rank), [Next]_vars
                 PROVE  Sequential(rank)'
      BY Zenon
    <2>0. InOrder(rank) /\ Latest /\ \A t \in Tasks : Budgeted(t)
      BY Zenon DEF Sequential
    <2>1. [Lifecycle!LifecycleNext]_<<exec, status>>
      BY LifecycleSteps, Zenon DEF SoleWorker
    <2>2. InOrder(rank)'
      BY <2>0, <2>1, InOrderSteps, Zenon DEF OneUnfinished, TypeOK
    <2>3. Latest'
      BY <2>0, LatestSteps, Zenon
    <2>4. ASSUME NEW t \in Tasks PROVE Budgeted(t)'
      <3>1. CarrierStep(t) /\ CountersGrow
        BY CarrierSteps, Zenon
      <3>2. ~Conflicted(t)
        BY <2>0, NextRowIsFree, Zenon DEF Conflicted, OneUnfinished
      <3>3. Faults \in Nat /\ Faults' \in Nat
        BY FaultsGrow, Zenon
      <3>4. StoreTypeOK /\ replays \in Nat /\ replays' \in Nat
        BY Zenon DEF TypeOK, StoreTypeOK
      <3>5. IsFiniteSet(Carriers(t)) /\ Cardinality(Carriers(t)) <= Faults + (IF Open(t) THEN 1 ELSE 0)
        BY Zenon DEF CarriersBounded
      <3> QED
        BY <2>0, <3>1, <3>2, <3>3, <3>4, <3>5, BudgetedStep, Zenon
    <2> QED
      BY <2>2, <2>3, <2>4, Zenon DEF Sequential
  <1> QED
    BY <1>1, <1>2, TypeCorrect, KnownTasksHold, FreshHolds, HoldingHolds, ListingHolds, CarriersBoundedHolds,
       OneUnfinishedHolds, PTL DEF Spec

(* With one worker and one publisher a task is attempted no more often than *)
(* its max_attempts, once more per replay and once more per failure, for    *)
(* any budget and any chain of tasks: the deliveries that crashes, lost     *)
(* replies, retries and replays leave behind add up and never multiply.     *)
THEOREM AttemptsBoundedHolds ==
  ASSUME NEW rank, Ordered(rank), \A p, q \in Publishers : p = q, \A v, w \in Workers : v = w
  PROVE  Spec => []AttemptsBounded
  <1>1. TypeOK /\ CarriersBounded /\ Sequential(rank) => AttemptsBounded
    <2> SUFFICES ASSUME TypeOK, CarriersBounded, Sequential(rank), NEW t \in Tasks
                 PROVE  Len(attempts[t]) <= AttemptBudget(t[2]) + replays + workerFaults + publisherFaults
      BY Zenon DEF AttemptsBounded
    <2>1. Len(attempts[t]) + Cardinality(Waiting(t)) <= AttemptBudget(t[2]) + replays + Faults
      BY Zenon DEF Sequential, Budgeted
    <2>2. Cardinality(Waiting(t)) \in Nat
      BY CountShrinks, Zenon DEF CarriersBounded, Waiting
    <2>3. /\ Len(attempts[t]) \in Nat /\ replays \in Nat /\ workerFaults \in Nat /\ publisherFaults \in Nat
      BY DEF TypeOK, StoreTypeOK, WorkerTypeOK, PublisherTypeOK
    <2>4. AttemptBudget(t[2]) \in Nat
      BY WorkerAssumption, Zenon DEF AttemptBudget, Tasks
    <2> QED
      BY <2>1, <2>2, <2>3, <2>4, SMTT(30) DEF Faults
  <1> QED
    BY <1>1, TypeCorrect, CarriersBoundedHolds, SequentialHolds, PTL
=============================================================================
