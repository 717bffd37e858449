------------------------- MODULE EngineCoverProofs --------------------------
(***************************************************************************)
(* What will bring a task to a worker: its undispatched events, its        *)
(* messages and its retry time.  An open task has one at least: Covered is *)
(* inductive with TypeOK and ExclusiveHolding, and implies NoLostTask.     *)
(* What each step does to the carriers of a task is CarrierSteps, from     *)
(* which EngineCountProofs counts them.                                    *)
(***************************************************************************)
EXTENDS EngineProofs

(* No publisher comes to be about to mark another event. *)
NoNewMark ==
  \A p \in Publishers : pphase'[p] = "mark" => pphase[p] = "mark" /\ current'[p] = current[p]

(* An event that covers its task goes on doing so when the outbox grows. *)
LEMMA EventCoverKept ==
  ASSUME TypeOK, NEW t \in Tasks, EventCover(t), NoNewMark,
         UNCHANGED outbox \/ \E S \in SUBSET Tasks : outbox' = InsertEvents(S)
  PROVE  EventCover(t)'
  <1> PICK k \in PendingEvents(t) : \A p \in Publishers : pphase[p] = "mark" => current[p] # <<t, k>>
    BY Zenon DEF EventCover
  <1>1. k \in PendingEvents(t)'
    BY InsertEventsFacts DEF PendingEvents, TypeOK
  <1> QED
    BY <1>1, Zenon DEF EventCover, NoNewMark

(* A new event covers its task: no publisher can be about to mark it. *)
LEMMA NewEventCovers ==
  ASSUME TypeOK, NEW S \in SUBSET Tasks, outbox' = InsertEvents(S), NEW t \in S, NoNewMark
  PROVE  EventCover(t)'
  <1> DEFINE k == Len(outbox[t]) + 1
  <1>1. k \in PendingEvents(t)' /\ k \notin 1 .. Len(outbox[t])
    BY InsertEventsFacts DEF PendingEvents, TypeOK
  <1>2. ASSUME NEW p \in Publishers, pphase[p] = "mark", current[p] = <<t, k>> PROVE FALSE
    BY <1>1, <1>2 DEF TypeOK, PublisherTypeOK
  <1> QED
    BY <1>1, <1>2, Zenon DEF EventCover, NoNewMark

(* A message that covers its task goes on doing so unless a worker handling*)
(* that task comes to be about to acknowledge.                             *)
LEMMA MessageCoverKept ==
  ASSUME TypeOK, NEW t \in Tasks, MessageCover(t),
         \A m \in Unacked :
           (\A w \in Workers : phase[w] = "ack" => msg[w] # m) => m \in Unacked' /\ stream'[m] = stream[m],
         \A w \in Workers : phase'[w] = "ack" =>
           (phase[w] = "ack" /\ msg'[w] = msg[w]) \/ stream[msg'[w]] # t
  PROVE  MessageCover(t)'
  BY DEF MessageCover

(* A worker's step leaves every open task covered. *)
LEMMA CoveredWorkerSteps ==
  ASSUME TypeOK, ExclusiveHolding, ~SlowWorkers, Covered, NEW w \in Workers,
         WorkerStep(w) \/ WorkerFault(w), UNCHANGED publisherVars
  PROVE  Covered'
  <1>0. NoNewMark /\ StoreTypeOK
    BY Zenon DEF NoNewMark, publisherVars, TypeOK
  <1> DEFINE NoNewAck == \A v \in Workers : phase'[v] = "ack" => phase[v] = "ack" /\ msg'[v] = msg[v]
  <1>a. ASSUME UNCHANGED storeVars, NoNewAck,
               \A m \in Unacked : (\A v \in Workers : phase[v] = "ack" => msg[v] # m) =>
                 m \in Unacked' /\ stream'[m] = stream[m]
        PROVE  Covered'
    <2> SUFFICES ASSUME NEW t \in Tasks, Open(t)' PROVE (EventCover(t) \/ MessageCover(t) \/ RetryCover(t))'
      BY Zenon DEF Covered
    <2>1. Open(t) /\ UNCHANGED outbox /\ (RetryCover(t) => RetryCover(t)')
      BY <1>a, Zenon DEF Open, RetryCover, storeVars
    <2>2. EventCover(t) => EventCover(t)'
      BY <1>0, <2>1, EventCoverKept, Zenon
    <2>3. MessageCover(t) => MessageCover(t)'
      BY <1>a, MessageCoverKept, Zenon
    <2> QED
      BY <2>1, <2>2, <2>3, Zenon DEF Covered
  <1>b. ASSUME NEW t0 \in Tasks, Recorded(w), t0 = TaskOf(w),
               \A t \in Tasks \ {t0} : \/ status'[t] = status[t] /\ nextRunAt'[t] = nextRunAt[t]
                                       \/ EventCover(t)',
               Open(t0)' => RetryCover(t0)',
               UNCHANGED outbox \/ \E S \in SUBSET Tasks : outbox' = InsertEvents(S)
        PROVE  Covered'
    <2> SUFFICES ASSUME NEW t \in Tasks \ {t0}, Open(t)',
                        status'[t] = status[t] /\ nextRunAt'[t] = nextRunAt[t]
                 PROVE  (EventCover(t) \/ MessageCover(t) \/ RetryCover(t))'
      BY <1>b, Zenon DEF Covered
    <2>1. Open(t) /\ (RetryCover(t) => RetryCover(t)')
      BY Zenon DEF Open, RetryCover
    <2>2. EventCover(t) => EventCover(t)'
      BY <1>0, <1>b, EventCoverKept, Zenon
    <2>3. \A v \in Workers : phase'[v] = "ack" =>
            (phase[v] = "ack" /\ msg'[v] = msg[v]) \/ stream[msg'[v]] # t
      BY <1>b, Zenon DEF Recorded, TaskOf, TypeOK, WorkerTypeOK
    <2>4. Unacked' = Unacked /\ stream' = stream
      BY <1>b, Zenon DEF Recorded, streamVars, Unacked, Unread
    <2>5. MessageCover(t) => MessageCover(t)'
      BY <2>3, <2>4, MessageCoverKept, Zenon
    <2> QED
      BY <2>1, <2>2, <2>5, Zenon DEF Covered
  <1>c. ASSUME NEW R, Advance(w, R) PROVE NoNewAck
    BY <1>c, Zenon DEF Advance, TypeOK, WorkerTypeOK
  <1>d. ASSUME UNCHANGED streamVars PROVE Unacked' = Unacked /\ stream' = stream
    BY <1>d, Zenon DEF streamVars, Unacked, Unread
  <1>1. CASE ClaimPending(w)
    <2>1. NoNewAck
      BY <1>1, Zenon DEF ClaimPending, Receive, TypeOK, WorkerTypeOK
    <2>2. Unacked' = Unacked /\ stream' = stream
      BY <1>1, Zenon DEF ClaimPending, AutoClaim, Unacked, Unread
    <2> QED
      BY <1>1, <1>a, <2>1, <2>2, Zenon DEF ClaimPending
  <1>2. CASE ReadNew(w)
    <2>1. NoNewAck
      BY <1>2, Zenon DEF ReadNew, Receive, TypeOK, WorkerTypeOK
    <2>2. Unacked' = Unacked /\ stream' = stream
      BY <1>2 DEF ReadNew, ReadNext, Unacked, Unread, TypeOK, WorkerTypeOK
    <2> QED
      BY <1>2, <1>a, <2>1, <2>2, Zenon DEF ReadNew
  <1>3. CASE ReadTimesOut(w)
    <2>1. NoNewAck
      BY <1>3, Zenon DEF ReadTimesOut, Receive, TypeOK, WorkerTypeOK
    <2> QED
      BY <1>3, <1>a, <1>d, <2>1, Zenon DEF ReadTimesOut
  <1>4. CASE Ack(w)
    <2>1. NoNewAck
      BY <1>4, <1>c, Zenon DEF Ack
    <2>2. \A m \in Unacked : m # msg[w] => m \in Unacked' /\ stream'[m] = stream[m]
      BY <1>4, Zenon DEF Ack, XAck, Unacked, Unread
    <2> QED
      BY <1>4, <1>a, <2>1, <2>2, Zenon DEF Ack
  <1>5. CASE BeginAttempt(w)
    <2> PICK m \in batch[w] : /\ StartTaskAttempt(stream[m])
                              /\ Begin(w, m, "running", Len(attempts[stream[m]]) + 1)
      BY <1>5, Zenon DEF BeginAttempt
    <2>1. /\ stream[m] \in Tasks /\ m \in pel
          /\ \A v \in Workers \ {w} : phase[v] = "ack" => msg[v] # m
      BY DEF ExclusiveHolding, Held, TypeOK, WorkerTypeOK
    <2>2. NoNewAck /\ phase'[w] = "running"
      BY Zenon DEF Begin, TypeOK, WorkerTypeOK
    <2>3. Unacked' = Unacked /\ stream' = stream
      BY <1>5, <1>d, Zenon DEF BeginAttempt
    <2>4. MessageCover(stream[m])'
      BY <2>1, <2>2, <2>3 DEF MessageCover, Unacked
    <2> SUFFICES ASSUME NEW t \in Tasks, t # stream[m], Open(t)'
                 PROVE  (EventCover(t) \/ MessageCover(t) \/ RetryCover(t))'
      BY <2>3, <2>4, Zenon DEF Covered
    <2>5. Open(t) /\ UNCHANGED outbox /\ (RetryCover(t) => RetryCover(t)')
      BY <2>1, Zenon DEF StartTaskAttempt, Open, RetryCover, TypeOK, StoreTypeOK
    <2>6. EventCover(t) => EventCover(t)'
      BY <1>0, <2>5, EventCoverKept, Zenon
    <2>7. MessageCover(t) => MessageCover(t)'
      BY <2>2, <2>3, MessageCoverKept, Zenon
    <2> QED
      BY <2>5, <2>6, <2>7, Zenon DEF Covered
  <1>6. CASE SkipDuplicate(w)
    <2> PICK m \in batch[w] : status[stream[m]] \in Terminal /\ Begin(w, m, "ack", 0)
      BY <1>6, Zenon DEF SkipDuplicate
    <2>1. UNCHANGED storeVars /\ Unacked' = Unacked /\ stream' = stream
      BY <1>6, <1>d, Zenon DEF SkipDuplicate
    <2> SUFFICES ASSUME NEW t \in Tasks, Open(t)'
                 PROVE  (EventCover(t) \/ MessageCover(t) \/ RetryCover(t))'
      BY Zenon DEF Covered
    <2>2. Open(t) /\ t # stream[m] /\ UNCHANGED outbox /\ (RetryCover(t) => RetryCover(t)')
      BY <2>1, Zenon DEF storeVars, Open, RetryCover, Terminal
    <2>3. \A v \in Workers : phase'[v] = "ack" =>
            (phase[v] = "ack" /\ msg'[v] = msg[v]) \/ stream[msg'[v]] # t
      BY <2>2, Zenon DEF Begin, TypeOK, WorkerTypeOK
    <2>4. EventCover(t) => EventCover(t)'
      BY <1>0, <2>2, EventCoverKept, Zenon
    <2>5. MessageCover(t) => MessageCover(t)'
      BY <2>1, <2>3, MessageCoverKept, Zenon
    <2> QED
      BY <2>2, <2>4, <2>5, Zenon DEF Covered
  <1>7. CASE RetryAttempt(w)
    <2> PICK t0 \in Tasks : t0 = TaskOf(w)
      BY <1>7, TaskOfIsTask, Zenon DEF RetryAttempt, Recorded
    <2> QED
      BY <1>0, <1>7, <1>b, Zenon DEF RetryAttempt, ScheduleTaskRetry, StoreTypeOK, Open, RetryCover
  <1>8. CASE FailAttempt(w)
    <2> PICK t0 \in Tasks : t0 = TaskOf(w)
      BY <1>8, TaskOfIsTask, Zenon DEF FailAttempt, Recorded
    <2> QED
      BY <1>0, <1>8, <1>b, Zenon DEF FailAttempt, FailTaskAttempt, StoreTypeOK, Open
  <1>9. CASE CompleteAttempt(w)
    <2> PICK t0 \in Tasks : t0 = TaskOf(w)
      BY <1>9, TaskOfIsTask, Zenon DEF CompleteAttempt, Recorded
    <2> QED
      BY <1>0, <1>9, <1>b, Zenon DEF CompleteAttempt, CompleteTaskAttempt, StoreTypeOK, Open
  <1>10. CASE CompleteAndEnqueueNext(w)
    <2> PICK t0 \in Tasks : t0 = TaskOf(w)
      BY <1>10, TaskOfIsTask, Zenon DEF CompleteAndEnqueueNext, Recorded
    <2>1. Successor(t0) \in Tasks /\ Successor(t0) # t0
      BY <1>10, SuccessorIsTask, Zenon DEF CompleteAndEnqueueNext
    <2>2. CompleteTaskAttemptAndEnqueueNextTask(t0, attempt[w])
      BY <1>10, Zenon DEF CompleteAndEnqueueNext
    <2>3. EventCover(Successor(t0))'
      BY <1>0, <2>1, <2>2, NewEventCovers, Zenon DEF CompleteTaskAttemptAndEnqueueNextTask
    <2>4. /\ \A t \in Tasks \ {t0, Successor(t0)} : status'[t] = status[t]
          /\ nextRunAt' = nextRunAt
          /\ ~Open(t0)'
      BY <1>0, <2>1, <2>2, Zenon DEF CompleteTaskAttemptAndEnqueueNextTask, StoreTypeOK, Open
    <2>5. \E S \in SUBSET Tasks : outbox' = InsertEvents(S)
      BY <2>1, <2>2, Zenon DEF CompleteTaskAttemptAndEnqueueNextTask
    <2> QED
      BY <1>10, <1>b, <2>3, <2>4, <2>5, Zenon DEF CompleteAndEnqueueNext
  <1>11. CASE EnqueueNextConflicts(w)
    BY <1>11, <1>a, <1>c, <1>d, Zenon DEF EnqueueNextConflicts
  <1>12. CASE LeavePending(w)
    BY <1>12, <1>a, <1>c, <1>d, Zenon DEF LeavePending
  <1>13. CASE CrashWorker(w)
    BY <1>13, <1>a, <1>c, <1>d, Zenon DEF CrashWorker
  <1> QED
    BY <1>1, <1>2, <1>3, <1>4, <1>5, <1>6, <1>7, <1>8, <1>9, <1>10, <1>11, <1>12, <1>13, Zenon
       DEF WorkerStep, WorkerFault

(* A step that leaves workers, stream and outbox alone keeps the covers. *)
LEMMA CoveredFrame ==
  ASSUME TypeOK, Covered, UNCHANGED <<stream, delivered, pel, phase, msg, outbox>>, NoNewMark,
         \A t \in Tasks : (Open(t)' => Open(t)) /\ (RetryCover(t) => RetryCover(t)')
  PROVE  Covered'
  <1> SUFFICES ASSUME NEW t \in Tasks, Open(t)' PROVE (EventCover(t) \/ MessageCover(t) \/ RetryCover(t))'
    BY Zenon DEF Covered
  <1>1. EventCover(t) => EventCover(t)'
    BY EventCoverKept, Zenon
  <1>2. MessageCover(t) => MessageCover(t)'
    BY Zenon DEF MessageCover, Unacked, Unread
  <1> QED
    BY <1>1, <1>2, Zenon DEF Covered

(* The same for a step that inserts events, which cover their own tasks. *)
LEMMA CoveredStoreSteps ==
  ASSUME TypeOK, Covered, UNCHANGED <<stream, delivered, pel>>, UNCHANGED <<phase, msg>>, NoNewMark,
         NEW S \in SUBSET Tasks, outbox' = InsertEvents(S),
         \A t \in Tasks \ S : Open(t)' => Open(t) /\ (RetryCover(t) => RetryCover(t)')
  PROVE  Covered'
  <1> SUFFICES ASSUME NEW t \in Tasks, Open(t)' PROVE (EventCover(t) \/ MessageCover(t) \/ RetryCover(t))'
    BY Zenon DEF Covered
  <1>1. CASE t \in S
    BY <1>1, NewEventCovers, Zenon
  <1>2. CASE t \notin S
    <2>1. EventCover(t) => EventCover(t)'
      BY EventCoverKept, Zenon
    <2>2. MessageCover(t) => MessageCover(t)'
      BY Zenon DEF MessageCover, Unacked, Unread
    <2> QED
      BY <1>2, <2>1, <2>2, Zenon DEF Covered
  <1> QED
    BY <1>1, <1>2, Zenon

(* A publisher's step leaves every open task covered. *)
LEMMA CoveredPublisherSteps ==
  ASSUME TypeOK, Covered, NEW p \in Publishers,
         PublisherStep(p) \/ PublisherFault(p), UNCHANGED workerVars
  PROVE  Covered'
  <1>0. UNCHANGED <<phase, msg>> /\ StoreTypeOK
    BY Zenon DEF workerVars, TypeOK
  <1>a. ASSUME NEW ph, NEW S, NEW ev, Goto(p, ph, S, ev), ph # "mark" PROVE NoNewMark
    BY <1>a, Zenon DEF Goto, NoNewMark, TypeOK, PublisherTypeOK
  <1>b. ASSUME NEW S, Continue(p, S) PROVE NoNewMark
    BY <1>a, <1>b, Zenon DEF Continue
  <1>c. ASSUME UNCHANGED storeVars, UNCHANGED streamVars, NEW S, Continue(p, S) PROVE Covered'
    <2>1. \A t \in Tasks : (Open(t)' => Open(t)) /\ (RetryCover(t) => RetryCover(t)')
      BY <1>c, Zenon DEF storeVars, Open, RetryCover
    <2> QED
      BY <1>0, <1>b, <1>c, <2>1, CoveredFrame, Zenon DEF storeVars, streamVars
  <1>1. CASE EnqueueRetries(p)
    <2>1. PICK S \in SUBSET DueTasks :
            /\ outbox' = InsertEvents(S)
            /\ nextRunAt' = [t \in Tasks |-> IF t \in S THEN "none" ELSE nextRunAt[t]]
            /\ UNCHANGED status
      BY <1>1, Zenon DEF EnqueueRetries, EnqueueDueTaskRetries
    <2>2. S \in SUBSET Tasks
      BY Zenon DEF DueTasks
    <2>3. \A t \in Tasks \ S : (Open(t)' => Open(t)) /\ (RetryCover(t) => RetryCover(t)')
      BY <2>1, Zenon DEF Open, RetryCover
    <2>4. NoNewMark /\ UNCHANGED <<stream, delivered, pel>>
      BY <1>1, <1>a, Zenon DEF EnqueueRetries, streamVars
    <2> QED
      BY <1>0, <2>1, <2>2, <2>3, <2>4, CoveredStoreSteps, Zenon
  <1>2. CASE ListPendingOutbox(p)
    BY <1>2, <1>c, Zenon DEF ListPendingOutbox
  <1>3. CASE Publish(p)
    <2>1. PICK ev \in listed[p] : DispatchTask(ev[1]) /\ Goto(p, "mark", listed[p] \ {ev}, ev)
      BY <1>3, Zenon DEF Publish
    <2>2. ev \in Tasks \X Nat /\ ev[1] \in Tasks
      BY DEF TypeOK, PublisherTypeOK
    <2>3. /\ Unacked' = Unacked \cup {Len(stream) + 1}
          /\ \A m \in Unacked : stream'[m] = stream[m]
          /\ stream'[Len(stream) + 1] = ev[1]
          /\ \A w \in Workers : msg[w] # Len(stream) + 1
      BY <2>1, <2>2 DEF DispatchTask, Unacked, Unread, TypeOK, WorkerTypeOK
    <2>4. MessageCover(ev[1])'
      BY <1>0, <2>3, Zenon DEF MessageCover
    <2> SUFFICES ASSUME NEW t \in Tasks, t # ev[1], Open(t)'
                 PROVE  (EventCover(t) \/ MessageCover(t) \/ RetryCover(t))'
      BY <2>4, Zenon DEF Covered
    <2>5. Open(t) /\ UNCHANGED outbox /\ (RetryCover(t) => RetryCover(t)')
      BY <1>3, Zenon DEF Publish, storeVars, Open, RetryCover
    <2>6. MessageCover(t) => MessageCover(t)'
      BY <1>0, <2>3, Zenon DEF MessageCover
    <2>7. ASSUME EventCover(t) PROVE EventCover(t)'
      <3> PICK k \in PendingEvents(t) : \A q \in Publishers : pphase[q] = "mark" => current[q] # <<t, k>>
        BY <2>7, Zenon DEF EventCover
      <3>1. k \in PendingEvents(t)'
        BY <2>5, Zenon DEF PendingEvents
      <3>2. current'[p] = ev /\ ev # <<t, k>>
        BY <2>1, <2>2 DEF Goto, TypeOK, PublisherTypeOK
      <3>3. \A q \in Publishers \ {p} : pphase'[q] = pphase[q] /\ current'[q] = current[q]
        BY <2>1, Zenon DEF Goto, TypeOK, PublisherTypeOK
      <3> QED
        BY <3>1, <3>2, <3>3, Zenon DEF EventCover
    <2> QED
      BY <2>5, <2>6, <2>7, Zenon DEF Covered
  <1>4. CASE MarkDispatched(p)
    <2>1. current[p] \in Tasks \X Nat
      BY <1>4, Zenon DEF MarkDispatched, TypeOK, PublisherTypeOK
    <2>2. PICK t0 \in Tasks, k0 \in Nat : current[p] = <<t0, k0>>
      BY <2>1
    <2>3. outbox' = [outbox EXCEPT ![t0][k0] = "dispatched"]
      BY <1>4, <2>2 DEF MarkDispatched, MarkOutboxDispatched
    <2> SUFFICES ASSUME NEW t \in Tasks, Open(t)'
                 PROVE  (EventCover(t) \/ MessageCover(t) \/ RetryCover(t))'
      BY Zenon DEF Covered
    <2>4. Open(t) /\ (RetryCover(t) => RetryCover(t)')
      BY <1>4, Zenon DEF MarkDispatched, MarkOutboxDispatched, Open, RetryCover
    <2>5. MessageCover(t) => MessageCover(t)'
      BY <1>0, <1>4, Zenon DEF MarkDispatched, streamVars, MessageCover, Unacked, Unread
    <2>6. ASSUME EventCover(t) PROVE EventCover(t)'
      <3> PICK k \in PendingEvents(t) : \A q \in Publishers : pphase[q] = "mark" => current[q] # <<t, k>>
        BY <2>6, Zenon DEF EventCover
      <3>1. <<t, k>> # <<t0, k0>>
        BY <1>4, <2>2, Zenon DEF MarkDispatched
      <3>2. k \in PendingEvents(t)'
        BY <1>0, <2>3, <3>1, MarkFacts, Zenon DEF PendingEvents
      <3>3. NoNewMark
        BY <1>4, <1>b, Zenon DEF MarkDispatched
      <3> QED
        BY <3>2, <3>3, Zenon DEF EventCover, NoNewMark
    <2> QED
      BY <2>4, <2>5, <2>6, Zenon DEF Covered
  <1>5. CASE PublishFails(p)
    BY <1>5, <1>c, Zenon DEF PublishFails
  <1>6. CASE AbortTick(p)
    BY <1>6, <1>c, Zenon DEF AbortTick
  <1> QED
    BY <1>1, <1>2, <1>3, <1>4, <1>5, <1>6, Zenon DEF PublisherStep, PublisherFault

(* Where handling is faster than ReclaimMinIdle no open task is ever lost: *)
(* for every number of workers, publishers, crashes, failed calls, lost    *)
(* replies and replays there is an event, a message or a retry time that   *)
(* will bring it back.                                                     *)
THEOREM NoTaskIsLost ==
  ASSUME ~SlowWorkers
  PROVE  Spec => []NoLostTask
  <1>1. Init => Covered
    BY Zenon DEF Init, StoreInit, Covered, Open
  <1>2. TypeOK /\ ExclusiveHolding /\ Covered /\ [Next]_vars => Covered'
    <2> SUFFICES ASSUME TypeOK, ExclusiveHolding, Covered, [Next]_vars PROVE Covered'
      BY Zenon
    <2>0. UNCHANGED publisherVars => NoNewMark
      BY Zenon DEF publisherVars, NoNewMark
    <2>1. ASSUME NEW e \in Executions, TriggerExecution(e) PROVE Covered'
      <3>1. {<<e, EntryTask>>} \in SUBSET Tasks
        BY DefinitionAssumption DEF Tasks
      <3>2. \A t \in Tasks \ {<<e, EntryTask>>} : (Open(t)' => Open(t)) /\ (RetryCover(t) => RetryCover(t)')
        BY <2>1, Zenon
           DEF TriggerExecution, CreateExecutionAndTask, Open, RetryCover, TypeOK, StoreTypeOK
      <3> QED
        BY <2>0, <2>1, <3>1, <3>2, CoveredStoreSteps, Zenon
           DEF TriggerExecution, CreateExecutionAndTask, streamVars, workerVars
    <2>2. ASSUME NEW t0 \in Tasks, ReplayTask(t0) PROVE Covered'
      <3>1. \A t \in Tasks \ {t0} : (Open(t)' => Open(t)) /\ (RetryCover(t) => RetryCover(t)')
        BY <2>2, Zenon DEF ReplayTask, ReplayDeadLetteredTask, Open, RetryCover, TypeOK, StoreTypeOK
      <3> QED
        BY <2>0, <2>2, <3>1, CoveredStoreSteps, Zenon
           DEF ReplayTask, ReplayDeadLetteredTask, streamVars, workerVars
    <2>3. ASSUME NEW t0 \in Tasks, BackoffElapses(t0), UNCHANGED <<streamVars, workerVars, publisherVars>>
          PROVE  Covered'
      <3>1. \A t \in Tasks : (Open(t)' => Open(t)) /\ (RetryCover(t) => RetryCover(t)')
        BY <2>3, Zenon DEF BackoffElapses, Open, RetryCover, TypeOK, StoreTypeOK
      <3> QED
        BY <2>0, <2>3, <3>1, CoveredFrame, Zenon DEF BackoffElapses, streamVars, workerVars
    <2>4. ASSUME UNCHANGED <<storeVars, stream, delivered, pel, workerVars, publisherVars>> PROVE Covered'
      <3>1. \A t \in Tasks : (Open(t)' => Open(t)) /\ (RetryCover(t) => RetryCover(t)')
        BY <2>4, Zenon DEF storeVars, Open, RetryCover
      <3> QED
        BY <2>0, <2>4, <3>1, CoveredFrame, Zenon DEF storeVars, workerVars
    <2>5. ASSUME NEW m \in pel, PendingTimesOut(m), UNCHANGED publisherVars PROVE Covered'
      BY <2>4, <2>5, Zenon DEF PendingTimesOut, MessageIdles
    <2>6. CASE WorkerNext
      BY <2>6, CoveredWorkerSteps, Zenon DEF WorkerNext
    <2>7. CASE PublisherNext
      BY <2>7, CoveredPublisherSteps, Zenon DEF PublisherNext
    <2>8. CASE UNCHANGED vars
      BY <2>4, <2>8, Zenon DEF vars, streamVars
    <2> QED
      BY <2>1, <2>2, <2>3, <2>5, <2>6, <2>7, <2>8, Zenon DEF Next, Api, Timer
  <1>3. Covered => NoLostTask
    BY Zenon DEF Covered, NoLostTask, EventCover, MessageCover, RetryCover
  <1> QED
    BY <1>1, <1>2, <1>3, TypeCorrect, ExclusiveHoldingHolds, PTL DEF Spec

-----------------------------------------------------------------------------
(* Every message a worker has is pending and in no other hand. *)
Holding ==
  \A w \in Workers : /\ Held(w) \subseteq pel /\ Apart(w)
                     /\ \A v \in Workers \ {w} : Held(v) \cap Held(w) = {}

(* With one worker that is so however slow it is: what goes idle in its    *)
(* hands no one else can claim.                                            *)
LEMMA HoldingWorkerSteps ==
  ASSUME \A v, w \in Workers : v = w, TypeOK, Holding, NEW w \in Workers, WorkerStep(w) \/ WorkerFault(w)
  PROVE  Holding'
  <1>0. Held(w) \subseteq pel /\ Apart(w) /\ batch[w] \subseteq Held(w)
    BY Zenon DEF Holding, Held
  <1>a. ASSUME Held(w)' \subseteq pel', Apart(w)' PROVE Holding'
    BY <1>a, Zenon DEF Holding
  <1>b. ASSUME NEW R \in SUBSET Held(w), Advance(w, R), pel' = pel PROVE Holding'
    BY <1>0, <1>a, <1>b, HeldMoves, Zenon
  <1>1. CASE ClaimPending(w)
    <2> PICK S \in SUBSET idle : AutoClaim(S) /\ Receive(w, IF S = {} THEN "read" ELSE "batch", S)
      BY <1>1, Zenon DEF ClaimPending
    <2>1. Held(w)' = S /\ Apart(w)'
      BY HeldMoves, Zenon
    <2> QED
      BY <1>a, <2>1, Zenon DEF AutoClaim, TypeOK, WorkerTypeOK
  <1>2. CASE ReadNew(w)
    <2>1. Held(w)' = {delivered + 1} /\ Apart(w)'
      BY <1>2, HeldMoves, Zenon DEF ReadNew
    <2> QED
      BY <1>2, <1>a, <2>1, Zenon DEF ReadNew, ReadNext
  <1>3. CASE ReadTimesOut(w)
    <2>1. Held(w)' = {} /\ Apart(w)'
      BY <1>3, HeldMoves, Zenon DEF ReadTimesOut
    <2> QED
      BY <1>a, <2>1, Zenon
  <1>4. CASE Ack(w)
    <2>1. Held(w)' = batch[w] /\ Apart(w)'
      BY <1>4, HeldMoves, Zenon DEF Ack
    <2>2. msg[w] \notin batch[w] /\ pel' = pel \ {msg[w]}
      BY <1>0, <1>4, Zenon DEF Ack, XAck, Apart
    <2> QED
      BY <1>0, <1>a, <2>1, <2>2, Zenon
  <1>5. CASE BeginAttempt(w) \/ SkipDuplicate(w)
    <2>1. PICK m \in batch[w] : \E n : Begin(w, m, "running", n) \/ Begin(w, m, "ack", n)
      BY <1>5, Zenon DEF BeginAttempt, SkipDuplicate
    <2>2. Held(w)' = batch[w] /\ Apart(w)'
      BY <2>1, HeldMoves, Zenon
    <2> QED
      BY <1>0, <1>5, <1>a, <2>2, Zenon DEF BeginAttempt, SkipDuplicate, streamVars
  <1>6. CASE RetryAttempt(w) \/ FailAttempt(w) \/ CompleteAttempt(w) \/ CompleteAndEnqueueNext(w)
    <2>1. Recorded(w)
      BY <1>6, Zenon DEF RetryAttempt, FailAttempt, CompleteAttempt, CompleteAndEnqueueNext
    <2>2. Held(w)' = Held(w) /\ Apart(w)' /\ pel' = pel
      BY <1>0, <2>1, HeldMoves, Zenon DEF Recorded, streamVars
    <2> QED
      BY <1>0, <1>a, <2>2, Zenon
  <1>7. CASE EnqueueNextConflicts(w) \/ WorkerFault(w)
    BY <1>0, <1>7, <1>b, Zenon DEF EnqueueNextConflicts, WorkerFault, LeavePending, CrashWorker, streamVars
  <1> QED
    BY <1>1, <1>2, <1>3, <1>4, <1>5, <1>6, <1>7, Zenon DEF WorkerStep

LEMMA HoldingHolds ==
  ASSUME ~SlowWorkers \/ \A v, w \in Workers : v = w
  PROVE  Spec => []Holding
  <1>1. CASE ~SlowWorkers
    <2>1. ExclusiveHolding => Holding
      BY <1>1, Zenon DEF ExclusiveHolding, Holding, Apart
    <2> QED
      BY <2>1, ExclusiveHoldingHolds, PTL
  <1>2. CASE \A v, w \in Workers : v = w
    <2>1. Init => Holding
      BY Zenon DEF Init, WorkerInit, Holding, Held, Apart
    <2>2. TypeOK /\ Holding /\ [Next]_vars => Holding'
      <3> SUFFICES ASSUME TypeOK, Holding, [Next]_vars PROVE Holding'
        BY Zenon
      <3>1. CASE WorkerNext
        BY <1>2, <3>1, HoldingWorkerSteps, Zenon DEF WorkerNext
      <3>2. CASE Api \/ Timer \/ PublisherNext \/ UNCHANGED vars
        <4>1. UNCHANGED <<phase, batch, msg>>
          BY <3>2, Zenon DEF Api, Timer, TriggerExecution, ReplayTask, PendingTimesOut, PublisherNext, workerVars, vars
        <4>2. CASE Api \/ Timer \/ UNCHANGED vars
          BY <4>1, <4>2, Zenon DEF Api, Timer, TriggerExecution, ReplayTask, PendingTimesOut, MessageIdles, streamVars, vars,
                            Holding, Held, Apart
        <4>3. CASE PublisherNext
          <5>1. pel' = pel
            BY <4>3, Zenon DEF PublisherNext, PublisherStep, PublisherFault, EnqueueRetries, ListPendingOutbox,
                        Publish, MarkDispatched, PublishFails, AbortTick, DispatchTask, streamVars
          <5> QED
            BY <4>1, <5>1, Zenon DEF Holding, Held, Apart
        <4> QED
          BY <3>2, <4>2, <4>3, Zenon
      <3> QED
        BY <3>1, <3>2, Zenon DEF Next
    <2> QED
      BY <2>1, <2>2, TypeCorrect, PTL DEF Spec
  <1> QED
    BY <1>1, <1>2, Zenon

-----------------------------------------------------------------------------
(* What a publisher has listed is still to be dispatched, and the event it *)
(* has just published is not listed any more.                              *)
Listing ==
  \A p \in Publishers : /\ \A ev \in listed[p] : ev[2] \in PendingEvents(ev[1])
                        /\ pphase[p] = "mark" => current[p] \notin listed[p]

(* With one publisher that is so, because only it dispatches events. *)
LEMMA ListingSteps ==
  ASSUME \A p, q \in Publishers : p = q, TypeOK, Listing, [Next]_vars
  PROVE  Listing'
  <1>0. /\ StoreTypeOK
        /\ \A p \in Publishers : \A ev \in listed[p] : ev \in Tasks \X Nat /\ ev[1] \in Tasks
    BY DEF TypeOK, PublisherTypeOK
  <1>1. ASSUME UNCHANGED publisherVars, UNCHANGED outbox \/ \E S \in SUBSET Tasks : outbox' = InsertEvents(S)
        PROVE  Listing'
    <2>1. ASSUME NEW t \in Tasks, NEW k \in PendingEvents(t) PROVE k \in PendingEvents(t)'
      <3>1. CASE UNCHANGED outbox
        BY <3>1, Zenon DEF PendingEvents
      <3>2. ASSUME NEW S \in SUBSET Tasks, outbox' = InsertEvents(S) PROVE k \in PendingEvents(t)'
        <4>1. PICK n \in Nat, n2 \in Nat :
                /\ DOMAIN outbox[t] = 1 .. n /\ DOMAIN outbox'[t] = 1 .. n2 /\ n2 >= n
                /\ \A i \in 1 .. n : outbox'[t][i] = outbox[t][i]
          BY <1>0, <3>2, InsertEventsFacts, Zenon
        <4>2. k \in 1 .. n /\ outbox[t][k] = "pending"
          BY <4>1, Zenon DEF PendingEvents
        <4>3. k \in 1 .. n2
          BY <4>1, <4>2
        <4> QED
          BY <4>1, <4>2, <4>3, Zenon DEF PendingEvents
      <3> QED
        BY <1>1, <3>1, <3>2, Zenon
    <2> QED
      BY <1>0, <1>1, <2>1, Zenon DEF Listing, publisherVars
  <1>2. CASE Api
    <2>1. ASSUME NEW e \in Executions PROVE {<<e, EntryTask>>} \in SUBSET Tasks
      BY DefinitionAssumption DEF Tasks
    <2> QED
      BY <1>1, <1>2, <2>1, Zenon
         DEF Api, TriggerExecution, ReplayTask, CreateExecutionAndTask, ReplayDeadLetteredTask
  <1>3. CASE Timer \/ UNCHANGED vars
    BY <1>1, <1>3, Zenon DEF Timer, BackoffElapses, PendingTimesOut, storeVars, vars
  <1>4. CASE WorkerNext
    <2> PICK w \in Workers : WorkerStep(w) \/ WorkerFault(w)
      BY <1>4, Zenon DEF WorkerNext
    <2>1. CASE CompleteAndEnqueueNext(w)
      <3>1. phase[w] = "running" /\ NextTask[TaskOf(w)[2]] # NoTask /\ outbox' = InsertEvents({Successor(TaskOf(w))})
        BY <2>1, Zenon DEF CompleteAndEnqueueNext, Recorded, CompleteTaskAttemptAndEnqueueNextTask
      <3>2. {Successor(TaskOf(w))} \in SUBSET Tasks
        BY <3>1, TaskOfIsTask, SuccessorIsTask, Zenon
      <3> QED
        BY <1>1, <1>4, <3>1, <3>2, Zenon DEF WorkerNext
    <2>2. CASE ~CompleteAndEnqueueNext(w)
      <3>1. outbox' = outbox
        BY <2>2, Zenon DEF WorkerStep, WorkerFault, ClaimPending, ReadNew, ReadTimesOut, Ack, BeginAttempt, SkipDuplicate,
                    RetryAttempt, FailAttempt, CompleteAttempt, EnqueueNextConflicts, LeavePending, CrashWorker,
                    StartTaskAttempt, ScheduleTaskRetry, FailTaskAttempt, CompleteTaskAttempt, storeVars
      <3> QED
        BY <1>1, <1>4, <3>1, Zenon DEF WorkerNext
    <2> QED
      BY <2>1, <2>2, Zenon
  <1>5. CASE PublisherNext
    <2> PICK p \in Publishers : PublisherStep(p) \/ PublisherFault(p)
      BY <1>5, Zenon DEF PublisherNext
    <2>a. ASSUME NEW ph, NEW S, NEW ev, Goto(p, ph, S, ev),
                 \A x \in S : x[2] \in PendingEvents(x[1])', ph = "mark" => ev \notin S
          PROVE  Listing'
      BY <2>a, Zenon DEF Goto, Listing, TypeOK, PublisherTypeOK
    <2>b. ASSUME NEW S, Continue(p, S), \A x \in S : x[2] \in PendingEvents(x[1])' PROVE Listing'
      BY <2>a, <2>b, Zenon DEF Continue
    <2>1. CASE EnqueueRetries(p)
      BY <2>1, <2>a DEF EnqueueRetries
    <2>2. CASE ListPendingOutbox(p)
      <3>1. PICK S \in SUBSET AllPending : Continue(p, S)
        BY <2>2, Zenon DEF ListPendingOutbox
      <3>2. \A x \in S : x[2] \in PendingEvents(x[1])
        BY DEF AllPending
      <3>3. outbox' = outbox
        BY <2>2, Zenon DEF ListPendingOutbox, storeVars
      <3> QED
        BY <2>b, <3>1, <3>2, <3>3, Zenon DEF PendingEvents
    <2>3. CASE Publish(p)
      <3>1. PICK ev \in listed[p] : Goto(p, "mark", listed[p] \ {ev}, ev)
        BY <2>3, Zenon DEF Publish
      <3>2. outbox' = outbox
        BY <2>3, Zenon DEF Publish, storeVars
      <3> QED
        BY <2>a, <3>1, <3>2 DEF Listing, PendingEvents
    <2>4. CASE MarkDispatched(p)
      <3>1. current[p] \in Tasks \X Nat /\ current[p] \notin listed[p]
        BY <2>4, Zenon DEF MarkDispatched, TypeOK, PublisherTypeOK, Listing
      <3>2. PICK t \in Tasks, k \in Nat : current[p] = <<t, k>>
        BY <3>1
      <3>3. outbox' = [outbox EXCEPT ![t][k] = "dispatched"]
        BY <2>4, <3>2, SMTT(30) DEF MarkDispatched, MarkOutboxDispatched
      <3>4. ASSUME NEW x \in listed[p] PROVE x[2] \in PendingEvents(x[1])'
        <4>1. x[1] \in Tasks /\ x = <<x[1], x[2]>> /\ x # <<t, k>> /\ x[2] \in PendingEvents(x[1])
          BY <1>0, <3>1, <3>2, <3>4 DEF Listing
        <4> QED
          BY <1>0, <3>3, <4>1, MarkFacts DEF PendingEvents
      <3> QED
        BY <2>4, <2>b, <3>4, Zenon DEF MarkDispatched
    <2>5. CASE PublisherFault(p)
      <3>1. PICK S \in SUBSET listed[p] : Continue(p, S)
        BY <2>5, Zenon DEF PublisherFault, PublishFails, AbortTick
      <3>2. outbox' = outbox
        BY <2>5, Zenon DEF PublisherFault, PublishFails, AbortTick, storeVars
      <3> QED
        BY <2>b, <3>1, <3>2, Zenon DEF Listing, PendingEvents
    <2> QED
      BY <2>1, <2>2, <2>3, <2>4, <2>5, Zenon DEF PublisherStep
  <1> QED
    BY <1>2, <1>3, <1>4, <1>5, Zenon DEF Next

LEMMA ListingHolds ==
  ASSUME \A p, q \in Publishers : p = q
  PROVE  Spec => []Listing
  <1>1. Init => Listing
    BY Zenon DEF Init, PublisherInit, Listing
  <1>2. TypeOK /\ Listing /\ [Next]_vars => Listing'
    BY ListingSteps, Zenon
  <1> QED
    BY <1>1, <1>2, TypeCorrect, PTL DEF Spec

-----------------------------------------------------------------------------
(* What will still bring task t to a worker: events that are not just      *)
(* being marked, messages that are not just being acknowledged, the retry  *)
(* time.                                                                   *)
EventsLeft(t) ==
  {k \in PendingEvents(t) : \A p \in Publishers : pphase[p] = "mark" => current[p] # <<t, k>>}

MessagesLeft(t) ==
  {m \in Unacked : stream[m] = t /\ \A w \in Workers : phase[w] = "ack" => msg[w] # m}

Carriers(t) ==
  {c \in {"event", "message", "retry"} \X Nat :
     \/ c[1] = "event" /\ c[2] \in EventsLeft(t)
     \/ c[1] = "message" /\ c[2] \in MessagesLeft(t)
     \/ c = <<"retry", 0>> /\ RetryCover(t)}

(* Those of them that no worker is running. *)
Waiting(t) ==
  {c \in Carriers(t) : \A w \in Workers : phase[w] = "running" => c # <<"message", msg[w]>>}

Faults == workerFaults + publisherFaults

(* What a step may do to the carriers of t, and to its attempts. *)
Same(t) == Len(attempts'[t]) = Len(attempts[t]) /\ (Open(t)' <=> Open(t))

Quiet(t) == Same(t) /\ Carriers(t)' \subseteq Carriers(t) /\ Waiting(t)' \subseteq Waiting(t)

Passed(t) ==
  /\ Same(t)
  /\ \E x \in Waiting(t) : \E y : /\ Carriers(t)' \subseteq (Carriers(t) \ {x}) \cup {y}
                                  /\ Waiting(t)' \subseteq (Waiting(t) \ {x}) \cup {y}

Came(t) ==
  /\ ~Open(t) /\ Open(t)' /\ attempts'[t] = attempts[t]
  /\ (Carriers(t) = {} /\ attempts[t] = <<>>) \/ replays' = replays + 1
  /\ \E y : Carriers(t)' \subseteq Carriers(t) \cup {y} /\ Waiting(t)' \subseteq Waiting(t) \cup {y}

Began(t) ==
  /\ Open(t) /\ Open(t)' /\ Len(attempts'[t]) = Len(attempts[t]) + 1
  /\ Carriers(t)' \subseteq Carriers(t)
  /\ \E x \in Waiting(t) : Waiting(t)' \subseteq Waiting(t) \ {x}

Ended(t) ==
  /\ Len(attempts'[t]) = Len(attempts[t])
  /\ \E x \in Carriers(t) \ Waiting(t) : Carriers(t)' \subseteq Carriers(t) \ {x}
  /\ Waiting(t)' \subseteq Waiting(t)

Again(t) ==
  /\ Len(attempts'[t]) = Len(attempts[t]) /\ Open(t)'
  /\ \E w \in Workers : /\ phase[w] = "running" /\ TaskOf(w) = t
                        /\ attempt[w] < AttemptBudget(t[2])
  /\ \E x \in Carriers(t) \ Waiting(t) : \E y : /\ Carriers(t)' \subseteq (Carriers(t) \ {x}) \cup {y}
                                                /\ Waiting(t)' \subseteq Waiting(t) \cup {y}

Slipped(t) ==
  /\ Same(t) /\ Faults' = Faults + 1
  /\ \E y : Carriers(t)' \subseteq Carriers(t) \cup {y} /\ Waiting(t)' \subseteq Waiting(t) \cup {y}

Conflicted(t) ==
  /\ Same(t) /\ Carriers(t)' \subseteq Carriers(t)
  /\ \E w \in Workers : EnqueueNextConflicts(w) /\ TaskOf(w) = t

CarrierStep(t) ==
  Quiet(t) \/ Passed(t) \/ Came(t) \/ Began(t) \/ Ended(t) \/ Again(t) \/ Slipped(t) \/ Conflicted(t)

CountersGrow == replays' >= replays /\ Faults' >= Faults

(* How carriers and waiting carriers follow from their three parts. *)
LEMMA CarriersShrink ==
  ASSUME NEW t, EventsLeft(t)' \subseteq EventsLeft(t), MessagesLeft(t)' \subseteq MessagesLeft(t),
         RetryCover(t)' => RetryCover(t)
  PROVE  Carriers(t)' \subseteq Carriers(t)
  BY Zenon DEF Carriers

LEMMA CarriersMove ==
  ASSUME NEW t, NEW y,
         \A k \in EventsLeft(t)' : k \in EventsLeft(t) \/ y = <<"event", k>>,
         \A m \in MessagesLeft(t)' : m \in MessagesLeft(t) \/ y = <<"message", m>>,
         RetryCover(t)' => RetryCover(t) \/ y = <<"retry", 0>>
  PROVE  Carriers(t)' \subseteq Carriers(t) \cup {y}
  <1> SUFFICES ASSUME NEW c \in Carriers(t)', c # y PROVE c \in Carriers(t)
    BY Zenon
  <1>1. PICK a \in {"event", "message", "retry"}, n \in Nat : c = <<a, n>>
    BY DEF Carriers
  <1> QED
    BY <1>1 DEF Carriers

(* Running workers go on, but for those whose message is given up or is y. *)
RunsStay == \A w \in Workers : phase[w] = "running" => phase'[w] = "running" /\ msg'[w] = msg[w]

LEMMA WaitingMove ==
  ASSUME NEW t, NEW y, Carriers(t)' \subseteq Carriers(t) \cup {y},
         \A w \in Workers : phase[w] = "running" =>
           \/ phase'[w] = "running" /\ msg'[w] = msg[w]
           \/ <<"message", msg[w]>> \notin Carriers(t)'
           \/ <<"message", msg[w]>> = y
  PROVE  Waiting(t)' \subseteq Waiting(t) \cup {y}
  BY Zenon DEF Waiting

LEMMA WaitingShrink ==
  ASSUME NEW t, Carriers(t)' \subseteq Carriers(t),
         \A w \in Workers : phase[w] = "running" =>
           \/ phase'[w] = "running" /\ msg'[w] = msg[w]
           \/ <<"message", msg[w]>> \notin Carriers(t)'
  PROVE  Waiting(t)' \subseteq Waiting(t)
  BY Zenon DEF Waiting

(* The parts after steps that leave the processes where they are. *)
MarksStay == \A p \in Publishers : pphase[p] = "mark" => pphase'[p] = "mark" /\ current'[p] = current[p]

AcksStay == \A w \in Workers : phase[w] = "ack" => phase'[w] = "ack" /\ msg'[w] = msg[w]

LEMMA EventsFrame ==
  ASSUME NEW t \in Tasks, MarksStay, outbox'[t] = outbox[t]
  PROVE  EventsLeft(t)' \subseteq EventsLeft(t)
  BY Zenon DEF EventsLeft, PendingEvents, MarksStay

LEMMA EventsInsert ==
  ASSUME StoreTypeOK, NEW t \in Tasks, MarksStay, NEW S \in SUBSET Tasks, outbox' = InsertEvents(S)
  PROVE  /\ t \notin S => EventsLeft(t)' \subseteq EventsLeft(t)
         /\ \A k \in EventsLeft(t)' : k \in EventsLeft(t) \/ k = Len(outbox[t]) + 1
  <1>1. t \notin S => outbox'[t] = outbox[t]
    BY Zenon DEF InsertEvents
  <1>2. ASSUME NEW k \in EventsLeft(t)', t \in S, k # Len(outbox[t]) + 1 PROVE k \in EventsLeft(t)
    <2>1. k \in PendingEvents(t)'
      BY Zenon DEF EventsLeft
    <2>2. k \in 1 .. Len(outbox[t]) /\ outbox[t][k] = "pending" /\ DOMAIN outbox[t] = 1 .. Len(outbox[t])
      BY <1>2, <2>1, InsertEventsFacts DEF PendingEvents
    <2> QED
      BY <2>2, Zenon DEF EventsLeft, PendingEvents, MarksStay
  <1> QED
    BY <1>1, <1>2, EventsFrame, Zenon

LEMMA MessagesFrame ==
  ASSUME NEW t \in Tasks, AcksStay, Unacked' \subseteq Unacked, stream' = stream
  PROVE  MessagesLeft(t)' \subseteq MessagesLeft(t)
  BY Zenon DEF MessagesLeft, AcksStay

LEMMA QuietFrame ==
  ASSUME NEW t \in Tasks, EventsLeft(t)' \subseteq EventsLeft(t), MessagesLeft(t)' \subseteq MessagesLeft(t),
         RetryCover(t)' => RetryCover(t), status'[t] = status[t], attempts'[t] = attempts[t], RunsStay
  PROVE  Quiet(t)
  BY CarriersShrink, WaitingShrink, Zenon DEF Quiet, Same, Open, RunsStay

(* A task without a row has no carriers. *)
LEMMA FreshUncarried ==
  ASSUME TypeOK, KnownTasks, FreshTasks, NEW t \in Tasks, status[t] = "none"
  PROVE  Carriers(t) = {} /\ attempts[t] = <<>> /\ nextRunAt[t] = "none" /\ ~Open(t)
  <1>1. EventsLeft(t) = {}
    BY DEF KnownTasks, EventsLeft, PendingEvents, TypeOK, StoreTypeOK
  <1>2. \A m \in Unacked : m \in 1 .. Len(stream)
    BY DEF TypeOK, WorkerTypeOK, Unacked, Unread
  <1>3. MessagesLeft(t) = {} /\ ~RetryCover(t)
    BY <1>2, Zenon DEF KnownTasks, MessagesLeft, RetryCover
  <1> QED
    BY <1>1, <1>3, Zenon DEF Carriers, FreshTasks, Open

(* An event is inserted for t, which has no retry time. *)
LEMMA EventComes ==
  ASSUME StoreTypeOK, NEW t \in Tasks, NEW S \in SUBSET Tasks, outbox' = InsertEvents(S), MarksStay,
         MessagesLeft(t)' \subseteq MessagesLeft(t), nextRunAt'[t] = "none", RunsStay
  PROVE  \E y : /\ Carriers(t)' \subseteq Carriers(t) \cup {y} /\ Waiting(t)' \subseteq Waiting(t) \cup {y}
                /\ <<"retry", 0>> \notin Carriers(t)' /\ y # <<"retry", 0>>
  <1>1. PICK y : y = <<"event", Len(outbox[t]) + 1>>
    BY Zenon
  <1>2. \A k \in EventsLeft(t)' : k \in EventsLeft(t) \/ y = <<"event", k>>
    BY <1>1, EventsInsert, Zenon
  <1>3. ~RetryCover(t)'
    BY Zenon DEF RetryCover
  <1>4. Carriers(t)' \subseteq Carriers(t) \cup {y}
    BY <1>2, <1>3, CarriersMove, Zenon
  <1>5. Waiting(t)' \subseteq Waiting(t) \cup {y}
    BY <1>4, WaitingMove, Zenon DEF RunsStay
  <1>6. <<"retry", 0>> \notin Carriers(t)' /\ y # <<"retry", 0>>
    BY <1>1, <1>3, Zenon DEF Carriers
  <1> QED
    BY <1>4, <1>5, <1>6, Zenon

(* The requests of the API and the clock. *)
LEMMA CarrierOtherSteps ==
  ASSUME TypeOK, KnownTasks, FreshTasks, NEW t \in Tasks, Api \/ Timer \/ UNCHANGED vars
  PROVE  CarrierStep(t) /\ CountersGrow
  <1>0. StoreTypeOK /\ replays \in Nat /\ Faults \in Nat
    BY DEF TypeOK, StoreTypeOK, WorkerTypeOK, PublisherTypeOK, Faults
  <1>1. /\ UNCHANGED <<stream, delivered, pel, phase, msg, pphase, current, workerFaults, publisherFaults>>
        /\ attempts' = attempts
    BY Zenon DEF Api, Timer, TriggerExecution, ReplayTask, BackoffElapses, PendingTimesOut, MessageIdles,
                 CreateExecutionAndTask, ReplayDeadLetteredTask, storeVars, streamVars, workerVars, publisherVars, vars
  <1>2. MarksStay /\ AcksStay /\ RunsStay /\ Unacked' = Unacked /\ Faults' = Faults
    BY <1>1, Zenon DEF MarksStay, AcksStay, RunsStay, Unacked, Unread, Faults
  <1>3. MessagesLeft(t)' \subseteq MessagesLeft(t)
    BY <1>1, <1>2, MessagesFrame, Zenon
  <1>a. ASSUME outbox'[t] = outbox[t], status'[t] = status[t], nextRunAt[t] = "none" => nextRunAt'[t] = "none",
               replays' = replays
        PROVE  CarrierStep(t) /\ CountersGrow
    <2>1. EventsLeft(t)' \subseteq EventsLeft(t)
      BY <1>2, <1>a, EventsFrame, Zenon
    <2>2. Quiet(t)
      BY <1>1, <1>2, <1>3, <1>a, <2>1, QuietFrame, Zenon DEF RetryCover
    <2> QED
      BY <1>0, <1>2, <1>a, <2>2 DEF CarrierStep, CountersGrow
  <1>4. ASSUME NEW e \in Executions, CreateExecutionAndTask(e) PROVE CarrierStep(t) /\ CountersGrow
    <2>1. PICK t0 : t0 = <<e, EntryTask>>
      BY Zenon
    <2>2. t0 \in Tasks /\ t0[1] = e /\ {t0} \in SUBSET Tasks
      BY <2>1, DefinitionAssumption DEF Tasks
    <2>3. /\ exec[e] = "none" /\ status' = [status EXCEPT ![t0] = "pending"]
          /\ outbox' = InsertEvents({t0}) /\ nextRunAt' = nextRunAt /\ replays' = replays
      BY <1>4, <2>1, Zenon DEF CreateExecutionAndTask
    <2>4. CASE t # t0
      BY <1>0, <1>a, <2>2, <2>3, <2>4, Zenon DEF StoreTypeOK, InsertEvents
    <2>5. CASE t = t0
      <3>1. status[t] = "none" /\ status'[t] = "pending"
        BY <1>0, <2>2, <2>3, <2>5, Zenon DEF FreshTasks, StoreTypeOK
      <3>2. Carriers(t) = {} /\ attempts[t] = <<>> /\ nextRunAt[t] = "none" /\ ~Open(t)
        BY <3>1, FreshUncarried, Zenon
      <3>3. \E y : Carriers(t)' \subseteq Carriers(t) \cup {y} /\ Waiting(t)' \subseteq Waiting(t) \cup {y}
        BY <1>0, <1>2, <1>3, <2>2, <2>3, <2>5, <3>2, EventComes, Zenon
      <3>4. Came(t)
        BY <1>1, <3>1, <3>2, <3>3, Zenon DEF Came, Open
      <3> QED
        BY <1>0, <1>2, <2>3, <3>4 DEF CarrierStep, CountersGrow
    <2> QED
      BY <2>4, <2>5, Zenon
  <1>5. ASSUME NEW t0 \in Tasks, ReplayDeadLetteredTask(t0) PROVE CarrierStep(t) /\ CountersGrow
    <2>1. /\ status[t0] = "dead_lettered" /\ status' = [status EXCEPT ![t0] = "pending"]
          /\ nextRunAt' = [nextRunAt EXCEPT ![t0] = "none"]
          /\ outbox' = InsertEvents({t0}) /\ replays' = replays + 1
      BY <1>5, Zenon DEF ReplayDeadLetteredTask
    <2>2. CountersGrow
      BY <1>0, <1>2, <2>1 DEF CountersGrow
    <2>3. CASE t # t0
      <3>1. outbox'[t] = outbox[t] /\ status'[t] = status[t] /\ nextRunAt'[t] = nextRunAt[t]
        BY <1>0, <2>1, <2>3, Zenon DEF StoreTypeOK, InsertEvents
      <3>2. EventsLeft(t)' \subseteq EventsLeft(t)
        BY <1>2, <3>1, EventsFrame, Zenon
      <3>3. Quiet(t)
        BY <1>1, <1>2, <1>3, <3>1, <3>2, QuietFrame, Zenon DEF RetryCover
      <3> QED
        BY <2>2, <3>3, Zenon DEF CarrierStep
    <2>4. CASE t = t0
      <3>1. nextRunAt'[t] = "none" /\ status'[t] = "pending"
        BY <1>0, <2>1, <2>4, Zenon DEF StoreTypeOK
      <3>2. \E y : Carriers(t)' \subseteq Carriers(t) \cup {y} /\ Waiting(t)' \subseteq Waiting(t) \cup {y}
        BY <1>0, <1>2, <1>3, <2>1, <2>4, <3>1, EventComes, SMTT(30)
      <3>3. Came(t)
        BY <1>1, <2>1, <2>4, <3>1, <3>2, Zenon DEF Came, Open
      <3> QED
        BY <2>2, <3>3, Zenon DEF CarrierStep
    <2> QED
      BY <2>3, <2>4, Zenon
  <1>6. CASE Timer \/ UNCHANGED vars
    <2>1. UNCHANGED <<outbox, status, replays>> /\ (nextRunAt[t] = "none" => nextRunAt'[t] = "none")
      BY <1>0, <1>6, Zenon DEF Timer, BackoffElapses, PendingTimesOut, storeVars, vars, StoreTypeOK
    <2> QED
      BY <1>a, <2>1, Zenon
  <1> QED
    BY <1>4, <1>5, <1>6, Zenon DEF Api, TriggerExecution, ReplayTask

(* The publisher hands carriers on: a retry time becomes an event, an      *)
(* event a message.  Only a failure between XADD and the mark leaves both. *)
LEMMA CarrierPublisherSteps ==
  ASSUME \A p, q \in Publishers : p = q, TypeOK, Listing, NEW t \in Tasks, PublisherNext
  PROVE  CarrierStep(t) /\ CountersGrow
  <1> PICK p \in Publishers : PublisherStep(p) \/ PublisherFault(p)
    BY Zenon DEF PublisherNext
  <1>0. /\ StoreTypeOK /\ replays \in Nat /\ workerFaults \in Nat /\ publisherFaults \in Nat
        /\ stream \in Seq(Tasks)
        /\ pphase \in [Publishers -> {"tick", "list", "send", "mark"}]
    BY Zenon DEF TypeOK, StoreTypeOK, WorkerTypeOK, PublisherTypeOK
  <1>1. /\ UNCHANGED <<phase, msg, workerFaults>> /\ AcksStay /\ RunsStay
    BY Zenon DEF PublisherNext, workerVars, AcksStay, RunsStay
  <1>2. /\ UNCHANGED <<delivered, pel, status, attempts, replays>>
    BY Zenon DEF PublisherStep, PublisherFault, EnqueueRetries, EnqueueDueTaskRetries, ListPendingOutbox, Publish,
                 DispatchTask, MarkDispatched, MarkOutboxDispatched, PublishFails, AbortTick, storeVars, streamVars
  <1>3. Same(t)
    BY <1>2, Zenon DEF Same, Open
  <1>a. ASSUME UNCHANGED streamVars PROVE MessagesLeft(t)' \subseteq MessagesLeft(t)
    <2>1. Unacked' = Unacked /\ stream' = stream
      BY <1>a, Zenon DEF streamVars, Unacked, Unread
    <2> QED
      BY <1>1, <2>1, MessagesFrame, Zenon
  <1>b. ASSUME NEW ph, NEW S, NEW ev, Goto(p, ph, S, ev), pphase[p] # "mark" PROVE MarksStay
    BY <1>0, <1>b, Zenon DEF Goto, MarksStay
  <1>c. ASSUME publisherFaults' = publisherFaults PROVE CountersGrow
    BY <1>0, <1>1, <1>2, <1>c DEF CountersGrow, Faults
  <1>d. ASSUME EventsLeft(t)' \subseteq EventsLeft(t), MessagesLeft(t)' \subseteq MessagesLeft(t),
               nextRunAt[t] = "none" => nextRunAt'[t] = "none", publisherFaults' = publisherFaults
        PROVE  CarrierStep(t) /\ CountersGrow
    <2>1. RetryCover(t)' => RetryCover(t)
      BY <1>2, <1>d, Zenon DEF RetryCover
    <2>2. Quiet(t)
      BY <1>1, <1>2, <1>d, <2>1, QuietFrame, Zenon
    <2> QED
      BY <1>c, <1>d, <2>2, Zenon DEF CarrierStep
  <1>4. CASE EnqueueRetries(p)
    <2>1. PICK S \in SUBSET DueTasks :
            /\ outbox' = InsertEvents(S)
            /\ nextRunAt' = [u \in Tasks |-> IF u \in S THEN "none" ELSE nextRunAt[u]]
      BY <1>4, Zenon DEF EnqueueRetries, EnqueueDueTaskRetries
    <2>2. S \in SUBSET Tasks
      BY Zenon DEF DueTasks
    <2>3. MarksStay /\ MessagesLeft(t)' \subseteq MessagesLeft(t) /\ publisherFaults' = publisherFaults
      BY <1>4, <1>a, <1>b, Zenon DEF EnqueueRetries
    <2>4. CASE t \notin S
      <3>1. EventsLeft(t)' \subseteq EventsLeft(t)
        BY <1>0, <2>1, <2>2, <2>3, <2>4, EventsInsert, Zenon
      <3> QED
        BY <1>d, <2>1, <2>3, <2>4, <3>1, Zenon
    <2>5. CASE t \in S
      <3>1. nextRunAt'[t] = "none"
        BY <2>1, <2>5, Zenon
      <3>2. PICK y : /\ Carriers(t)' \subseteq Carriers(t) \cup {y} /\ Waiting(t)' \subseteq Waiting(t) \cup {y}
                     /\ <<"retry", 0>> \notin Carriers(t)'
        BY <1>0, <1>1, <2>1, <2>2, <2>3, <3>1, EventComes, Zenon
      <3>3. RetryCover(t)
        BY <2>5, Zenon DEF DueTasks, RetryCover
      <3>4. <<"retry", 0>> \in Waiting(t)
        BY <3>3, Zenon DEF Carriers, Waiting
      <3>5. <<"retry", 0>> \notin Waiting(t)'
        BY <3>2, Zenon DEF Waiting
      <3>6. Passed(t)
        BY <1>3, <3>2, <3>4, <3>5 DEF Passed
      <3> QED
        BY <1>c, <2>3, <3>6, Zenon DEF CarrierStep
    <2> QED
      BY <2>4, <2>5, Zenon
  <1>5. CASE ListPendingOutbox(p)
    <2>1. MarksStay
      <3>1. pphase[p] # "mark" /\ \E S : Continue(p, S)
        BY <1>5, Zenon DEF ListPendingOutbox
      <3> QED
        BY <1>b, <3>1, Zenon DEF Continue
    <2>2. /\ UNCHANGED <<outbox, nextRunAt, publisherFaults>>
          /\ MessagesLeft(t)' \subseteq MessagesLeft(t)
      BY <1>5, <1>a, Zenon DEF ListPendingOutbox, storeVars
    <2>3. EventsLeft(t)' \subseteq EventsLeft(t)
      BY <2>1, <2>2, EventsFrame, Zenon
    <2> QED
      BY <1>d, <2>2, <2>3, Zenon
  <1>6. CASE Publish(p)
    <2>1. PICK ev \in listed[p] : DispatchTask(ev[1]) /\ Goto(p, "mark", listed[p] \ {ev}, ev)
      BY <1>6, Zenon DEF Publish
    <2>2. PICK t0 \in Tasks, k0 \in Nat : ev = <<t0, k0>>
      BY DEF TypeOK, PublisherTypeOK
    <2>3. /\ pphase[p] = "send" /\ UNCHANGED <<outbox, nextRunAt, publisherFaults>> /\ MarksStay
          /\ pphase'[p] = "mark" /\ current'[p] = <<t0, k0>>
      <3>1. pphase[p] = "send" /\ UNCHANGED <<outbox, nextRunAt, publisherFaults>>
        BY <1>6, Zenon DEF Publish, storeVars
      <3>2. MarksStay
        BY <1>b, <2>1, <3>1, Zenon
      <3> QED
        BY <1>0, <2>1, <2>2, <3>1, <3>2, Zenon DEF Goto, TypeOK, PublisherTypeOK
    <2>4. /\ Unacked' = Unacked \cup {Len(stream) + 1}
          /\ \A m \in Unacked : stream'[m] = stream[m]
          /\ stream'[Len(stream) + 1] = t0
      <3>1. stream' = Append(stream, t0) /\ UNCHANGED <<delivered, pel>>
        BY <2>1, <2>2, Zenon DEF DispatchTask
      <3>2. /\ stream \in Seq(Tasks) /\ Len(stream) \in Nat
            /\ delivered \in 0 .. Len(stream) /\ pel \subseteq 1 .. delivered
        BY DEF TypeOK, WorkerTypeOK
      <3>3. /\ Len(stream') = Len(stream) + 1 /\ stream'[Len(stream) + 1] = t0
            /\ \A m \in 1 .. Len(stream) : stream'[m] = stream[m]
        BY <3>1, <3>2
      <3>4. Unread' = Unread \cup {Len(stream) + 1}
        BY <3>1, <3>2, <3>3 DEF Unread
      <3>5. Unacked \subseteq 1 .. Len(stream)
        <4>1. 1 .. delivered \subseteq 1 .. Len(stream)
          BY <3>2, SMTT(20)
        <4>2. Unread \subseteq 1 .. Len(stream)
          BY <3>2, SMTT(20) DEF Unread
        <4> QED
          BY <3>2, <4>1, <4>2, Zenon DEF Unacked
      <3> QED
        BY <3>1, <3>3, <3>4, <3>5, Zenon DEF Unacked
    <2>5. \A m \in MessagesLeft(t)' : m \in MessagesLeft(t) \/ (t = t0 /\ m = Len(stream) + 1)
      BY <1>1, <2>4, Zenon DEF MessagesLeft
    <2>6. EventsLeft(t)' \subseteq EventsLeft(t)
      BY <2>3, EventsFrame, Zenon
    <2>7. CASE t # t0
      BY <1>d, <2>3, <2>5, <2>6, <2>7, Zenon
    <2>8. CASE t = t0
      <3>1. PICK x : x = <<"event", k0>>
        BY Zenon
      <3>2. PICK y : y = <<"message", Len(stream) + 1>>
        BY Zenon
      <3>3. k0 \in EventsLeft(t) /\ k0 \notin EventsLeft(t)'
        <4>1. k0 \in PendingEvents(t)
          BY <2>2, <2>8, Zenon DEF Listing
        <4>2. \A q \in Publishers : pphase[q] # "mark"
          BY <2>3, Zenon
        <4> QED
          BY <2>3, <2>8, <4>1, <4>2, Zenon DEF EventsLeft
      <3>4. x \in Waiting(t) /\ x \notin Carriers(t)'
        BY <3>1, <3>3, Zenon DEF Waiting, Carriers
      <3>5. RetryCover(t)' => RetryCover(t)
        BY <1>2, <2>3, Zenon DEF RetryCover
      <3>6. \A m \in MessagesLeft(t)' : m \in MessagesLeft(t) \/ y = <<"message", m>>
        BY <2>5, <3>2, Zenon
      <3>7. Carriers(t)' \subseteq Carriers(t) \cup {y}
        BY <2>6, <3>5, <3>6, CarriersMove, Zenon
      <3>8. Waiting(t)' \subseteq Waiting(t) \cup {y}
        BY <1>1, <3>7, WaitingMove, Zenon DEF RunsStay
      <3>9. x \notin Waiting(t)'
        BY <3>4, Zenon DEF Waiting
      <3>10. Passed(t)
        BY <1>3, <3>4, <3>7, <3>8, <3>9, SMTT(30) DEF Passed
      <3> QED
        BY <1>c, <2>3, <3>10, Zenon DEF CarrierStep
    <2> QED
      BY <2>7, <2>8, Zenon
  <1>e. ASSUME NEW S, Continue(p, S) PROVE \A q \in Publishers : pphase'[q] # "mark"
    BY <1>0, <1>e, Zenon DEF Continue, Goto
  <1>7. CASE MarkDispatched(p)
    <2>1. PICK t0 \in Tasks, k0 \in Nat : current[p] = <<t0, k0>>
      BY <1>7 DEF MarkDispatched, TypeOK, PublisherTypeOK
    <2>2. outbox' = [outbox EXCEPT ![t0][k0] = "dispatched"] /\ UNCHANGED <<nextRunAt, publisherFaults>>
      BY <1>7, <2>1 DEF MarkDispatched, MarkOutboxDispatched
    <2>3. MessagesLeft(t)' \subseteq MessagesLeft(t)
      BY <1>7, <1>a, Zenon DEF MarkDispatched
    <2>4. ASSUME NEW k \in EventsLeft(t)' PROVE k \in EventsLeft(t)
      <3>1. k \in DOMAIN outbox'[t] /\ outbox'[t][k] = "pending"
        BY Zenon DEF EventsLeft, PendingEvents
      <3>2. DOMAIN outbox'[t] = DOMAIN outbox[t] /\ k \in DOMAIN outbox[t]
        BY <1>0, <2>2, <3>1, MarkFacts, Zenon
      <3>3. t = t0 => k # k0
        BY <1>0, <2>2, <3>1, <3>2, Zenon DEF StoreTypeOK
      <3>4. <<t, k>> # <<t0, k0>>
        BY <3>3, Zenon
      <3>5. outbox[t][k] = "pending"
        BY <1>0, <2>2, <3>1, <3>2, <3>4, MarkFacts, Zenon
      <3>6. \A q \in Publishers : current[q] # <<t, k>>
        BY <2>1, <3>4, Zenon
      <3> QED
        BY <3>2, <3>5, <3>6, Zenon DEF EventsLeft, PendingEvents
    <2> QED
      BY <1>d, <2>2, <2>3, <2>4, Zenon
  <1>8. CASE PublisherFault(p)
    <2>1. PICK S : Continue(p, S)
      BY <1>8, Zenon DEF PublisherFault, PublishFails, AbortTick
    <2>2. /\ publisherFaults' = publisherFaults + 1
          /\ UNCHANGED <<outbox, nextRunAt>> /\ MessagesLeft(t)' \subseteq MessagesLeft(t)
      BY <1>8, <1>a, Zenon DEF PublisherFault, PublishFails, AbortTick, storeVars
    <2>3. Faults' = Faults + 1
      BY <1>0, <1>1, <2>2 DEF Faults
    <2>4. PICK y : y = <<"event", current[p][2]>>
      BY Zenon
    <2>5. \A k \in EventsLeft(t)' : k \in EventsLeft(t) \/ y = <<"event", k>>
      <3>1. ASSUME NEW k \in EventsLeft(t)', k \notin EventsLeft(t) PROVE y = <<"event", k>>
        <4>1. k \in PendingEvents(t)
          BY <2>2, Zenon DEF EventsLeft, PendingEvents
        <4>2. PICK q \in Publishers : current[q] = <<t, k>>
          BY <3>1, <4>1, Zenon DEF EventsLeft
        <4>3. current[p] = <<t, k>>
          BY <4>2, Zenon
        <4> QED
          BY <2>4, <4>3
      <3> QED
        BY <3>1, Zenon
    <2>6. Carriers(t)' \subseteq Carriers(t) \cup {y}
      BY <1>2, <2>2, <2>5, CarriersMove, Zenon DEF RetryCover
    <2>7. Waiting(t)' \subseteq Waiting(t) \cup {y}
      BY <1>1, <2>6, WaitingMove, Zenon DEF RunsStay
    <2>8. Slipped(t)
      BY <1>3, <2>3, <2>6, <2>7, Zenon DEF Slipped
    <2>9. CountersGrow
      BY <1>0, <1>2, <2>3 DEF CountersGrow, Faults
    <2> QED
      BY <2>8, <2>9, Zenon DEF CarrierStep
  <1> QED
    BY <1>4, <1>5, <1>6, <1>7, <1>8, Zenon DEF PublisherStep

(* A message a worker holds is a carrier of its task. *)
LEMMA HeldCarries ==
  ASSUME TypeOK, Holding, NEW w \in Workers, NEW m, m \in batch[w] \/ (phase[w] = "running" /\ m = msg[w]),
         phase[w] \in {"batch", "running"}
  PROVE  /\ m \in Nat /\ <<"message", m>> \in Carriers(stream[m])
         /\ \A v \in Workers \ {w} : phase[v] = "running" => msg[v] # m
  <1>1. m \in Held(w) /\ m \in pel
    BY Zenon DEF Holding, Held
  <1>2. m \in Nat
    BY <1>1 DEF TypeOK, WorkerTypeOK
  <1>3. \A v \in Workers \ {w} : phase[v] \in {"running", "ack"} => msg[v] # m
    BY <1>1, Zenon DEF Holding, Held
  <1>4. m \in MessagesLeft(stream[m])
    BY <1>1, <1>3, Zenon DEF MessagesLeft, Unacked
  <1> QED
    BY <1>2, <1>3, <1>4, Zenon DEF Carriers

(* A worker records the outcome of its attempt: its message carries its    *)
(* task no more.                                                           *)
LEMMA CarrierOutcomes ==
  ASSUME TypeOK, KnownTasks, FreshTasks, Holding, NEW w \in Workers, UNCHANGED publisherVars, NEW t \in Tasks,
         RetryAttempt(w) \/ FailAttempt(w) \/ CompleteAttempt(w) \/ CompleteAndEnqueueNext(w)
  PROVE  CarrierStep(t) /\ CountersGrow
  <1>0. StoreTypeOK /\ replays \in Nat /\ Faults \in Nat /\ attempt[w] \in Nat
    BY DEF TypeOK, StoreTypeOK, WorkerTypeOK, PublisherTypeOK, Faults
  <1>1. PICK t0 : t0 = TaskOf(w)
    BY Zenon
  <1>2. /\ phase[w] = "running" /\ phase'[w] = "ack" /\ stream' = stream /\ msg' = msg
        /\ \A v \in Workers \ {w} : phase'[v] = phase[v]
        /\ t0 \in Tasks /\ t0[1] \in Executions /\ t0[2] \in TaskNames /\ t0 = <<t0[1], t0[2]>>
    BY <1>1, OutcomeStatuses, Zenon
  <1>3. UNCHANGED <<delivered, pel, workerFaults, publisherFaults, pphase, current, replays>>
    <2>1. Recorded(w)
      BY Zenon DEF RetryAttempt, FailAttempt, CompleteAttempt, CompleteAndEnqueueNext
    <2> QED
      BY <2>1, Zenon DEF Recorded, streamVars, publisherVars, RetryAttempt, FailAttempt, CompleteAttempt,
                  CompleteAndEnqueueNext, ScheduleTaskRetry, FailTaskAttempt, CompleteTaskAttempt,
                  CompleteTaskAttemptAndEnqueueNextTask
  <1>4. CountersGrow /\ MarksStay /\ AcksStay /\ Unacked' = Unacked
    BY <1>0, <1>2, <1>3 DEF CountersGrow, Faults, MarksStay, AcksStay, Unacked, Unread
  <1>5. MessagesLeft(t)' \subseteq MessagesLeft(t) /\ msg[w] \notin MessagesLeft(t)'
    BY <1>2, <1>4, MessagesFrame, Zenon DEF MessagesLeft
  <1>6. PICK x : x = <<"message", msg[w]>>
    BY Zenon
  <1>7. x \in Carriers(t0) /\ x \notin Waiting(t0) /\ x \notin Carriers(t)'
    <2>1. msg[w] \in Nat /\ x \in Carriers(t0)
      BY <1>1, <1>2, <1>6, HeldCarries, Zenon DEF TaskOf
    <2>2. x \notin Waiting(t0)
      BY <1>2, <1>6, Zenon DEF Waiting
    <2>3. x \notin Carriers(t)'
      BY <1>5, <1>6, Zenon DEF Carriers
    <2> QED
      BY <2>1, <2>2, <2>3, Zenon
  <1>8. \A v \in Workers : phase[v] = "running" =>
          (phase'[v] = "running" /\ msg'[v] = msg[v]) \/ <<"message", msg[v]>> \notin Carriers(t)'
    BY <1>2, <1>6, <1>7, Zenon
  <1>9. \A u \in Tasks : Len(attempts'[u]) = Len(attempts[u])
    <2>1. \E s \in AttemptStatus : attempts' = [attempts EXCEPT ![t0][attempt[w]] = s]
      BY <1>1, Zenon
         DEF RetryAttempt, FailAttempt, CompleteAttempt, CompleteAndEnqueueNext, ScheduleTaskRetry, FailTaskAttempt,
             CompleteTaskAttempt, CompleteTaskAttemptAndEnqueueNextTask, AttemptStatus
    <2> QED
      BY <1>0, <1>2, <2>1, WriteAttemptFacts
  (* A task that the outcome does not touch. *)
  <1>a. ASSUME t # t0, outbox'[t] = outbox[t], status'[t] = status[t], nextRunAt'[t] = nextRunAt[t]
        PROVE  CarrierStep(t) /\ CountersGrow
    <2>1. EventsLeft(t)' \subseteq EventsLeft(t)
      BY <1>4, <1>a, EventsFrame, Zenon
    <2>2. Carriers(t)' \subseteq Carriers(t)
      BY <1>5, <1>a, <2>1, CarriersShrink, Zenon DEF RetryCover
    <2>3. Waiting(t)' \subseteq Waiting(t)
      BY <1>8, <2>2, WaitingShrink, Zenon
    <2> QED
      BY <1>4, <1>9, <1>a, <2>2, <2>3, Zenon DEF CarrierStep, Quiet, Same, Open
  (* The task itself, finished or failed for good. *)
  <1>b. ASSUME t = t0, outbox'[t] = outbox[t], status'[t] # "pending" PROVE CarrierStep(t) /\ CountersGrow
    <2>1. EventsLeft(t)' \subseteq EventsLeft(t)
      BY <1>4, <1>b, EventsFrame, Zenon
    <2>2. Carriers(t)' \subseteq Carriers(t)
      BY <1>5, <1>b, <2>1, CarriersShrink, Zenon DEF RetryCover
    <2>3. Waiting(t)' \subseteq Waiting(t)
      BY <1>8, <2>2, WaitingShrink, Zenon
    <2>4. Ended(t)
      BY <1>7, <1>9, <1>b, <2>2, <2>3, SMTT(30) DEF Ended
    <2> QED
      BY <1>4, <2>4, Zenon DEF CarrierStep
  <1>10. CASE RetryAttempt(w)
    <2>1. /\ status' = [status EXCEPT ![t0] = "pending"] /\ nextRunAt' = [nextRunAt EXCEPT ![t0] = "future"]
          /\ outbox' = outbox /\ attempt[w] < AttemptBudget(t0[2])
      BY <1>1, <1>10, Zenon DEF RetryAttempt, ScheduleTaskRetry
    <2>2. CASE t # t0
      BY <1>0, <1>2, <1>a, <2>1, <2>2, Zenon DEF StoreTypeOK
    <2>3. CASE t = t0
      <3>1. PICK y : y = <<"retry", 0>>
        BY Zenon
      <3>2. EventsLeft(t)' \subseteq EventsLeft(t)
        BY <1>4, <2>1, EventsFrame, Zenon
      <3>3. Carriers(t)' \subseteq Carriers(t) \cup {y}
        BY <1>5, <3>1, <3>2, CarriersMove, Zenon
      <3>4. Waiting(t)' \subseteq Waiting(t) \cup {y}
        BY <1>8, <3>3, WaitingMove, Zenon
      <3>5. Open(t)'
        BY <1>0, <2>1, <2>3, Zenon DEF StoreTypeOK, Open
      <3>6. x \in Carriers(t) \ Waiting(t) /\ Carriers(t)' \subseteq (Carriers(t) \ {x}) \cup {y}
        BY <1>7, <2>3, <3>3, Zenon
      <3>7. phase[w] = "running" /\ TaskOf(w) = t /\ attempt[w] < AttemptBudget(t[2])
        BY <1>1, <1>2, <2>1, <2>3, Zenon
      <3>8. Again(t)
        BY <1>9, <3>4, <3>5, <3>6, <3>7, Zenon DEF Again
      <3> QED
        BY <1>4, <3>8, Zenon DEF CarrierStep
    <2> QED
      BY <2>2, <2>3, Zenon
  <1>11. CASE FailAttempt(w)
    <2>1. /\ status' = [status EXCEPT ![t0] = "dead_lettered"] /\ nextRunAt' = [nextRunAt EXCEPT ![t0] = "none"]
          /\ outbox' = outbox
      BY <1>1, <1>11, Zenon DEF FailAttempt, FailTaskAttempt
    <2> QED
      BY <1>0, <1>2, <1>a, <1>b, <2>1, Zenon DEF StoreTypeOK
  <1>12. CASE CompleteAttempt(w)
    <2>1. status' = [status EXCEPT ![t0] = "succeeded"] /\ nextRunAt' = nextRunAt /\ outbox' = outbox
      BY <1>1, <1>12, Zenon DEF CompleteAttempt, CompleteTaskAttempt
    <2> QED
      BY <1>0, <1>2, <1>a, <1>b, <2>1, Zenon DEF StoreTypeOK
  <1>13. CASE CompleteAndEnqueueNext(w)
    <2>1. PICK u : u = Successor(t0)
      BY Zenon
    <2>2. /\ NextTask[t0[2]] # NoTask /\ status[u] = "none"
          /\ status' = [status EXCEPT ![t0] = "succeeded", ![u] = "pending"]
      BY <1>1, <1>13, <2>1, OutcomeStatuses, Zenon
    <2>3. u \in Tasks /\ u # t0 /\ {u} \in SUBSET Tasks
      BY <1>2, <2>1, <2>2, SuccessorIsTask, Zenon
    <2>4. nextRunAt' = nextRunAt /\ outbox' = InsertEvents({u})
      BY <1>1, <1>13, <2>1, Zenon DEF CompleteAndEnqueueNext, CompleteTaskAttemptAndEnqueueNextTask
    <2>5. /\ status'[t0] = "succeeded" /\ status'[u] = "pending"
          /\ \A v \in Tasks \ {t0, u} : status'[v] = status[v]
          /\ \A v \in Tasks \ {u} : outbox'[v] = outbox[v]
      BY <1>0, <1>2, <2>2, <2>3, <2>4, Zenon DEF StoreTypeOK, InsertEvents
    <2>6. CASE t # u
      BY <1>a, <1>b, <2>3, <2>4, <2>5, <2>6, Zenon
    <2>7. CASE t = u
      <3>1. Carriers(t) = {} /\ attempts[t] = <<>> /\ nextRunAt[t] = "none" /\ ~Open(t)
        BY <2>2, <2>7, FreshUncarried, Zenon
      <3>2. PICK y : y = <<"event", Len(outbox[t]) + 1>>
        BY Zenon
      <3>3. \A k \in EventsLeft(t)' : k \in EventsLeft(t) \/ y = <<"event", k>>
        BY <1>0, <1>4, <2>3, <2>4, <3>2, EventsInsert, Zenon
      <3>4. Carriers(t)' \subseteq Carriers(t) \cup {y}
        BY <1>5, <2>4, <3>1, <3>3, CarriersMove, Zenon DEF RetryCover
      <3>5. Waiting(t)' \subseteq Waiting(t) \cup {y}
        BY <1>8, <3>4, WaitingMove, Zenon
      <3>6. attempts'[t] = attempts[t]
        BY <1>0, <1>2, <1>13, <2>3, <2>7, <1>1, Zenon
           DEF CompleteAndEnqueueNext, CompleteTaskAttemptAndEnqueueNextTask, StoreTypeOK
      <3>7. Came(t)
        BY <2>5, <2>7, <3>1, <3>4, <3>5, <3>6, Zenon DEF Came, Open
      <3> QED
        BY <1>4, <3>7, Zenon DEF CarrierStep
    <2> QED
      BY <2>6, <2>7, Zenon
  <1> QED
    BY <1>10, <1>11, <1>12, <1>13, Zenon

(* The other steps of a worker. *)
LEMMA CarrierWorkerSteps ==
  ASSUME TypeOK, KnownTasks, FreshTasks, Holding, NEW t \in Tasks, WorkerNext
  PROVE  CarrierStep(t) /\ CountersGrow
  <1> PICK w \in Workers : WorkerStep(w) \/ WorkerFault(w)
    BY Zenon DEF WorkerNext
  <1>0. /\ StoreTypeOK /\ replays \in Nat /\ workerFaults \in Nat /\ publisherFaults \in Nat
        /\ phase \in [Workers -> {"poll", "read", "batch", "running", "ack"}] /\ msg \in [Workers -> 0 .. delivered]
    BY Zenon DEF TypeOK, StoreTypeOK, WorkerTypeOK, PublisherTypeOK
  <1>1. UNCHANGED <<pphase, current, publisherFaults>> /\ UNCHANGED publisherVars /\ MarksStay
    BY Zenon DEF WorkerNext, publisherVars, MarksStay
  <1>2. CASE RetryAttempt(w) \/ FailAttempt(w) \/ CompleteAttempt(w) \/ CompleteAndEnqueueNext(w)
    BY <1>1, <1>2, CarrierOutcomes, Zenon
  <1>a. ASSUME UNCHANGED storeVars PROVE Same(t) /\ EventsLeft(t)' \subseteq EventsLeft(t) /\ RetryCover(t)' = RetryCover(t)
    <2>1. UNCHANGED <<status, nextRunAt, attempts, outbox>>
      BY <1>a, Zenon DEF storeVars
    <2> QED
      BY <1>1, <2>1, EventsFrame, Zenon DEF Same, Open, RetryCover
  <1>b. ASSUME UNCHANGED storeVars, UNCHANGED workerFaults PROVE CountersGrow
    BY <1>0, <1>1, <1>b DEF storeVars, CountersGrow, Faults
  <1>c. ASSUME UNCHANGED storeVars, UNCHANGED workerFaults, AcksStay, RunsStay, Unacked' \subseteq Unacked, stream' = stream
        PROVE  CarrierStep(t) /\ CountersGrow
    <2>1. MessagesLeft(t)' \subseteq MessagesLeft(t)
      BY <1>c, MessagesFrame, Zenon
    <2>2. Carriers(t)' \subseteq Carriers(t)
      BY <1>a, <1>c, <2>1, CarriersShrink, Zenon
    <2>3. Waiting(t)' \subseteq Waiting(t)
      BY <1>c, <2>2, WaitingShrink, Zenon DEF RunsStay
    <2> QED
      BY <1>a, <1>b, <1>c, <2>2, <2>3, Zenon DEF CarrierStep, Quiet
  <1>d. ASSUME NEW p, NEW S, Receive(w, p, S), phase[w] \in {"poll", "read"}
        PROVE  AcksStay /\ RunsStay /\ UNCHANGED workerFaults
    BY <1>0, <1>d, Zenon DEF Receive, AcksStay, RunsStay
  <1>3. CASE ClaimPending(w) \/ ReadNew(w) \/ ReadTimesOut(w)
    <2>1. phase[w] \in {"poll", "read"} /\ \E p, S : Receive(w, p, S)
      BY <1>3, Zenon DEF ClaimPending, ReadNew, ReadTimesOut
    <2>2. AcksStay /\ RunsStay /\ UNCHANGED workerFaults
      BY <1>d, <2>1, Zenon
    <2>3. UNCHANGED storeVars /\ stream' = stream
      BY <1>3, Zenon DEF ClaimPending, ReadNew, ReadTimesOut, AutoClaim, ReadNext, streamVars
    <2>4. Unacked' \subseteq Unacked
      BY <1>3 DEF ClaimPending, ReadNew, ReadTimesOut, AutoClaim, ReadNext, streamVars, Unacked, Unread, TypeOK, WorkerTypeOK
    <2> QED
      BY <1>c, <2>2, <2>3, <2>4, Zenon
  <1>4. CASE Ack(w)
    <2>1. /\ phase[w] = "ack" /\ XAck(msg[w]) /\ UNCHANGED storeVars /\ UNCHANGED workerFaults
          /\ Advance(w, batch[w])
      BY <1>4, Zenon DEF Ack
    <2>2. RunsStay /\ \A v \in Workers \ {w} : phase'[v] = phase[v] /\ msg'[v] = msg[v]
      BY <1>0, <2>1, Zenon DEF Advance, RunsStay
    <2>3. Unacked' \subseteq Unacked \ {msg[w]} /\ stream' = stream
      BY <2>1 DEF XAck, Unacked, Unread, TypeOK, WorkerTypeOK
    <2>4. MessagesLeft(t)' \subseteq MessagesLeft(t)
      BY <2>2, <2>3, Zenon DEF MessagesLeft
    <2>5. Carriers(t)' \subseteq Carriers(t)
      BY <1>a, <2>1, <2>4, CarriersShrink, Zenon
    <2>6. Waiting(t)' \subseteq Waiting(t)
      BY <2>2, <2>5, WaitingShrink, Zenon DEF RunsStay
    <2> QED
      BY <1>a, <1>b, <2>1, <2>5, <2>6, Zenon DEF CarrierStep, Quiet
  <1>5. CASE SkipDuplicate(w)
    <2>1. /\ phase[w] = "batch" /\ UNCHANGED storeVars /\ UNCHANGED streamVars
          /\ \E m \in batch[w] : Begin(w, m, "ack", 0)
      BY <1>5, Zenon DEF SkipDuplicate
    <2>2. AcksStay /\ RunsStay /\ UNCHANGED workerFaults
      BY <1>0, <2>1, Zenon DEF Begin, AcksStay, RunsStay
    <2>3. Unacked' = Unacked /\ stream' = stream
      BY <2>1, Zenon DEF streamVars, Unacked, Unread
    <2> QED
      BY <1>c, <2>1, <2>2, <2>3, Zenon
  <1>6. CASE BeginAttempt(w)
    <2>1. PICK m \in batch[w] : /\ StartTaskAttempt(stream[m])
                                /\ Begin(w, m, "running", Len(attempts[stream[m]]) + 1)
      BY <1>6, Zenon DEF BeginAttempt
    <2>2. PICK t0 : t0 = stream[m]
      BY Zenon
    <2>3. phase[w] = "batch" /\ UNCHANGED streamVars
      BY <1>6, Zenon DEF BeginAttempt
    <2>4. m \in 1 .. Len(stream) /\ t0 \in Tasks
      BY <2>2 DEF TypeOK, WorkerTypeOK
    <2>5. /\ AcksStay /\ RunsStay /\ UNCHANGED workerFaults /\ phase'[w] = "running" /\ msg'[w] = m
          /\ Unacked' = Unacked /\ stream' = stream
      BY <1>0, <2>1, <2>3, Zenon DEF Begin, AcksStay, RunsStay, streamVars, Unacked, Unread
    <2>6. /\ status' = [status EXCEPT ![t0] = "running"] /\ nextRunAt' = [nextRunAt EXCEPT ![t0] = "none"]
          /\ attempts' = [attempts EXCEPT ![t0] = Append(@, "running")]
          /\ outbox' = outbox /\ replays' = replays /\ status[t0] \notin Terminal
      BY <2>1, <2>2, Zenon DEF StartTaskAttempt
    <2>7. CountersGrow
      BY <1>0, <1>1, <2>5, <2>6 DEF CountersGrow, Faults
    <2>8. MessagesLeft(t)' \subseteq MessagesLeft(t) /\ EventsLeft(t)' \subseteq EventsLeft(t)
      BY <1>1, <2>5, <2>6, MessagesFrame, EventsFrame, Zenon
    <2>9. CASE t # t0
      <3>1. status'[t] = status[t] /\ nextRunAt'[t] = nextRunAt[t] /\ attempts'[t] = attempts[t]
        BY <1>0, <2>4, <2>6, <2>9, Zenon DEF StoreTypeOK
      <3>2. Quiet(t)
        BY <2>5, <2>8, <3>1, QuietFrame, Zenon DEF RetryCover
      <3> QED
        BY <2>7, <3>2, Zenon DEF CarrierStep
    <2>10. CASE t = t0
      <3>1. PICK x : x = <<"message", m>>
        BY Zenon
      <3>2. status'[t] = "running" /\ Len(attempts'[t]) = Len(attempts[t]) + 1
        BY <1>0, <2>4, <2>6, <2>10, SMTT(30) DEF StoreTypeOK
      <3>3. Open(t) /\ Open(t)'
        BY <1>0, <2>2, <2>4, <2>6, <2>10, <3>2, Zenon
           DEF KnownTasks, StoreTypeOK, TaskStatus, Terminal, Open
      <3>4. Carriers(t)' \subseteq Carriers(t)
        BY <2>8, <3>2, CarriersShrink, Zenon DEF RetryCover
      <3>5. x \in Carriers(t) /\ \A v \in Workers \ {w} : phase[v] = "running" => msg[v] # m
        BY <2>2, <2>3, <2>10, <3>1, HeldCarries, Zenon
      <3>6. x \in Waiting(t)
        BY <2>3, <3>1, <3>5, Zenon DEF Waiting
      <3>7. Waiting(t)' \subseteq Waiting(t)
        BY <2>5, <3>4, WaitingShrink, Zenon DEF RunsStay
      <3>8. x \notin Waiting(t)'
        BY <2>5, <3>1, Zenon DEF Waiting
      <3>9. Began(t)
        BY <3>2, <3>3, <3>4, <3>6, <3>7, <3>8, Zenon DEF Began
      <3> QED
        BY <2>7, <3>9, Zenon DEF CarrierStep
    <2> QED
      BY <2>9, <2>10, Zenon
  (* A worker that gives its message up without recording anything. *)
  <1>e. ASSUME NEW R, Advance(w, R), UNCHANGED storeVars, UNCHANGED streamVars
        PROVE  LET y == <<"message", msg[w]>> IN
               Carriers(t)' \subseteq Carriers(t) \cup {y} /\ Waiting(t)' \subseteq Waiting(t) \cup {y}
    <2>1. PICK y : y = <<"message", msg[w]>>
      BY Zenon
    <2>2. \A v \in Workers \ {w} : phase'[v] = phase[v] /\ msg'[v] = msg[v]
      BY <1>0, <1>e, Zenon DEF Advance
    <2>3. Unacked' = Unacked /\ stream' = stream
      BY <1>e, Zenon DEF streamVars, Unacked, Unread
    <2>4. \A m \in MessagesLeft(t)' : m \in MessagesLeft(t) \/ y = <<"message", m>>
      BY <2>1, <2>2, <2>3, Zenon DEF MessagesLeft
    <2>5. Carriers(t)' \subseteq Carriers(t) \cup {y}
      BY <1>a, <1>e, <2>4, CarriersMove, Zenon
    <2>6. Waiting(t)' \subseteq Waiting(t) \cup {y}
      BY <2>1, <2>2, <2>5, WaitingMove
    <2> QED
      BY <2>1, <2>5, <2>6, Zenon
  <1>7. CASE WorkerFault(w)
    <2>1. /\ workerFaults' = workerFaults + 1 /\ UNCHANGED storeVars /\ UNCHANGED streamVars
          /\ \E R : Advance(w, R)
      BY <1>7, Zenon DEF WorkerFault, LeavePending, CrashWorker
    <2>2. Faults' = Faults + 1 /\ CountersGrow
      BY <1>0, <1>1, <2>1 DEF Faults, CountersGrow, storeVars
    <2>3. Slipped(t)
      BY <1>a, <1>e, <2>1, <2>2, Zenon DEF Slipped
    <2> QED
      BY <2>2, <2>3, Zenon DEF CarrierStep
  <1>8. CASE EnqueueNextConflicts(w)
    <2>1. /\ phase[w] = "running" /\ Advance(w, batch[w]) /\ UNCHANGED storeVars /\ UNCHANGED streamVars
          /\ UNCHANGED workerFaults
      BY <1>8, Zenon DEF EnqueueNextConflicts
    <2>2. \A v \in Workers \ {w} : phase'[v] = phase[v] /\ msg'[v] = msg[v]
      BY <1>0, <2>1, Zenon DEF Advance
    <2>3. Unacked' = Unacked /\ stream' = stream /\ AcksStay
      BY <1>0, <2>1, <2>2, Zenon DEF streamVars, Unacked, Unread, AcksStay
    <2>4. MessagesLeft(t)' \subseteq MessagesLeft(t)
      BY <2>3, MessagesFrame, Zenon
    <2>5. Carriers(t)' \subseteq Carriers(t)
      BY <1>a, <2>1, <2>4, CarriersShrink, Zenon
    <2>6. CASE TaskOf(w) = t
      <3>1. Conflicted(t)
        BY <1>8, <1>a, <2>1, <2>5, <2>6, Zenon DEF Conflicted
      <3> QED
        BY <1>b, <2>1, <3>1, Zenon DEF CarrierStep
    <2>7. CASE TaskOf(w) # t
      <3>1. <<"message", msg[w]>> \notin Carriers(t)'
        BY <2>3, <2>7, Zenon DEF Carriers, MessagesLeft, TaskOf
      <3>2. Waiting(t)' \subseteq Waiting(t)
        BY <2>2, <2>5, <3>1, WaitingShrink, Zenon
      <3> QED
        BY <1>a, <1>b, <2>1, <2>5, <3>2, Zenon DEF CarrierStep, Quiet
    <2> QED
      BY <2>6, <2>7, Zenon
  <1> QED
    BY <1>2, <1>3, <1>4, <1>5, <1>6, <1>7, <1>8, Zenon DEF WorkerStep

LEMMA CarrierSteps ==
  ASSUME \A p, q \in Publishers : p = q, TypeOK, KnownTasks, FreshTasks, Holding, Listing, [Next]_vars, NEW t \in Tasks
  PROVE  CarrierStep(t) /\ CountersGrow
  BY CarrierOtherSteps, CarrierPublisherSteps, CarrierWorkerSteps, Zenon DEF Next
=============================================================================
