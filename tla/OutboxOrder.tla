---------------------------- MODULE OutboxOrder ----------------------------
(***************************************************************************)
(* The order in which a publisher works off its backlog when the limit of  *)
(* rows per tick binds (publishOnce, and the ORDER BY ... LIMIT of the     *)
(* retry scan and of ListPendingOutbox).  One task of interest waits for a *)
(* retry, beside others that keep coming for ever: a backlog is a sequence *)
(* of tasks by age, and the others need no names.                          *)
(*                                                                         *)
(* created_at is the time its transaction began: an event may commit later *)
(* than a younger one, and then goes before it.                            *)
(***************************************************************************)
EXTENDS Naturals, Sequences, SequencesExt

CONSTANTS
  PublishLimit,   \* rows the scan and the listing take: 20 in the code
  Backlog,        \* bound: rows of both backlogs up to which others join
  LateCap         \* bound: transactions older than the task's event and
                  \* still to commit

ASSUME OrderAssumption ==
  PublishLimit \in Nat \ {0} /\ Backlog \in Nat \ {0} /\ LateCap \in Nat

VARIABLES
  due,      \* retries that have come due, by next_run_at
  outbox,   \* pending events, by created_at, each with whether it is listed
  at,       \* where the publisher is: off, tick, list or send
  late      \* older transactions that may still commit an event

orderVars == <<due, outbox, at, late>>

Tagged == "task"
Other == "other"

Event(t) == [task |-> t, listed |-> FALSE]

(* The retries that are due already fill a scan, and the task is next. *)
OrderInit ==
  /\ due = Append([k \in 1 .. PublishLimit |-> Other], Tagged)
  /\ outbox = <<>>
  /\ at = "off"
  /\ late = LateCap

-----------------------------------------------------------------------------
(* The process starts the loop of ticks. *)
Run == at = "off" /\ at' = "tick" /\ UNCHANGED <<due, outbox, late>>

Smaller(m, n) == IF m <= n THEN m ELSE n

(* EnqueueDueTaskRetries: the oldest up to the limit become events, in one *)
(* transaction.                                                            *)
EnqueueDueTaskRetries ==
  /\ at = "tick"
  /\ LET n == Smaller(PublishLimit, Len(due))
     IN  /\ outbox' = outbox \o [k \in 1 .. n |-> Event(due[k])]
         /\ due' = SubSeq(due, n + 1, Len(due))
  /\ at' = "list"
  /\ UNCHANGED late

(* Faulty variant: the newest events first. *)
ListNewest ==
  /\ at = "list"
  /\ outbox' = [k \in DOMAIN outbox |->
                  [outbox[k] EXCEPT !.listed = k > Len(outbox) - PublishLimit]]
  /\ at' = IF outbox = <<>> THEN "tick" ELSE "send"
  /\ UNCHANGED <<due, late>>

(* The oldest events up to the limit. *)
ListPendingOutbox ==
  /\ at = "list"
  /\ outbox' = [k \in DOMAIN outbox |-> [outbox[k] EXCEPT !.listed = k <= PublishLimit]]
  /\ at' = IF outbox = <<>> THEN "tick" ELSE "send"
  /\ UNCHANGED <<due, late>>

Listed == {k \in DOMAIN outbox : outbox[k].listed}

(* The loop goes on with the listed events of rest. *)
GoOn(rest) ==
  /\ outbox' = rest
  /\ at' = IF \E k \in DOMAIN rest : rest[k].listed THEN "send" ELSE "tick"
  /\ UNCHANGED <<due, late>>

IsNext(k) == \A l \in Listed : k <= l

(* XADD and MarkOutboxDispatched, for the listed events in order. *)
DispatchEvent(k) == at = "send" /\ k \in Listed /\ IsNext(k) /\ GoOn(RemoveAt(outbox, k))

Dispatch == \E k \in Listed : DispatchEvent(k)

(* RecordOutboxFailure: the event keeps its place in the order. *)
DispatchFails ==
  /\ at = "send"
  /\ \E k \in Listed : IsNext(k) /\ GoOn([outbox EXCEPT ![k].listed = FALSE])

(* publishOnce returns an error: the rest of the list is forgotten. *)
TickFails ==
  /\ at \in {"list", "send"}
  /\ outbox' = [k \in DOMAIN outbox |-> [outbox[k] EXCEPT !.listed = FALSE]]
  /\ at' = "tick"
  /\ UNCHANGED <<due, late>>

-----------------------------------------------------------------------------
(* Other tasks go on: one more retry comes due, or one more event commits. *)
RetryComesDue ==
  /\ Len(due) + Len(outbox) < Backlog
  /\ due' = Append(due, Other)
  /\ UNCHANGED <<outbox, at, late>>

EventCommits ==
  /\ Len(due) + Len(outbox) < Backlog
  /\ outbox' = Append(outbox, Event(Other))
  /\ UNCHANGED <<due, at, late>>

(* An event whose transaction began before those of some that are there. *)
LateEventCommits ==
  /\ late > 0
  /\ \E k \in 1 .. Len(outbox) : outbox' = InsertAt(outbox, k, Event(Other))
  /\ late' = late - 1
  /\ UNCHANGED <<due, at>>

Others == RetryComesDue \/ EventCommits \/ LateEventCommits

OrderNext ==
  \/ Run
  \/ EnqueueDueTaskRetries \/ ListPendingOutbox \/ Dispatch \/ DispatchFails \/ TickFails
  \/ Others

OrderSpec == OrderInit /\ [][OrderNext]_orderVars

(* The loop of Run goes on, and what fails now and then does not always    *)
(* fail: a tick gets through to its list again and again, and Redis does   *)
(* not refuse the oldest event every time it is sent.                      *)
OrderFairness ==
  /\ WF_orderVars(EnqueueDueTaskRetries \/ ListPendingOutbox \/ Dispatch \/ DispatchFails)
  /\ SF_orderVars(ListPendingOutbox)
  /\ SF_orderVars(DispatchEvent(1))

OrderLiveSpec == OrderSpec /\ OrderFairness

-----------------------------------------------------------------------------
Waiting ==
  \/ \E k \in DOMAIN due : due[k] = Tagged
  \/ \E k \in DOMAIN outbox : outbox[k].task = Tagged

(* No retry starves: once the loop runs, the task is published although    *)
(* the limit binds on every tick, others keep arriving, some of them with  *)
(* an older created_at, and dispatches fail now and then.                  *)
RetryIsPublished == (at # "off" /\ Waiting) ~> ~Waiting
=============================================================================
