----------------------------- MODULE Publisher -----------------------------
(***************************************************************************)
(* The outbox publishers, one per API process (internal/outbox/            *)
(* publisher.go).  A tick turns due retries into outbox events, lists the  *)
(* pending events, and for each of them adds a message to the stream and   *)
(* then marks the event dispatched.  Listing claims nothing: two           *)
(* publishers may list the same event.  The phases of a publisher are      *)
(* tick, list, send and mark.                                              *)
(***************************************************************************)
EXTENDS Store, RedisStreams

CONSTANTS
  Publishers,         \* the publisher goroutines
  PublishLimit,       \* rows one tick takes: 20 in the code
  PublisherFaultCap   \* bound: publisher restarts and failed calls

ASSUME PublisherAssumption ==
  /\ PublishLimit \in Nat \ {0}
  /\ PublisherFaultCap \in Nat

VARIABLES
  pphase,           \* where each publisher is
  listed,           \* events <<task, number>> listed and not yet published
  current,          \* the event added to the stream and not yet marked
  publisherFaults   \* failures so far

publisherVars == <<pphase, listed, current, publisherFaults>>

NoEvent == <<>>

(* Every pending event, as <<task, number>>. *)
AllPending == UNION {{<<t, k>> : k \in PendingEvents(t)} : t \in Tasks}

PublisherTypeOK ==
  /\ pphase \in [Publishers -> {"tick", "list", "send", "mark"}]
  /\ listed \in [Publishers -> SUBSET (Tasks \X Nat)]
  /\ current \in [Publishers -> (Tasks \X Nat) \cup {NoEvent}]
  /\ \A p \in Publishers :
       /\ \A ev \in listed[p] : ev[2] \in 1 .. Len(outbox[ev[1]])
       /\ pphase[p] = "mark" =>
            current[p] # NoEvent /\ current[p][2] \in 1 .. Len(outbox[current[p][1]])
  /\ publisherFaults \in Nat

PublisherInit ==
  /\ pphase = [p \in Publishers |-> "tick"]
  /\ listed = [p \in Publishers |-> {}]
  /\ current = [p \in Publishers |-> NoEvent]
  /\ publisherFaults = 0

-----------------------------------------------------------------------------
(* p is at phase ph with events S left and ev between XADD and mark. *)
Goto(p, ph, S, ev) ==
  /\ pphase' = [pphase EXCEPT ![p] = ph]
  /\ listed' = [listed EXCEPT ![p] = S]
  /\ current' = [current EXCEPT ![p] = ev]

(* The loop goes on with the events in S; after the last the tick is over. *)
Continue(p, S) == Goto(p, IF S = {} THEN "tick" ELSE "send", S, NoEvent)

EnqueueRetries(p) ==
  /\ pphase[p] = "tick"
  /\ EnqueueDueTaskRetries(PublishLimit)
  /\ Goto(p, "list", {}, NoEvent)
  /\ UNCHANGED <<streamVars, publisherFaults>>

(* Oldest first up to the limit; events of one transaction share a         *)
(* created_at, so which ones fall under the limit is left open.            *)
ListPendingOutbox(p) ==
  /\ pphase[p] = "list"
  /\ \E S \in SUBSET AllPending :
       /\ Cardinality(S) <= PublishLimit
       /\ S # AllPending => Cardinality(S) = PublishLimit
       /\ Continue(p, S)
  /\ UNCHANGED <<storeVars, streamVars, publisherFaults>>

Publish(p) ==
  /\ pphase[p] = "send"
  /\ \E ev \in listed[p] :
       /\ DispatchTask(ev[1])
       /\ Goto(p, "mark", listed[p] \ {ev}, ev)
  /\ UNCHANGED <<storeVars, publisherFaults>>

MarkDispatched(p) ==
  /\ pphase[p] = "mark"
  /\ MarkOutboxDispatched(current[p][1], current[p][2])
  /\ Continue(p, listed[p])
  /\ UNCHANGED <<streamVars, publisherFaults>>

(* XADD returned an error, before (send) or after (mark) taking effect:    *)
(* RecordOutboxFailure leaves the event pending and the loop goes on.      *)
PublishFails(p) ==
  /\ publisherFaults < PublisherFaultCap
  /\ \/ pphase[p] = "send" /\ \E ev \in listed[p] : Continue(p, listed[p] \ {ev})
     \/ pphase[p] = "mark" /\ Continue(p, listed[p])
  /\ publisherFaults' = publisherFaults + 1
  /\ UNCHANGED <<storeVars, streamVars>>

(* publishOnce returned an error, or the API process died: what was listed *)
(* is forgotten and the next tick starts over.                             *)
AbortTick(p) ==
  /\ publisherFaults < PublisherFaultCap
  /\ pphase[p] # "tick"
  /\ Continue(p, {})
  /\ publisherFaults' = publisherFaults + 1
  /\ UNCHANGED <<storeVars, streamVars>>

-----------------------------------------------------------------------------
PublisherStep(p) ==
  EnqueueRetries(p) \/ ListPendingOutbox(p) \/ Publish(p) \/ MarkDispatched(p)

PublisherFault(p) == PublishFails(p) \/ AbortTick(p)
=============================================================================
