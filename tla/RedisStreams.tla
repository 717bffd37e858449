---------------------------- MODULE RedisStreams ----------------------------
(***************************************************************************)
(* The Redis stream and its consumer group, as internal/queue/             *)
(* redis_streams.go uses them: XADD, XREADGROUP ">", XAUTOCLAIM and XACK.  *)
(* A message is its position in the stream and carries a task.  The server *)
(* is external; what is modelled is what these commands do to the stream,  *)
(* the group's last-delivered position and its pending-entries list.       *)
(* Messages never leave the stream: the code does not trim or delete.      *)
(***************************************************************************)
EXTENDS Naturals, Sequences, FiniteSets

CONSTANT ReclaimCount   \* XAUTOCLAIM COUNT

ASSUME ReclaimCountAssumption == ReclaimCount \in Nat \ {0}

VARIABLES
  stream,      \* the task of every message added
  delivered,   \* last-delivered position; 0: the group starts at "0"
  pel,         \* messages delivered and not yet acknowledged
  idle         \* those not delivered again for ReclaimMinIdle

streamVars == <<stream, delivered, pel, idle>>

RedisInit ==
  /\ stream = <<>>
  /\ delivered = 0
  /\ pel = {}
  /\ idle = {}

-----------------------------------------------------------------------------
(* Messages no consumer of the group has read yet. *)
Unread == (delivered + 1) .. Len(stream)

(* Messages the group still owes: unread, or delivered and not XACKed. *)
Unacked == pel \cup Unread

(* The lowest ReclaimCount idle messages: the scan starts at "0-0". *)
Claimable(S) ==
  /\ S \subseteq idle
  /\ \A m \in S, n \in idle \ S : m < n
  /\ Cardinality(S) <= ReclaimCount
  /\ S # idle => Cardinality(S) = ReclaimCount

(* XADD *)
DispatchTask(t) ==
  /\ stream' = Append(stream, t)
  /\ UNCHANGED <<delivered, pel, idle>>

(* Faulty variant: reads whether or not there is a new message. *)
ReadPastEnd ==
  /\ delivered' = delivered + 1
  /\ pel' = pel \cup {delivered + 1}
  /\ UNCHANGED <<stream, idle>>

(* XREADGROUP ">" COUNT 1: the next message moves to the pending list. *)
ReadNext ==
  /\ delivered < Len(stream)
  /\ delivered' = delivered + 1
  /\ pel' = pel \cup {delivered + 1}
  /\ UNCHANGED <<stream, idle>>

(* Faulty variant: what is claimed stays claimable. *)
AutoClaimKeepsIdle(S) ==
  /\ Claimable(S)
  /\ UNCHANGED <<stream, delivered, pel, idle>>

(* XAUTOCLAIM resets the idle time of what it returns. *)
AutoClaim(S) ==
  /\ Claimable(S)
  /\ idle' = idle \ S
  /\ UNCHANGED <<stream, delivered, pel>>

(* XACK; of no effect on a message already acknowledged. *)
XAck(m) ==
  /\ pel' = pel \ {m}
  /\ idle' = idle \ {m}
  /\ UNCHANGED <<stream, delivered>>

(* ReclaimMinIdle passes for a pending message. *)
MessageIdles(m) ==
  /\ m \in pel \ idle
  /\ idle' = idle \cup {m}
  /\ UNCHANGED <<stream, delivered, pel>>
=============================================================================
