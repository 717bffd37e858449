---------------------------- MODULE Idempotency ----------------------------
(***************************************************************************)
(* The record of one (handler_key, idempotency_key) in idempotency_records *)
(* (internal/db/idempotency.go), and the runs of the built-in handlers     *)
(* that use it (internal/handlers).  A run is one call of Handle, for one  *)
(* attempt of a task; the task is the record's owner.  Each statement of   *)
(* the store is its own transaction: BeginIdempotentTask is an insert and, *)
(* when the row exists, a separate select.  The phases of a run are        *)
(*   new       Handle not called yet                                       *)
(*   conflict  the insert found a row, which is to be selected             *)
(*   work      allowed to build its response and complete                  *)
(*   release   failed after Begin: about to delete its reservation         *)
(*   done      returned a response                                         *)
(*   failed    returned an error, or died with its worker                  *)
(***************************************************************************)
EXTENDS Naturals, FiniteSets

CONSTANTS
  Runs,          \* the calls of Handle
  Owner,         \* the task each run belongs to
  Decodable,     \* the tasks whose input is the JSON object Handle expects
  None,          \* no row, no response
  FaultCap       \* bound: worker crashes and failed statements

ASSUME RunAssumption ==
  /\ Owner \in [Runs -> {Owner[r] : r \in Runs}]
  /\ Decodable \subseteq {Owner[r] : r \in Runs}
  /\ None \notin Runs
  /\ None \notin {Owner[r] : r \in Runs}
  /\ FaultCap \in Nat

VARIABLES
  record,     \* the row, or None
  runPhase,   \* where each run is
  result,     \* the response each run returned, None if none
  faults,     \* crashes and failed statements so far
  overlapped  \* auxiliary: the tasks of which two runs were under way at once

idemVars == <<record, runPhase, result, faults, overlapped>>

Owners == {Owner[r] : r \in Runs}

(* A response is named by the run that built it: it holds the time. *)
Record == [status : {"in_progress", "completed"}, owner : Owners, response : Runs \cup {None}]

ASSUME NoneIsNoRow == None \notin Record

Phases == {"new", "conflict", "work", "release", "done", "failed"}

IdempotencyTypeOK ==
  /\ record \in Record \cup {None}
  /\ runPhase \in [Runs -> Phases]
  /\ result \in [Runs -> Runs \cup {None}]
  /\ faults \in Nat
  /\ overlapped \subseteq Owners

IdempotencyInit ==
  /\ record = None
  /\ runPhase = [r \in Runs |-> "new"]
  /\ result = [r \in Runs |-> None]
  /\ faults = 0
  /\ overlapped = {}

Goes(r, p) == runPhase' = [runPhase EXCEPT ![r] = p]

(* Runs between the call of Handle and its return. *)
Active == {r \in Runs : runPhase[r] \in {"conflict", "work", "release"}}

Completed == record # None /\ record.status = "completed"

OwnedBy(r) == record # None /\ record.owner = Owner[r]

-----------------------------------------------------------------------------
(* BeginIdempotentTask: INSERT ... ON CONFLICT DO NOTHING. *)
Reserve(r) ==
  /\ runPhase[r] = "new"
  /\ overlapped' = IF \E q \in Active : Owner[q] = Owner[r]
                   THEN overlapped \cup {Owner[r]} ELSE overlapped
  /\ IF record = None
     THEN /\ record' = [status |-> "in_progress", owner |-> Owner[r], response |-> None]
          /\ Goes(r, "work")
     ELSE Goes(r, "conflict") /\ UNCHANGED record
  /\ UNCHANGED <<result, faults>>

(* Faulty variant: a finished key of the same task is worked again. *)
SelectIgnoringStatus(r) ==
  /\ runPhase[r] = "conflict"
  /\ Goes(r, IF OwnedBy(r) THEN "work" ELSE "failed")
  /\ UNCHANGED <<record, result, faults, overlapped>>

(* BeginIdempotentTask: the SELECT.  A stored response is returned; the    *)
(* task's own reservation is resumed; a row of another task, or one that   *)
(* was deleted since the insert, is an error.                              *)
SelectExisting(r) ==
  /\ runPhase[r] = "conflict"
  /\ \/ /\ Completed
        /\ result' = [result EXCEPT ![r] = record.response]
        /\ Goes(r, "done")
     \/ /\ ~Completed
        /\ Goes(r, IF OwnedBy(r) THEN "work" ELSE "failed")
        /\ UNCHANGED result
  /\ UNCHANGED <<record, faults, overlapped>>

(* The input does not decode: no response is built. *)
DecodeFails(r) ==
  /\ runPhase[r] = "work"
  /\ Owner[r] \notin Decodable
  /\ Goes(r, "release")
  /\ UNCHANGED <<record, result, faults, overlapped>>

(* CompleteIdempotentTask's UPDATE, of the row with this owner, whatever   *)
(* its status.                                                             *)
WriteResponse(r) ==
  record' = IF OwnedBy(r)
            THEN [record EXCEPT !.status = "completed", !.response = r]
            ELSE record

(* The response is built and stored; no row to update is an error. *)
CompleteRun(r) ==
  /\ runPhase[r] = "work"
  /\ Owner[r] \in Decodable
  /\ WriteResponse(r)
  /\ IF OwnedBy(r)
     THEN Goes(r, "done") /\ result' = [result EXCEPT ![r] = r]
     ELSE Goes(r, "release") /\ UNCHANGED result
  /\ UNCHANGED <<faults, overlapped>>

(* Faulty variant: the row is deleted whatever its status. *)
DeleteAnyReservation(r) == record' = IF OwnedBy(r) THEN None ELSE record

(* ReleaseIdempotentTask's DELETE, of an unfinished row of this owner. *)
DeleteReservation(r) ==
  record' = IF OwnedBy(r) /\ ~Completed THEN None ELSE record

ReleaseRun(r) ==
  /\ runPhase[r] = "release"
  /\ DeleteReservation(r)
  /\ Goes(r, "failed")
  /\ UNCHANGED <<result, faults, overlapped>>

-----------------------------------------------------------------------------
(* The statement of CompleteIdempotentTask fails, having taken effect or   *)
(* not; the handler releases.                                              *)
CompleteErrs(r) ==
  /\ faults < FaultCap
  /\ runPhase[r] = "work"
  /\ Owner[r] \in Decodable
  /\ WriteResponse(r) \/ UNCHANGED record
  /\ Goes(r, "release")
  /\ faults' = faults + 1
  /\ UNCHANGED <<result, overlapped>>

(* The worker dies; or the insert or the select fails, or the release,     *)
(* whose error is dropped.  The insert may have taken effect.              *)
RunDies(r) ==
  /\ faults < FaultCap
  /\ r \in Active
  /\ Goes(r, "failed")
  /\ faults' = faults + 1
  /\ UNCHANGED <<record, result, overlapped>>

-----------------------------------------------------------------------------
IdempotencyNext ==
  \E r \in Runs :
    \/ Reserve(r) \/ SelectExisting(r) \/ DecodeFails(r) \/ CompleteRun(r)
    \/ ReleaseRun(r) \/ CompleteErrs(r) \/ RunDies(r)

IdempotencySpec == IdempotencyInit /\ [][IdempotencyNext]_idemVars

-----------------------------------------------------------------------------
(* What a run returned to the engine is backed by a stored response: no    *)
(* overlap, failed statement or late release of another run takes the      *)
(* record away again.                                                      *)
ReturnedIsStored == \A r \in Runs : runPhase[r] = "done" => Completed

(* A stored response stays the property of the task that stored it: the    *)
(* record is never deleted, reopened or given to another task.             *)
StoredIsKept ==
  [][Completed => /\ record' # None
                  /\ record'.status = "completed"
                  /\ record'.owner = record.owner]_idemVars

(* As long as no attempts of a task have overlapped, every run that        *)
(* returns, however many there are and whatever failed between them,       *)
(* returns the response that is stored.                                    *)
SameResponse ==
  overlapped = {} => \A r \in Runs : runPhase[r] = "done" => result[r] = record.response

(* As long as no attempts of a task have overlapped, runs of two tasks are *)
(* never both at work on the key, and the one at work holds the row.       *)
KeyIsExclusive ==
  overlapped = {} =>
    \A r \in Runs : runPhase[r] = "work" =>
      /\ OwnedBy(r) /\ ~Completed
      /\ \A q \in Runs \ {r} : runPhase[q] # "work"
=============================================================================
