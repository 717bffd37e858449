------------------------------ MODULE MCCalls ------------------------------
(***************************************************************************)
(* The two places where a call is made again because its outcome is not    *)
(* known, one of them at a time: requests to the HTTP API whose reply was  *)
(* lost, and runs of a handler whose statements failed or whose worker     *)
(* died.                                                                   *)
(*                                                                         *)
(* Requests: two clients and one workflow of two tasks.  Handlers: three   *)
(* runs of one task and two of another that uses the same key and whose    *)
(* input does not decode.                                                  *)
(***************************************************************************)
EXTENDS Api, Idempotency, TLC

CONSTANTS c1, c2, a, b, e1, r1, r2, r3, r4, r5, t1, t2

MCNextTask == (a :> b) @@ (b :> NoTask)

MCOwner == [r \in Runs |-> IF r \in {r1, r2, r3} THEN t1 ELSE t2]

Symmetry == Permutations({c1, c2})

-----------------------------------------------------------------------------
VARIABLE part   \* what is called

callVars == <<part, storeVars, apiVars, idemVars>>

CallsInit == part \in {"requests", "handlers"} /\ ApiInit /\ IdempotencyInit

CallsNext ==
  /\ \/ part = "requests" /\ ApiNext /\ UNCHANGED idemVars
     \/ part = "handlers" /\ IdempotencyNext /\ UNCHANGED <<storeVars, apiVars>>
  /\ UNCHANGED part

CallsSpec == CallsInit /\ [][CallsNext]_callVars
=============================================================================
