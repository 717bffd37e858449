----------------------------- MODULE MCStartup -----------------------------
(* An API process and a worker of the current release, and a worker of an  *)
(* older one.                                                              *)
EXTENDS Startup, TLC

CONSTANTS api, worker, old

MCRelease == (api :> 2) @@ (worker :> 2) @@ (old :> 1)
=============================================================================
