---------------------------- MODULE MCBenchRun ----------------------------
(* Instances of BenchRun for TLC: a definition of two tasks, of which the  *)
(* first may be tried twice.                                               *)
EXTENDS BenchRun, TLC

CONSTANTS e1, w1, w2, p1, p2, a, b

MCNextTask    == (a :> b) @@ (b :> NoTask)
MCMaxAttempts == (a :> 2) @@ (b :> 0)
MCRegistered  == {a, b}
=============================================================================
