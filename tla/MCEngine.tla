------------------------------ MODULE MCEngine ------------------------------
(* Instances of Engine for TLC: a definition of two tasks, of which the    *)
(* first may be tried twice.                                               *)
EXTENDS Engine, TLC

CONSTANTS e1, w1, w2, p1, p2, a, b

MCNextTask    == (a :> b) @@ (b :> NoTask)
MCMaxAttempts == (a :> 2) @@ (b :> 0)
MCRegistered  == {a, b}

(* A definition of one task. *)
MCSingleNext       == a :> NoTask
MCSingleMax        == a :> 2
MCSingleRegistered == {a}

Symmetry == Permutations({w1, w2}) \cup Permutations({p1, p2})
=============================================================================
