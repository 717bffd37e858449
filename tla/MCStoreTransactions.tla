------------------------ MODULE MCStoreTransactions ------------------------
(* Instances of StoreTransactions for TLC: a definition of two tasks. *)
EXTENDS StoreTransactions, TLC

CONSTANTS e1, s1, s2, s3, a, b

MCNextTask == (a :> b) @@ (b :> NoTask)

SessionSymmetry == Permutations(Sessions)
=============================================================================
