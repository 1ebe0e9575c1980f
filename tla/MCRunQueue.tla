------------------------------ MODULE MCRunQueue ------------------------------
(* RunQueue on small instances: workers and requests are interchangeable. *)
EXTENDS RunQueue, TLC

Symmetry == Permutations(Workers) \union Permutations(Clients)
===============================================================================
