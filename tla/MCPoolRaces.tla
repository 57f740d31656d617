----------------------------- MODULE MCPoolRaces -----------------------------
(* PoolRaces on small instances.                                           *)
EXTENDS PoolRaces, TLC

\* Threads, connections and requests are interchangeable.
Symmetry == Permutations(Threads) \cup Permutations(Conns) \cup Permutations(Requests)
=============================================================================
