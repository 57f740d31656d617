--------------------------- MODULE MCRedisService ---------------------------
(***************************************************************************)
(* RedisService on small instances, and what a comment of the repository   *)
(* says of stop that the code does not do.                                 *)
(***************************************************************************)
EXTENDS RedisService, TLC

Symmetry == Permutations(Threads) \cup Permutations(Aliases)

\* redis_impl.cpp:74-75: "Call stop only when all connections are closed".
StoppedMeansClosed ==
  \A i \in Ids : stopped[i] => \A a \in Aliases : pool[i][a].live = 0
=============================================================================
