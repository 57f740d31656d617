-------------------------- MODULE MCConnectionPool --------------------------
(***************************************************************************)
(* ConnectionPool on small instances, and what the repository's comments   *)
(* and documentation say of it that the code does not do.                  *)
(***************************************************************************)
EXTENDS ConnectionPool, TLC

\* Connections and requests are interchangeable.
Symmetry == Permutations(Conns) \cup Permutations(Requests)

\* README.md:45, of the error callback of execute: it handles errors "from
\* Redis, the library and the user".  So a submitted request gets a callback.
EveryRequestAnswered ==
  \A r \in Requests : r \in submitted ~> called[r] # <<>>

\* error.hpp:46-47: a connection_error "Includes network and authentication
\* failures".  So a request that waits while AUTH is refused gets an error.
AuthFailureReported == \A r \in Requests : r \in Waiting ~> r \notin Waiting
=============================================================================
