------------------------------ MODULE PoolLife ------------------------------
(***************************************************************************)
(* The life of a connection pool as the service sees it: how many          *)
(* connections it has, whether it was closed, and how often it called the  *)
(* callback that close was given.  ConnectionPool implements this          *)
(* (ImplementsPoolLife); RedisService is built on it.                      *)
(***************************************************************************)
EXTENDS Naturals

\* connection_pool::create opens the first connection.
FreshPool == [live |-> 1, closed |-> FALSE, calls |-> 0]

\* close_connections terminates k connections at once.  The last connection of
\* a pool makes a call, and so does close_connections itself.
Swept(p, k) ==
  [p EXCEPT !.live = @ - k,
            !.calls = @ + (IF k > 0 /\ k = p.live THEN 2 ELSE 1)]

\* A request: the pool may grow.
AfterRequest(p, size) ==
  {p} \cup IF p.closed \/ p.live >= size THEN {} ELSE {[p EXCEPT !.live = @ + 1]}

\* close: with requests waiting, the busy connections see to it later.
AfterClose(p) ==
  LET q == [p EXCEPT !.closed = TRUE]
  IN  IF p.closed THEN {p}
      ELSE {Swept(q, k) : k \in 0..q.live} \cup IF q.live > 0 THEN {q} ELSE {}

\* A handler: a connection is lost, or one that has nothing left to do sweeps
\* the closed pool, itself included.
AfterHandler(p) ==
  (IF p.live > 0
     THEN {[p EXCEPT !.live = @ - 1,
                     !.calls = @ + (IF p.closed /\ p.live = 1 THEN 1 ELSE 0)]}
     ELSE {})
  \cup IF p.closed THEN {Swept(p, k) : k \in 1..p.live} ELSE {}
=============================================================================
