---------------------------- MODULE RedisService ----------------------------
(***************************************************************************)
(* rd_service, its static redis_impl and the pools of each redis_impl, as  *)
(* called by several threads.  A call first takes a copy of the shared     *)
(* pointer under the lock (impl()) and then works on the redis_impl it     *)
(* got, without a lock: stop may come between the two.  stop keeps the     *)
(* lock, so a new redis_impl is only made after it.                        *)
(*                                                                         *)
(* The pools are those of PoolLife.  Their handlers run while a thread is  *)
(* in run and the io_service was not stopped.                              *)
(***************************************************************************)
EXTENDS Integers, FiniteSets, PoolLife

CONSTANTS Threads, Aliases,
          None,        \* no thread
          PoolSize,    \* of every pool
          Instances    \* how many redis_impl are made: 1..Instances

ASSUME PoolSizeAssumption == PoolSize \in Nat \ {0}
ASSUME InstancesAssumption == Instances \in Nat
ASSUME NoneAssumption == None \notin Threads

VARIABLES
  pimpl,       \* impl_ptr(): a redis_impl, or 0
  created,     \* how many there have been
  state,       \* state_ of each
  connections, \* connections_ of each: the aliases registered
  pool,        \* the pool of an alias; pools outlive their registration
  pool_count,  \* the count the close callbacks share (a size_t; see Count)
  stopped,     \* the io_service of each was stopped
  call,        \* what each thread is doing, and on which redis_impl
  stopper,     \* the thread in stop, perhaps from a handler in run
  toClose      \* pools its loop has not reached

vars == <<pimpl, created, state, connections, pool, pool_count, stopped,
          call, stopper, toClose>>

Ids == 1..Instances
Ops == {"add", "execute", "run"}
NoCall == [op |-> "none", on |-> 0]
NoPool == [live |-> 0, closed |-> FALSE, calls |-> -1]

Init ==
  /\ pimpl = 0 /\ created = 0
  /\ state = [i \in Ids |-> "running"]
  /\ connections = [i \in Ids |-> {}]
  /\ pool = [i \in Ids |-> [a \in Aliases |-> NoPool]]
  /\ pool_count = [i \in Ids |-> 0]
  /\ stopped = [i \in Ids |-> FALSE]
  /\ call = [t \in Threads |-> NoCall]
  /\ stopper = None /\ toClose = {}

-----------------------------------------------------------------------------
(* Calls.                                                                  *)

Returns(t) == call' = [call EXCEPT ![t] = NoCall]

\* rd_service::stop holds db_service_lock.
Unlocked == stopper = None

\* impl(): the redis_impl, made anew if there is none.
Enter(t, op) ==
  /\ call[t] = NoCall /\ Unlocked
  /\ pimpl' = IF pimpl = 0 THEN created + 1 ELSE pimpl
  /\ pimpl' \in Ids
  /\ created' = IF pimpl = 0 THEN created + 1 ELSE created
  /\ call' = [call EXCEPT ![t] = [op |-> op, on |-> pimpl']]
  /\ UNCHANGED <<state, connections, pool, pool_count, stopped, stopper, toClose>>

\* state_ is not running: connection_error.
Throw(t) ==
  /\ call[t].op \in {"add", "execute"} /\ state[call[t].on] # "running"
  /\ Returns(t)
  /\ UNCHANGED <<pimpl, created, state, connections, pool, pool_count, stopped,
                 stopper, toClose>>

\* Seeded fault: state_ is not looked at.
AddUnchecked(t) ==
  LET i == call[t].on IN
  /\ call[t].op = "add"
  /\ \E a \in Aliases \ connections[i] :
       /\ connections' = [connections EXCEPT ![i] = @ \cup {a}]
       /\ pool' = [pool EXCEPT ![i][a] = FreshPool]
  /\ Returns(t)
  /\ UNCHANGED <<pimpl, created, state, pool_count, stopped, stopper, toClose>>

\* add_pool: a new alias gets a pool.
Add(t) ==
  LET i == call[t].on IN
  /\ call[t].op = "add" /\ state[i] = "running"
  /\ \E a \in Aliases \ connections[i] :
       /\ connections' = [connections EXCEPT ![i] = @ \cup {a}]
       /\ pool' = [pool EXCEPT ![i][a] = FreshPool]
  /\ Returns(t)
  /\ UNCHANGED <<pimpl, created, state, pool_count, stopped, stopper, toClose>>

\* Seeded fault: the pool grows beyond its size.
ExecuteOneMore(t) ==
  LET i == call[t].on IN
  /\ call[t].op = "execute" /\ state[i] = "running"
  /\ \E a \in connections[i] : \E p \in AfterRequest(pool[i][a], PoolSize + 1) :
       pool' = [pool EXCEPT ![i][a] = p]
  /\ Returns(t)
  /\ UNCHANGED <<pimpl, created, state, connections, pool_count, stopped,
                 stopper, toClose>>

\* get_connection of a registered alias.
Execute(t) ==
  LET i == call[t].on IN
  /\ call[t].op = "execute" /\ state[i] = "running"
  /\ \E a \in connections[i] : \E p \in AfterRequest(pool[i][a], PoolSize) :
       pool' = [pool EXCEPT ![i][a] = p]
  /\ Returns(t)
  /\ UNCHANGED <<pimpl, created, state, connections, pool_count, stopped,
                 stopper, toClose>>

\* add of a registered alias changes nothing; execute of an unregistered one
\* throws.
NothingToDo(t) ==
  LET i == call[t].on IN
  /\ \/ call[t].op = "add" /\ state[i] = "running" /\ connections[i] # {}
     \/ call[t].op = "execute" /\ state[i] = "running" /\ connections[i] # Aliases
  /\ Returns(t)
  /\ UNCHANGED <<pimpl, created, state, connections, pool, pool_count, stopped,
                 stopper, toClose>>

\* io_service::run returns when it was stopped, or when nothing is left to do:
\* every live connection has a read pending.
RunReturns(t) ==
  LET i == call[t].on IN
  /\ call[t].op = "run" /\ t # stopper
  /\ stopped[i] \/ \A a \in Aliases : pool[i][a].live = 0
  /\ Returns(t)
  /\ UNCHANGED <<pimpl, created, state, connections, pool, pool_count, stopped,
                 stopper, toClose>>

-----------------------------------------------------------------------------
(* Stopping.                                                               *)

\* Seeded fault: the callback tests the count before it decrements it.
CountTestedFirst(i, n) ==
  /\ pool_count' = [pool_count EXCEPT ![i] = @ - n]
  /\ stopped' = [stopped EXCEPT ![i] = @ \/ pool_count[i] \in 0..(n - 1)]

\* The close callback runs n times: it counts down, and at zero it stops the
\* io_service.  What is below zero stands for the values a size_t wraps around
\* to, from where zero is out of reach.
Count(i, n) ==
  /\ pool_count' = [pool_count EXCEPT ![i] = @ - n]
  /\ stopped' = [stopped EXCEPT ![i] = @ \/ pool_count[i] \in 1..n]

\* A pool takes a step, with the callbacks it makes.
PoolStep(i, a, after) ==
  \E p \in after :
    /\ pool' = [pool EXCEPT ![i][a] = p]
    /\ Count(i, p.calls - pool[i][a].calls)

\* redis_impl::stop.  (Were there no redis_impl, or were it closing, stop would
\* only reset a pointer that is null then.)
StopBegin(t) ==
  /\ call[t].op \in {"none", "run"} /\ Unlocked
  /\ pimpl # 0
  /\ stopper' = t
  /\ state' = [state EXCEPT ![pimpl] = "closing"]
  /\ pool_count' = [pool_count EXCEPT ![pimpl] = Cardinality(connections[pimpl])]
  /\ toClose' = connections[pimpl]
  /\ UNCHANGED <<pimpl, created, connections, pool, stopped, call>>

\* Seeded fault: the loop ends when the io_service is stopped.
ClosePoolUntilStopped ==
  /\ toClose # {}
  /\ IF stopped[pimpl]
       THEN toClose' = {} /\ UNCHANGED <<pool, pool_count, stopped>>
       ELSE \E a \in toClose :
              /\ toClose' = toClose \ {a}
              /\ PoolStep(pimpl, a, AfterClose(pool[pimpl][a]))
  /\ UNCHANGED <<pimpl, created, state, connections, call, stopper>>

\* One round of its loop.
ClosePool ==
  /\ \E a \in toClose :
       /\ toClose' = toClose \ {a}
       /\ PoolStep(pimpl, a, AfterClose(pool[pimpl][a]))
  /\ UNCHANGED <<pimpl, created, state, connections, call, stopper>>

\* The pools are forgotten, and so is the redis_impl.
StopEnd ==
  /\ stopper # None /\ toClose = {}
  /\ connections' = [connections EXCEPT ![pimpl] = {}]
  /\ pimpl' = 0
  /\ stopper' = None
  /\ UNCHANGED <<created, state, pool, pool_count, stopped, call, toClose>>

\* A handler of a pool runs.
Handler(i, a) ==
  /\ ~stopped[i]
  /\ \E t \in Threads \ {stopper} : call[t] = [op |-> "run", on |-> i]
  /\ PoolStep(i, a, AfterHandler(pool[i][a]))
  /\ UNCHANGED <<pimpl, created, state, connections, call, stopper, toClose>>

-----------------------------------------------------------------------------
\* A call goes on.
Proceed(t) == Throw(t) \/ Add(t) \/ Execute(t) \/ NothingToDo(t) \/ RunReturns(t)

Next ==
  \/ \E t \in Threads : \/ \E op \in Ops : Enter(t, op)
                        \/ StopBegin(t) \/ Proceed(t)
  \/ ClosePool \/ StopEnd
  \/ \E i \in Ids, a \in Aliases : Handler(i, a)

Spec == Init /\ [][Next]_vars

\* Threads go on with their calls; a closed pool ends, as ConnectionPool's does
\* (CloseCompletes).
Fairness ==
  /\ \A t \in Threads : WF_vars(Proceed(t))
  /\ WF_vars(ClosePool) /\ WF_vars(StopEnd)
  /\ \A i \in Ids, a \in Aliases : WF_vars(pool[i][a].closed /\ Handler(i, a))

FairSpec == Spec /\ Fairness

-----------------------------------------------------------------------------
(* Properties.                                                             *)

Pools == [live : 0..PoolSize, closed : BOOLEAN, calls : Int]

\* Every variable stays in its set; one call of stop at a time.
TypeOK ==
  /\ pimpl \in 0..Instances /\ created \in 0..Instances
  /\ state \in [Ids -> {"running", "closing"}]
  /\ connections \in [Ids -> SUBSET Aliases]
  /\ pool \in [Ids -> [Aliases -> Pools]]
  /\ pool_count \in [Ids -> Int]
  /\ stopped \in [Ids -> BOOLEAN]
  /\ call \in [Threads -> {NoCall} \cup [op : Ops, on : Ids]]
  /\ stopper \in Threads \cup {None} /\ toClose \subseteq Aliases

\* Once stop returned, no pool of that redis_impl is open, although threads that
\* got hold of it before go on with add_connection and execute.  One left open
\* would keep its connections, and run, going for ever.
StopReachesEveryPool ==
  \A i \in Ids : i # pimpl /\ i <= created =>
    \A a \in Aliases : pool[i][a] # NoPool => pool[i][a].closed

\* The count of the close callbacks is not too high: when each pool has made a
\* call, the io_service is stopped.
LastPoolStops ==
  \A i \in Ids :
    LET made == {a \in Aliases : pool[i][a] # NoPool}
    IN  state[i] = "closing" /\ made # {} /\ (\A a \in made : pool[i][a].calls > 0)
          => stopped[i]

\* A call of run on a redis_impl that is stopped comes to an end.
RunEnds ==
  \A t \in Threads, i \in Ids :
    call[t] = [op |-> "run", on |-> i] /\ state[i] = "closing"
      ~> call[t] # [op |-> "run", on |-> i]
=============================================================================
