------------------------------ MODULE PoolRaces ------------------------------
(***************************************************************************)
(* One connection_pool used by several threads, those in io_service::run   *)
(* and those that submit requests: every critical section of event_mutex_  *)
(* and conn_mutex_, every read of closed_ and every read of connections_   *)
(* without its lock is a step.  A short critical section is one step,      *)
(* enabled while no other thread holds the (recursive) mutex; a mutex held *)
(* over several steps has an owner.                                        *)
(*                                                                         *)
(* A connection's machine is what ConnectionPool makes of it, without AUTH. *)
(* It handles one event at a time: what reaches it in the middle of one is *)
(* queued (Boost.MSM does so with a flag and a queue that are not made for *)
(* threads; the races of that are outside the model).                      *)
(***************************************************************************)
EXTENDS Naturals, Sequences, FiniteSets

CONSTANTS Threads, Conns, Requests,
          PoolSize, \* pool_size_
          None      \* no thread, no connection, no request

ASSUME PoolSizeAssumption == PoolSize \in Nat \ {0}
ASSUME ThreadsAssumption == IsFiniteSet(Threads) /\ Threads # {}
ASSUME NoneAssumption == None \notin Threads \cup Conns \cup Requests

VARIABLES
  connections, \* connections_
  ready,       \* ready_connections_
  queue,       \* queue_
  closed,      \* closed_
  callback,    \* closed_callback_ is set
  told,        \* closed_callback_ was called
  eventLock,   \* the thread that holds event_mutex_ between its steps
  connLock,    \* ... and conn_mutex_
  fsm,         \* state of each machine; "entering" and "ending" are its
               \* transitions to idle and to terminated
  deferred,    \* machines with a deferred terminate
  mail,        \* events queued in the middle of a transition: requests to
               \* execute, and None for terminate
  inflight,    \* query::query_
  source,      \* the state each machine was in when its link failed
  deaf,        \* machines whose link failed, and that a throwing callback kept
               \* out of terminated
  pc, ret,     \* where a thread is; where it goes on after get_connection or close
  conn,        \* the connection whose handler it runs
  req, target, \* in get_connection: the request, and the connection for it
  todo,        \* in close_connections: the connections still to be terminated
  over,        \* history: requests answered, refused, failed or lost
  early,       \* history: connections with a handler started before
               \* create_new_connection put them in connections_
  swept        \* history: close_connections has gone through connections_

poolVars == <<connections, ready, queue>>
closeVars == <<closed, callback, told>>
locks == <<eventLock, connLock>>
linkVars == <<source, deaf>>
machineVars == <<fsm, deferred, mail, inflight, linkVars>>
shared == <<poolVars, closeVars, locks, machineVars>>
locals == <<conn, req, target, todo>>
history == <<over, early, swept>>
vars == <<shared, pc, ret, locals, history>>

Nobody == [t \in Threads |-> None]

Init ==
  /\ \E c \in Conns : /\ connections = {c}
                      /\ fsm = [d \in Conns |-> IF d = c THEN "connecting" ELSE "unplugged"]
  /\ ready = <<>> /\ queue = <<>>
  /\ closed = FALSE /\ callback = FALSE /\ told = FALSE
  /\ eventLock = None /\ connLock = None
  /\ deferred = {} /\ mail = [c \in Conns |-> <<>>]
  /\ inflight = [c \in Conns |-> None]
  /\ source = [c \in Conns |-> "unplugged"] /\ deaf = {}
  /\ pc = [t \in Threads |-> "loop"] /\ ret = [t \in Threads |-> "loop"]
  /\ conn = Nobody /\ req = Nobody /\ target = Nobody
  /\ todo = [t \in Threads |-> {}]
  /\ over = {} /\ early = {} /\ swept = FALSE

\* The mutex can be taken by t at once.
Free(lock, t) == lock \in {None, t}

Goto(t, here, there) == pc[t] = here /\ pc' = [pc EXCEPT ![t] = there]

\* A step that changes nothing but where the thread is.
Branch(t, here, there) == Goto(t, here, there) /\ UNCHANGED <<shared, ret, locals, history>>

\* get_connection and close are called from the loop, or from an error callback of
\* clear_queue, and return there.
Call(t, there) ==
  /\ pc[t] \in {"loop", "callback"}
  /\ pc' = [pc EXCEPT ![t] = there] /\ ret' = [ret EXCEPT ![t] = pc[t]]

Return(t, here) == Goto(t, here, ret[t]) /\ ret' = [ret EXCEPT ![t] = "loop"]

Elements(s) == {s[i] : i \in 1..Len(s)}

\* Requests that were submitted already.
Submitted == over \cup Elements(queue) \cup (UNION {Elements(mail[c]) : c \in Conns})
             \cup {inflight[c] : c \in Conns} \cup {req[t] : t \in Threads}

-----------------------------------------------------------------------------
(* get_connection.                                                         *)

\* A closed pool calls the error callback at once.
Refuse(t, r) ==
  /\ pc[t] \in {"loop", "callback"} /\ r \in Requests \ Submitted /\ closed
  /\ over' = over \cup {r}
  /\ UNCHANGED <<shared, pc, ret, locals, early, swept>>

\* This one is open, at this moment.
Submit(t, r) ==
  /\ r \in Requests \ Submitted /\ ~closed
  /\ Call(t, "get_idle")
  /\ req' = [req EXCEPT ![t] = r]
  /\ UNCHANGED <<shared, conn, target, todo, history>>

\* get_idle_connection looks at closed_ ...
GetIdle(t) == Branch(t, "get_idle", IF closed THEN "grow" ELSE "pop_idle")

NoneIdle(t) == Free(connLock, t) /\ ready = <<>> /\ Branch(t, "pop_idle", "grow")

\* Seeded fault: the connection is copied and not popped.
PopIdleNotPopping(t) ==
  /\ Free(connLock, t) /\ ready # <<>>
  /\ Goto(t, "pop_idle", "execute")
  /\ target' = [target EXCEPT ![t] = Head(ready)]
  /\ UNCHANGED <<shared, ret, conn, req, todo, history>>

\* ... and then takes the first idle connection.
PopIdle(t) ==
  /\ Free(connLock, t) /\ ready # <<>>
  /\ Goto(t, "pop_idle", "execute")
  /\ target' = [target EXCEPT ![t] = Head(ready)]
  /\ ready' = Tail(ready)
  /\ UNCHANGED <<connections, queue, closeVars, locks, machineVars, ret, conn, req,
                 todo, history>>

\* conn->execute: an idle machine takes the request, one in a transition queues
\* it, a terminated one ignores it.
Execute(t) ==
  /\ Return(t, "execute")
  /\ LET c == target[t] IN
     \/ /\ fsm[c] = "idle"
        /\ fsm' = [fsm EXCEPT ![c] = "query"]
        /\ inflight' = [inflight EXCEPT ![c] = req[t]]
        /\ UNCHANGED <<mail, over>>
     \/ /\ fsm[c] \in {"entering", "ending"}
        /\ mail' = [mail EXCEPT ![c] = Append(@, req[t])]
        /\ UNCHANGED <<fsm, inflight, over>>
     \/ /\ fsm[c] \notin {"idle", "entering", "ending"}
        /\ over' = over \cup {req[t]}
        /\ UNCHANGED <<fsm, inflight, mail>>
  /\ target' = [target EXCEPT ![t] = None] /\ req' = [req EXCEPT ![t] = None]
  /\ UNCHANGED <<poolVars, closeVars, locks, linkVars, deferred, conn, todo, early, swept>>

\* Seeded fault: the size is compared with <=.
GrowOneMore(t) ==
  Branch(t, "grow", IF ~closed /\ Cardinality(connections) <= PoolSize
                      THEN "create" ELSE "enqueue")

\* connections_.size() is read without conn_mutex_.
Grow(t) ==
  Branch(t, "grow", IF ~closed /\ Cardinality(connections) < PoolSize
                      THEN "create" ELSE "enqueue")

\* create_new_connection looks at closed_ once more.
CreateNone(t) == closed /\ Branch(t, "create", "enqueue")

\* The machine starts to connect before anybody can find it in connections_.
Create(t) ==
  /\ ~closed
  /\ Goto(t, "create", "list")
  /\ \E c \in Conns : /\ fsm[c] = "unplugged"
                      /\ fsm' = [fsm EXCEPT ![c] = "connecting"]
                      /\ target' = [target EXCEPT ![t] = c]
  /\ UNCHANGED <<poolVars, closeVars, locks, linkVars, deferred, mail, inflight, ret, conn, req,
                 todo, history>>

\* Seeded fault: conn_mutex_ is kept until the request is in queue_.
ListHoldingOn(t) ==
  /\ Free(connLock, t) /\ connLock' = t
  /\ Goto(t, "list", "enqueue")
  /\ connections' = connections \cup {target[t]}
  /\ target' = [target EXCEPT ![t] = None]
  /\ UNCHANGED <<ready, queue, closeVars, eventLock, machineVars, ret, conn, req, todo,
                 history>>

List(t) ==
  /\ Free(connLock, t)
  /\ Goto(t, "list", "enqueue")
  /\ connections' = connections \cup {target[t]}
  /\ target' = [target EXCEPT ![t] = None]
  /\ UNCHANGED <<ready, queue, closeVars, locks, machineVars, ret, conn, req, todo,
                 history>>

\* enqueue_event, whatever happened to the pool meanwhile.
Enqueue(t) ==
  /\ Free(eventLock, t)
  /\ Return(t, "enqueue")
  /\ queue' = Append(queue, req[t])
  /\ req' = [req EXCEPT ![t] = None]
  /\ UNCHANGED <<connections, ready, closeVars, locks, machineVars, conn, target, todo,
                 history>>

-----------------------------------------------------------------------------
(* close and close_connections.                                            *)

\* The exchange of closed_.
Close(t) ==
  /\ ~closed /\ closed' = TRUE
  /\ Call(t, "close")
  /\ UNCHANGED <<poolVars, callback, told, locks, machineVars, locals, history>>

\* closed_callback_ is set after it.
CloseSetsCallback(t) ==
  /\ Goto(t, "close", "close_lock")
  /\ callback' = TRUE
  /\ UNCHANGED <<poolVars, closed, told, locks, machineVars, ret, locals, history>>

\* With requests waiting, the rest is left to the connections.
CloseLeaves(t) ==
  /\ Free(eventLock, t) /\ queue # <<>>
  /\ Return(t, "close_lock")
  /\ UNCHANGED <<shared, locals, history>>

\* Else close_connections runs under event_mutex_.
CloseSweeps(t) ==
  /\ Free(eventLock, t) /\ queue = <<>>
  /\ Goto(t, "close_lock", "sweep")
  /\ eventLock' = t
  /\ UNCHANGED <<poolVars, closeVars, connLock, machineVars, ret, locals, history>>

\* close_connections looks whether connections_ is empty without a lock ...
SweepNone(t) ==
  /\ connections = {}
  /\ Goto(t, "sweep", "sweep_end")
  /\ swept' = TRUE
  /\ UNCHANGED <<shared, ret, locals, over, early>>

SweepSome(t) == connections # {} /\ Branch(t, "sweep", "sweep_lock")

\* ... and then copies it under conn_mutex_, which it keeps.
SweepCopies(t) ==
  /\ Free(connLock, t)
  /\ Goto(t, "sweep_lock", "sweeping")
  /\ connLock' = t
  /\ todo' = [todo EXCEPT ![t] = connections]
  /\ UNCHANGED <<poolVars, closeVars, eventLock, machineVars, ret, conn, req, target,
                 history>>

\* Seeded fault: the callback is left to close_connections.
TellNobody(left) == UNCHANGED told

\* connection_terminated calls the callback of the last connection that goes.
TellIfLast(left) == told' = (told \/ (closed /\ callback /\ left = {}))

\* terminate: an idle machine is gone at once (its connection_terminated runs
\* here, under the same mutex); one that waits defers the event, one in a
\* transition queues it, a terminated one ignores it.
SweepOne(t) ==
  /\ pc[t] = "sweeping"
  /\ \E c \in todo[t] :
       /\ todo' = [todo EXCEPT ![t] = @ \ {c}]
       /\ IF fsm[c] = "idle"
            THEN /\ fsm' = [fsm EXCEPT ![c] = "terminated"]
                 /\ connections' = connections \ {c}
                 /\ TellIfLast(connections')
            ELSE UNCHANGED <<fsm, connections, told>>
       /\ deferred' = deferred \cup {d \in {c} : fsm[d] \in {"connecting", "query"}}
       /\ mail' = IF fsm[c] \in {"entering", "ending"}
                    THEN [mail EXCEPT ![c] = Append(@, None)] ELSE mail
  /\ UNCHANGED <<ready, queue, closed, callback, locks, linkVars, inflight, pc, ret, conn, req,
                 target, history>>

SweepUnlocks(t) ==
  /\ todo[t] = {}
  /\ Goto(t, "sweeping", "sweep_end")
  /\ connLock' = None
  /\ swept' = TRUE
  /\ UNCHANGED <<poolVars, closeVars, eventLock, machineVars, ret, locals, over, early>>

\* The close callback is called, and close_connections returns to connection_ready,
\* which runs for a connection, or to close, which lets go of event_mutex_, unless
\* clear_queue holds it, whose callback called close.
SweepEnds(t) ==
  /\ told' = (told \/ callback)
  /\ \/ /\ conn[t] # None /\ ret[t] = "loop"
        /\ Goto(t, "sweep_end", "settle")
        /\ UNCHANGED <<ret, eventLock>>
     \/ /\ conn[t] = None \/ ret[t] = "callback"
        /\ Return(t, "sweep_end")
        /\ eventLock' = IF ret[t] = "callback" THEN eventLock ELSE None
  /\ UNCHANGED <<poolVars, closed, callback, connLock, machineVars, locals, history>>

-----------------------------------------------------------------------------
(* Handlers of connections.                                                *)

\* A handler of c starts in thread t; the request c was executing is over.
Start(t, c, transition) ==
  /\ conn' = [conn EXCEPT ![t] = c]
  /\ fsm' = [fsm EXCEPT ![c] = transition]
  /\ early' = early \cup ({c} \ connections)
  /\ over' = over \cup ({inflight[c]} \ {None})
  /\ inflight' = [inflight EXCEPT ![c] = None]
  /\ UNCHANGED <<poolVars, closeVars, locks, deferred, mail, ret, req, target, todo, swept>>

\* c is connected, or its request answered: it enters idle, connection_ready.
Answer(t, c) ==
  /\ fsm[c] \in {"connecting", "query"} /\ c \notin deaf
  /\ Goto(t, "loop", "next_event")
  /\ Start(t, c, "entering")
  /\ UNCHANGED linkVars

\* The link of c fails: connection_error.  (Where the link is gone already, only a
\* write can fail.)
Fail(t, c) ==
  /\ fsm[c] \in IF c \in deaf THEN {"query"} ELSE {"connecting", "idle", "query"}
  /\ Goto(t, "loop", "erase_none")
  /\ Start(t, c, "ending")
  /\ source' = [source EXCEPT ![c] = fsm[c]]
  /\ UNCHANGED deaf

\* Seeded fault: the request is copied and not popped.
NextEventNotPopping(t) ==
  /\ Free(eventLock, t) /\ queue # <<>>
  /\ Goto(t, "next_event", "settle")
  /\ mail' = [mail EXCEPT ![conn[t]] = Append(@, Head(queue))]
  /\ UNCHANGED <<poolVars, closeVars, locks, linkVars, fsm, deferred, inflight,
                 ret, locals, history>>

\* next_event: the oldest waiting request is queued to the machine.
NextEvent(t) ==
  /\ Free(eventLock, t) /\ queue # <<>>
  /\ Goto(t, "next_event", "settle")
  /\ queue' = Tail(queue)
  /\ mail' = [mail EXCEPT ![conn[t]] = Append(@, Head(queue))]
  /\ UNCHANGED <<connections, ready, closeVars, locks, linkVars, fsm, deferred, inflight,
                 ret, locals, history>>

NoEvent(t) == Free(eventLock, t) /\ queue = <<>> /\ Branch(t, "next_event", "ready_closed")

\* closed_ is looked at by connection_ready, and again by add_idle_connection.
ReadyClosed(t) == Branch(t, "ready_closed", IF closed THEN "sweep" ELSE "park")
ParkClosed(t) == Branch(t, "park", IF closed THEN "settle" ELSE "push_idle")

PushIdle(t) ==
  /\ Free(connLock, t)
  /\ Goto(t, "push_idle", "settle")
  /\ ready' = Append(ready, conn[t])
  /\ UNCHANGED <<connections, queue, closeVars, locks, machineVars, ret, locals, history>>

\* A machine in idle terminates before it looks at any other event.
Terminating(c) == c \in deferred \/ (mail[c] # <<>> /\ Head(mail[c]) = None)

\* The machine is in idle (again, if its link failed there).  A deferred terminate
\* comes first, then the events queued meanwhile, in order.
Settle(t) ==
  LET c == conn[t]
      ends == Terminating(c)
      state == IF ends THEN "ending" ELSE IF mail[c] = <<>> THEN "idle" ELSE "query"
  IN
  /\ Goto(t, "settle", IF ends THEN "erase" ELSE "loop")
  /\ fsm[c] = "entering" \/ source[c] = "idle"
  /\ fsm' = [fsm EXCEPT ![c] = state]
  /\ IF state = "query"
       THEN /\ inflight' = [inflight EXCEPT ![c] = Head(mail[c])]
            /\ mail' = [mail EXCEPT ![c] = Tail(@)]
       ELSE UNCHANGED <<inflight, mail>>
  /\ conn' = IF ends THEN conn ELSE [conn EXCEPT ![t] = None]
  /\ source' = [source EXCEPT ![c] = "unplugged"]
  /\ UNCHANGED <<poolVars, closeVars, locks, deferred, deaf, ret, req, target, todo,
                 history>>

\* The machine stays where its link failed: it waits for what cannot come, and
\* defers what it was told.
Unwind(t) ==
  LET c == conn[t] IN
  /\ Goto(t, "settle", "loop")
  /\ source[c] \in {"connecting", "query"}
  /\ fsm' = [fsm EXCEPT ![c] = source[c]]
  /\ deferred' = IF Terminating(c) THEN deferred \cup {c} ELSE deferred
  /\ mail' = [mail EXCEPT ![c] = <<>>]
  /\ over' = over \cup (Elements(mail[c]) \ {None})
  /\ conn' = [conn EXCEPT ![t] = None]
  /\ source' = [source EXCEPT ![c] = "unplugged"]
  /\ UNCHANGED <<poolVars, closeVars, locks, inflight, deaf, ret, req, target, todo,
                 early, swept>>

\* connection_error erases the null pointer it is given, under conn_mutex_: nothing.
EraseNone(t) == Free(connLock, t) /\ Branch(t, "erase_none", "clear_lock")

\* clear_queue keeps event_mutex_ while it calls the users back.
ClearLocks(t) ==
  /\ Free(eventLock, t)
  /\ Goto(t, "clear_lock", "clear")
  /\ eventLock' = t
  /\ UNCHANGED <<poolVars, closeVars, connLock, machineVars, ret, locals, history>>

ClearNext(t) ==
  /\ queue # <<>>
  /\ Goto(t, "clear", "callback")
  /\ over' = over \cup {Head(queue)}
  /\ queue' = Tail(queue)
  /\ UNCHANGED <<connections, ready, closeVars, locks, machineVars, ret, locals, early,
                 swept>>

CallbackReturns(t) == Branch(t, "callback", "clear")

\* An exception of the callback leaves clear_queue, the rest of the queue as it
\* is; Boost.MSM catches it and keeps the machine in the state it was in, with
\* its link gone (a build with assertions stops there).
CallbackThrows(t) ==
  /\ Goto(t, "callback", "settle")
  /\ eventLock' = None
  /\ deaf' = deaf \cup {conn[t]}
  /\ UNCHANGED <<poolVars, closeVars, connLock, fsm, deferred, mail, inflight, source,
                 ret, locals, history>>

ClearEnds(t) ==
  /\ queue = <<>>
  /\ Goto(t, "clear", "erase")
  /\ eventLock' = None
  /\ UNCHANGED <<poolVars, closeVars, connLock, machineVars, ret, locals, history>>

\* Seeded fault: connection_terminated erases nothing.
EraseNothing(t) == Free(connLock, t) /\ Branch(t, "erase", "erased")

\* connection_terminated erases the connection ...
Erase(t) ==
  /\ Free(connLock, t)
  /\ Goto(t, "erase", "erased")
  /\ connections' = connections \ {conn[t]}
  /\ UNCHANGED <<ready, queue, closeVars, locks, machineVars, ret, locals, history>>

\* ... and looks, without a lock, whether it was the last one.  The machine is
\* terminated, and what was queued to it is lost.
Terminated(t) ==
  LET c == conn[t] IN
  /\ Goto(t, "erased", "loop")
  /\ TellIfLast(connections)
  /\ fsm' = [fsm EXCEPT ![c] = "terminated"]
  /\ deferred' = deferred \ {c} /\ deaf' = deaf \ {c}
  /\ source' = [source EXCEPT ![c] = "unplugged"]
  /\ over' = over \cup (Elements(mail[c]) \ {None})
  /\ mail' = [mail EXCEPT ![c] = <<>>]
  /\ conn' = [conn EXCEPT ![t] = None]
  /\ UNCHANGED <<poolVars, closed, callback, locks, inflight, ret, req, target,
                 todo, early, swept>>

-----------------------------------------------------------------------------
\* What thread t does on its own once it has begun.
Continue(t) ==
  \/ GetIdle(t) \/ NoneIdle(t) \/ PopIdle(t) \/ Execute(t)
  \/ Grow(t) \/ CreateNone(t) \/ Create(t) \/ List(t) \/ Enqueue(t)
  \/ CloseSetsCallback(t) \/ CloseLeaves(t) \/ CloseSweeps(t)
  \/ SweepNone(t) \/ SweepSome(t) \/ SweepCopies(t) \/ SweepOne(t) \/ SweepUnlocks(t)
  \/ SweepEnds(t)
  \/ NextEvent(t) \/ NoEvent(t) \/ ReadyClosed(t) \/ ParkClosed(t) \/ PushIdle(t)
  \/ Settle(t) \/ Unwind(t)
  \/ EraseNone(t) \/ ClearLocks(t) \/ ClearNext(t) \/ CallbackReturns(t) \/ CallbackThrows(t)
  \/ ClearEnds(t)
  \/ Erase(t) \/ Terminated(t)

\* A submission, a close, or a handler that asio runs.
Begin(t) ==
  \/ \E r \in Requests : Refuse(t, r) \/ Submit(t, r)
  \/ Close(t)
  \/ \E c \in Conns : Answer(t, c) \/ Fail(t, c)

Next == \E t \in Threads : Begin(t) \/ Continue(t)

Spec == Init /\ [][Next]_vars

-----------------------------------------------------------------------------
(* Properties.                                                             *)

Live == {c \in Conns : fsm[c] \notin {"unplugged", "terminated"}}
Quiet == \A t \in Threads : pc[t] = "loop"

Occurrences(s, e) == Cardinality({i \in 1..Len(s) : s[i] = e})
Holders(f, e) == Cardinality({x \in DOMAIN f : f[x] = e})
Mailed(r) == Cardinality(UNION {{<<c, i>> : i \in {j \in 1..Len(mail[c]) : mail[c][j] = r}}
                                  : c \in Conns})

\* Whatever the threads do, a request is in one place: in the hands of one thread,
\* in queue_ once, queued to or executed by one machine, or over.
RequestOnce ==
  \A r \in Requests :
    Occurrences(queue, r) + Mailed(r) + Holders(inflight, r) + Holders(req, r)
      + (IF r \in over THEN 1 ELSE 0) <= 1

\* A connection that lives is offered once: it is in ready_connections_, in the
\* hands of one thread in get_connection, or at work with one request.  So execute
\* reaches no machine that is in query, where it has no transition.
OfferedOnce ==
  \A c \in Live :
    Occurrences(ready, c)
      + Cardinality({t \in Threads : pc[t] = "execute" /\ target[t] = c})
      + Cardinality({i \in 1..Len(mail[c]) : mail[c][i] # None})
      + (IF fsm[c] = "query" THEN 1 ELSE 0) <= 1

\* pool_size_ is exceeded by the threads that look at connections_.size() at the
\* same time, and by no more.
Overshoot == Cardinality(Live) <= PoolSize + Cardinality(Threads) - 1

\* Only a connection with a handler that began before create_new_connection had
\* put it in connections_ can go astray: stay there when it is dead, and take the
\* place of one that works, or stay idle in a closed pool after close_connections.
OnlyEarlyStray ==
  Quiet => \A c \in Conns \ early :
    /\ c \in connections <=> c \in Live
    /\ swept /\ closed => fsm[c] # "idle"

\* Whom t waits for.
AtEventLock == {"enqueue", "close_lock", "next_event", "clear_lock"}
AtConnLock == {"pop_idle", "list", "sweep_lock", "push_idle", "erase_none", "erase"}
WaitsFor(t) ==
  ((IF pc[t] \in AtEventLock THEN {eventLock} ELSE {})
     \cup (IF pc[t] \in AtConnLock THEN {connLock} ELSE {})) \ {t, None}

\* No two threads wait for each other: the two mutexes are taken in one order
\* through any nesting of handlers, user callbacks and close_connections.
NoMutualWait == \A t, u \in Threads : u \in WaitsFor(t) => t \notin WaitsFor(u)

\* A closed pool that has nothing left, no connection and no request, has called
\* its close callback, whichever thread erased the last connection and whenever
\* closed_callback_ was set meanwhile.
ClosedIsTold == Quiet /\ closed /\ queue = <<>> /\ connections = {} => told
=============================================================================
