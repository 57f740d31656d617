--------------------------- MODULE ConnectionPool ---------------------------
(***************************************************************************)
(* One connection_pool of redis_async together with the protocol state     *)
(* machines of its connections, as the single thread of rd_service::run    *)
(* executes them.  An asio handler runs to completion, so a handler is one *)
(* step; the exceptions are the two places where the library calls the     *)
(* user's error callback in the middle of a handler (clear_queue and       *)
(* query::on_exit), where the handler is split so that the callback may    *)
(* call back into the pool.                                                *)
(***************************************************************************)
EXTENDS Naturals, Sequences, FiniteSets, PoolLife

CONSTANTS Conns,      \* identities of the connections that may ever be opened
          Requests,   \* identities of the requests users may submit
          PoolSize,   \* pool_size_
          AuthReplies,\* what the server may say to AUTH; {}: there is no password
          None        \* no connection, no request

ASSUME PoolSizeAssumption == PoolSize \in Nat \ {0}
ASSUME AuthAssumption == AuthReplies \subseteq {"accepted", "refused"}
ASSUME ConnsAssumption == Conns # {}
ASSUME NoneAssumption == None \notin Conns \cup Requests

VARIABLES
  connections,  \* connections_: the pool's live connections
  ready,        \* ready_connections_: FIFO of idle connections
  queue,        \* queue_: FIFO of requests waiting for a connection
  closed,       \* closed_
  closedCalls,  \* how often closed_callback_ has been called
  fsm,          \* state of each connection's state machine
  inflight,     \* query::query_: the request a connection is executing
  doomed,       \* connections whose terminate event is deferred or queued
  posted,       \* result callbacks posted on each connection's strand
  phase,        \* where the io thread is
  current,      \* the connection whose handler is split at a user callback
  submitted,    \* history: requests passed to get_connection
  called,       \* history: callbacks made for each request, in order
  lost          \* history: requests dropped with no callback

poolVars == <<connections, ready, queue, closed, closedCalls>>
connVars == <<fsm, inflight, doomed, posted>>
threadVars == <<phase, current>>
history == <<submitted, called, lost>>
vars == <<poolVars, connVars, threadVars, history>>

\* "unplugged" stands for a connection that was not created yet;
\* "refused" for the authn state after the server rejected AUTH: no row of the
\* transition table takes that event, so nothing but a link error moves on.
States == {"unplugged", "connecting", "authn", "refused",
           "idle", "query", "terminated"}

Live == States \ {"unplugged", "terminated"}

\* "loop": between handlers;  "clear": in the loop of clear_queue;
\* "clear_cb", "error_cb": inside a user's error callback, called from
\* clear_queue and from query::on_exit.
Phases == {"loop", "clear", "clear_cb", "error_cb"}

\* The thread executes user code, which may call the pool.
UserCode == phase \in {"loop", "clear_cb", "error_cb"}

\* connection_pool::create: a pool is born with one connection, connecting.
Init ==
  /\ \E c \in Conns :
       /\ connections = {c}
       /\ fsm = [d \in Conns |-> IF d = c THEN "connecting" ELSE "unplugged"]
  /\ ready = <<>> /\ queue = <<>>
  /\ closed = FALSE /\ closedCalls = 0
  /\ inflight = [c \in Conns |-> None]
  /\ doomed = {}
  /\ posted = [c \in Conns |-> <<>>]
  /\ phase = "loop" /\ current = None
  /\ submitted = {} /\ lost = {}
  /\ called = [r \in Requests |-> <<>>]

-----------------------------------------------------------------------------
(* Closing.                                                                *)

\* close_connections, run when the state machines are in states f and that of
\* `busy' is in the middle of a transition.  Idle connections terminate at
\* once; the others defer (or queue) the event.  The close callback is called
\* by the last connection that goes, and then unconditionally.
Sweep(f, busy) ==
  LET swept == {c \in connections : f[c] = "idle" /\ c # busy}
      last  == swept # {} /\ swept = connections
  IN  /\ fsm' = [c \in Conns |-> IF c \in swept THEN "terminated" ELSE f[c]]
      /\ connections' = connections \ swept
      /\ doomed' = connections \ swept
      /\ closedCalls' = closedCalls + (IF last THEN 2 ELSE 1)

\* Seeded fault: close terminates the connections without looking at queue_.
CloseNotDraining ==
  /\ UserCode
  /\ ~closed
  /\ closed' = TRUE
  /\ Sweep(fsm, current)
  /\ UNCHANGED <<ready, queue, inflight, posted, threadVars, history>>

\* connection_pool::close on an open pool.
Close ==
  /\ UserCode
  /\ ~closed
  /\ closed' = TRUE
  /\ IF queue = <<>>
       THEN Sweep(fsm, current)
       ELSE UNCHANGED <<fsm, connections, doomed, closedCalls>>
  /\ UNCHANGED <<ready, queue, inflight, posted, threadVars, history>>

-----------------------------------------------------------------------------
(* Submitting a request: connection_pool::get_connection.                  *)

Submit(r) ==
  /\ UserCode
  /\ r \in Requests \ submitted
  /\ submitted' = submitted \cup {r}

\* The pool is closed: the error callback runs at once.
Refuse(r) ==
  /\ Submit(r)
  /\ closed
  /\ called' = [called EXCEPT ![r] = <<"error">>]
  /\ UNCHANGED <<poolVars, connVars, threadVars, lost>>

\* Seeded fault: the idle connection is not popped.
DispatchNotPopping(r) ==
  /\ Submit(r)
  /\ ~closed
  /\ ready # <<>>
  /\ fsm[Head(ready)] = "idle" /\ Head(ready) # current
  /\ fsm' = [fsm EXCEPT ![Head(ready)] = "query"]
  /\ inflight' = [inflight EXCEPT ![Head(ready)] = r]
  /\ UNCHANGED <<poolVars, doomed, posted, threadVars, called, lost>>

\* An idle connection takes the request.
Dispatch(r) ==
  /\ Submit(r)
  /\ ~closed
  /\ ready # <<>>
  /\ fsm[Head(ready)] = "idle" /\ Head(ready) # current
  /\ ready' = Tail(ready)
  /\ fsm' = [fsm EXCEPT ![Head(ready)] = "query"]
  /\ inflight' = [inflight EXCEPT ![Head(ready)] = r]
  /\ UNCHANGED <<connections, queue, closed, closedCalls, doomed, posted,
                 threadVars, called, lost>>

\* ready_connections_ still names a connection whose link died while it was
\* idle: its machine is terminated, and a terminated machine ignores execute.
DispatchToDead(r) ==
  /\ Submit(r)
  /\ ~closed
  /\ ready # <<>>
  /\ ~(fsm[Head(ready)] = "idle" /\ Head(ready) # current)
  /\ ready' = Tail(ready)
  /\ lost' = lost \cup {r}
  /\ UNCHANGED <<connections, queue, closed, closedCalls, connVars,
                 threadVars, called>>

\* The request joins queue_, after create_new_connection if `create'.
Wait(r, create) ==
  /\ queue' = Append(queue, r)
  /\ IF create
       THEN \E c \in Conns :
              /\ fsm[c] = "unplugged"
              /\ fsm' = [fsm EXCEPT ![c] = "connecting"]
              /\ connections' = connections \cup {c}
       ELSE UNCHANGED <<fsm, connections>>
  /\ UNCHANGED <<ready, closed, closedCalls, inflight, doomed, posted,
                 threadVars, called, lost>>

\* Seeded fault: the size is compared with <=.
EnqueueOneMore(r) ==
  Submit(r) /\ ~closed /\ ready = <<>> /\ Wait(r, Cardinality(connections) <= PoolSize)

\* Seeded fault: a closed pool is not refused.
EnqueueClosed(r) ==
  Submit(r) /\ ready = <<>> /\ Wait(r, Cardinality(connections) < PoolSize)

\* Nobody is idle: the request waits, and the pool grows if it may.
Enqueue(r) ==
  /\ Submit(r)
  /\ ~closed
  /\ ready = <<>>
  /\ Wait(r, Cardinality(connections) < PoolSize)

-----------------------------------------------------------------------------
(* A connection enters idle: connection_pool::connection_ready.            *)

\* Seeded fault: query_ is not stored on entry of query.
ServeNotStoring(c) ==
  /\ queue # <<>>
  /\ queue' = Tail(queue)
  /\ fsm' = [fsm EXCEPT ![c] = "query"]
  /\ inflight' = [inflight EXCEPT ![c] = None]
  /\ UNCHANGED <<connections, ready, doomed, closedCalls>>

\* Seeded fault: the waiting request is copied and not popped.
ServeNotPopping(c) ==
  /\ queue # <<>>
  /\ fsm' = [fsm EXCEPT ![c] = "query"]
  /\ inflight' = [inflight EXCEPT ![c] = Head(queue)]
  /\ UNCHANGED <<connections, queue, ready, doomed, closedCalls>>

\* Seeded fault: queue_ is used as a stack.
ServeLatest(c) ==
  /\ queue # <<>>
  /\ queue' = SubSeq(queue, 1, Len(queue) - 1)
  /\ fsm' = [fsm EXCEPT ![c] = "query"]
  /\ inflight' = [inflight EXCEPT ![c] = queue[Len(queue)]]
  /\ UNCHANGED <<connections, ready, doomed, closedCalls>>

\* The oldest waiting request is handed over; the execute event is queued by
\* the machine, which is entering idle, and handled next.  (A terminate event
\* would overtake it, but no machine has one while requests wait: CloseDrains.)
Serve(c) ==
  /\ queue # <<>>
  /\ queue' = Tail(queue)
  /\ fsm' = [fsm EXCEPT ![c] = "query"]
  /\ inflight' = [inflight EXCEPT ![c] = Head(queue)]
  /\ UNCHANGED <<connections, ready, doomed, closedCalls>>

\* Seeded fault: connection_ready forgets that the pool is closed.
CloseFromForgotten(c) ==
  /\ queue = <<>> /\ closed
  /\ fsm' = [fsm EXCEPT ![c] = "idle"]
  /\ inflight' = [inflight EXCEPT ![c] = None]
  /\ UNCHANGED <<connections, ready, queue, doomed, closedCalls>>

\* Nothing is left to do in a closed pool.
CloseFrom(c) ==
  /\ queue = <<>> /\ closed
  /\ Sweep([fsm EXCEPT ![c] = "idle"], None)
  /\ inflight' = [inflight EXCEPT ![c] = None]
  /\ UNCHANGED <<ready, queue>>

\* Seeded fault: connection_ready parks the connection without next_event.
ParkUnasked(c) ==
  /\ ~closed
  /\ fsm' = [fsm EXCEPT ![c] = "idle"]
  /\ ready' = Append(ready, c)
  /\ inflight' = [inflight EXCEPT ![c] = None]
  /\ UNCHANGED <<connections, queue, doomed, closedCalls>>

\* The connection joins the idle ones.
Park(c) ==
  /\ queue = <<>> /\ ~closed
  /\ fsm' = [fsm EXCEPT ![c] = "idle"]
  /\ ready' = Append(ready, c)
  /\ inflight' = [inflight EXCEPT ![c] = None]
  /\ UNCHANGED <<connections, queue, doomed, closedCalls>>

BecomeIdle(c) ==
  /\ Serve(c) \/ CloseFrom(c) \/ Park(c)
  /\ UNCHANGED closed

-----------------------------------------------------------------------------
(* Handlers of one connection, run from the loop.                          *)

\* handle_connect succeeds; with no password authn completes by itself.
Connected(c) ==
  /\ phase = "loop" /\ fsm[c] = "connecting" /\ AuthReplies = {}
  /\ BecomeIdle(c)
  /\ UNCHANGED <<posted, threadVars, history>>

\* ... otherwise AUTH is sent.
ConnectedToAuth(c) ==
  /\ phase = "loop" /\ fsm[c] = "connecting" /\ AuthReplies # {}
  /\ fsm' = [fsm EXCEPT ![c] = "authn"]
  /\ UNCHANGED <<poolVars, inflight, doomed, posted, threadVars, history>>

\* The server accepts the password.
AuthReply(c) ==
  /\ phase = "loop" /\ fsm[c] = "authn" /\ "accepted" \in AuthReplies
  /\ BecomeIdle(c)
  /\ UNCHANGED <<posted, threadVars, history>>

\* The server rejects it: query_error has no row in authn (a build with
\* assertions stops in no_transition; without them the event is dropped).
AuthRefused(c) ==
  /\ phase = "loop" /\ fsm[c] = "authn" /\ "refused" \in AuthReplies
  /\ fsm' = [fsm EXCEPT ![c] = "refused"]
  /\ UNCHANGED <<poolVars, inflight, doomed, posted, threadVars, history>>

\* A value arrives: query::on_exit(recv) posts the result callback on the
\* strand, then the connection is idle.
Reply(c) ==
  /\ phase = "loop" /\ fsm[c] = "query"
  /\ posted' = [posted EXCEPT ![c] = Append(@, inflight[c])]
  /\ BecomeIdle(c)
  /\ UNCHANGED <<threadVars, history>>

\* The strand runs a posted callback; one that throws is followed by the
\* error callback of the same request.
RunPosted(c) ==
  /\ phase = "loop" /\ posted[c] # <<>>
  /\ posted' = [posted EXCEPT ![c] = Tail(@)]
  /\ \E outcome \in {<<"result">>, <<"result", "error">>} :
       called' = [called EXCEPT ![Head(posted[c])] = @ \o outcome]
  /\ UNCHANGED <<poolVars, fsm, inflight, doomed, threadVars, submitted, lost>>

\* Seeded fault: query_error is also notified as a result.
QueryErrorAndResult(c) ==
  /\ phase = "loop" /\ fsm[c] = "query"
  /\ called' = [called EXCEPT ![inflight[c]] = Append(@, "error")]
  /\ posted' = [posted EXCEPT ![c] = Append(@, inflight[c])]
  /\ inflight' = [inflight EXCEPT ![c] = None]
  /\ phase' = "error_cb" /\ current' = c
  /\ UNCHANGED <<poolVars, fsm, doomed, submitted, lost>>

\* An error reply (or one the parser rejects): query::on_exit(query_error)
\* calls the error callback before the machine becomes idle.
QueryError(c) ==
  /\ phase = "loop" /\ fsm[c] = "query"
  /\ called' = [called EXCEPT ![inflight[c]] = Append(@, "error")]
  /\ inflight' = [inflight EXCEPT ![c] = None]
  /\ phase' = "error_cb" /\ current' = c
  /\ UNCHANGED <<poolVars, fsm, doomed, posted, submitted, lost>>

QueryErrorReturns ==
  /\ phase = "error_cb"
  /\ BecomeIdle(current)
  /\ phase' = "loop" /\ current' = None
  /\ UNCHANGED <<posted, history>>

\* Connecting, reading or writing fails.  Leaving query forgets its request;
\* connection_error is given a null pointer, so it erases nothing.
Fail(c) ==
  /\ phase = "loop" /\ fsm[c] \in Live
  /\ lost' = IF fsm[c] = "query" THEN lost \cup {inflight[c]} ELSE lost
  /\ inflight' = [inflight EXCEPT ![c] = None]
  /\ phase' = "clear" /\ current' = c
  /\ UNCHANGED <<poolVars, fsm, doomed, posted, submitted, called>>

\* Seeded fault: clear_queue pops without calling back.
ClearSilently ==
  /\ phase = "clear" /\ queue # <<>>
  /\ queue' = Tail(queue)
  /\ lost' = lost \cup {Head(queue)}
  /\ phase' = "clear_cb"
  /\ UNCHANGED <<connections, ready, closed, closedCalls, connVars, current,
                 submitted, called>>

\* clear_queue: the next waiting request gets the connection's error.
ClearNext ==
  /\ phase = "clear" /\ queue # <<>>
  /\ queue' = Tail(queue)
  /\ called' = [called EXCEPT ![Head(queue)] = Append(@, "error")]
  /\ phase' = "clear_cb"
  /\ UNCHANGED <<connections, ready, closed, closedCalls, connVars, current,
                 submitted, lost>>

ClearReturns ==
  /\ phase = "clear_cb"
  /\ phase' = "clear"
  /\ UNCHANGED <<poolVars, connVars, current, history>>

\* Seeded fault: connection_terminated looks whether the pool is empty before it
\* erases the connection.
TerminateCountingFirst(erased) ==
  /\ fsm' = [fsm EXCEPT ![current] = "terminated"]
  /\ connections' = connections \ erased
  /\ doomed' = doomed \ {current}
  /\ closedCalls' = IF closed /\ connections = {}
                      THEN closedCalls + 1 ELSE closedCalls
  /\ phase' = "loop" /\ current' = None
  /\ UNCHANGED <<ready, queue, closed, inflight, posted, history>>

\* The machine enters terminated; `erased' leaves the pool.
Terminate(erased) ==
  /\ fsm' = [fsm EXCEPT ![current] = "terminated"]
  /\ connections' = connections \ erased
  /\ doomed' = doomed \ {current}
  /\ closedCalls' = IF closed /\ connections' = {}
                      THEN closedCalls + 1 ELSE closedCalls
  /\ phase' = "loop" /\ current' = None
  /\ UNCHANGED <<ready, queue, closed, inflight, posted, history>>

\* Seeded fault: the connection is never erased (as erase_connection of the
\* null pointer that connection_error is given does nothing).
ErrorDoneNotErasing == phase = "clear" /\ queue = <<>> /\ Terminate({})

\* Seeded fault: clear_queue clears at most one request.
ErrorDoneEarly == phase = "clear" /\ Terminate({current})

\* terminated::on_entry and connection_terminated.
ErrorDone ==
  /\ phase = "clear" /\ queue = <<>>
  /\ Terminate({current})

-----------------------------------------------------------------------------
User ==
  \/ Close
  \/ \E r \in Requests : Refuse(r) \/ Dispatch(r) \/ DispatchToDead(r) \/ Enqueue(r)

\* The rest of a handler that was split at a user callback.
Resume == QueryErrorReturns \/ ClearNext \/ ClearReturns \/ ErrorDone

\* The server answers what c waits for, or the link breaks.
Answer(c) ==
  \/ Connected(c) \/ ConnectedToAuth(c) \/ AuthReply(c) \/ AuthRefused(c)
  \/ Reply(c) \/ QueryError(c)

Next ==
  \/ User
  \/ Resume
  \/ \E c \in Conns : Answer(c) \/ Fail(c) \/ RunPosted(c)

Spec == Init /\ [][Next]_vars

\* Callbacks return, posted handlers run, and whatever a connection waits for
\* is answered or its link breaks.  The last is a promise of the server and the
\* network: no timeout of the library enforces it.
Busy(c) == fsm[c] \in {"connecting", "authn", "query"}

Fairness ==
  /\ WF_vars(Resume)
  /\ \A c \in Conns : /\ WF_vars(RunPosted(c))
                      /\ WF_vars(Busy(c) /\ (Answer(c) \/ Fail(c)))

FairSpec == Spec /\ Fairness
-----------------------------------------------------------------------------
(* Properties.                                                             *)

\* The requests an accepted submission can be found at.
Waiting == {queue[i] : i \in 1..Len(queue)}
Executing == {inflight[c] : c \in Conns} \ {None}
Posted == UNION {{posted[c][i] : i \in 1..Len(posted[c])} : c \in Conns}
CalledBack == {r \in Requests : called[r] # <<>>}

\* Every variable stays in its set (the type invariant).
TypeOK ==
  /\ connections \subseteq Conns
  /\ ready \in Seq(Conns)
  /\ queue \in Seq(Requests)
  /\ closed \in BOOLEAN
  /\ closedCalls \in Nat
  /\ fsm \in [Conns -> States]
  /\ inflight \in [Conns -> Requests \cup {None}]
  /\ doomed \subseteq Conns
  /\ posted \in [Conns -> Seq(Requests)]
  /\ phase \in Phases
  /\ current \in Conns \cup {None}
  /\ submitted \subseteq Requests
  /\ called \in [Requests -> Seq({"result", "error"})]
  /\ lost \subseteq Requests

\* connections_ is exactly the set of live machines, whatever path a connection
\* took out (swept, failed, failed while a sweep was pending): one it forgets
\* would never be closed, one it keeps would block the pool's growth.
ConnectionsAreLive == connections = {c \in Conns : fsm[c] \in Live}

\* pool_size_ bounds the connections open at any time, also when the user's
\* error callbacks submit requests in the middle of connection_error.
PoolBounded == Cardinality({c \in Conns : fsm[c] \in Live}) <= PoolSize

\* While the pool is open its idle connections are exactly the ones in
\* ready_connections_, each once; what else is there is dead.  A busy
\* connection there would be sent an execute it has no transition for, and an
\* idle one not there would never work again.
ReadyIsIdle ==
  /\ \A i \in 1..Len(ready) : fsm[ready[i]] \in {"idle", "terminated"}
  /\ \A i, j \in 1..Len(ready) : ready[i] = ready[j] => i = j
  /\ ~closed => \A c \in Conns :
                  fsm[c] = "idle" => \E i \in 1..Len(ready) : ready[i] = c

\* No request waits in queue_ while a connection is idle: get_connection and
\* connection_ready never leave both queues non-empty.
NoWaitWhileIdle == queue # <<>> => ready = <<>>

\* The server rejected the password on every connection there is.
AllRefused == connections # {} /\ \A c \in connections : fsm[c] = "refused"

\* Whenever requests wait, in a closed pool too, some connection is at work: it
\* connects, authenticates or executes (or its link just broke, and it is clearing
\* the queue), and looks at the queue when that is done, unless it is refused in
\* turn.  The one exception is a pool all of whose connections were refused: those
\* look at nothing again until their links break.
WaitersHaveServer ==
  queue # <<>> => (\E c \in connections : Busy(c)) \/ AllRefused

\* A connection holds a request exactly while it executes it, the user's
\* callback of a failed query and the cleaning after a link error excepted.
InflightIffQuery ==
  \A c \in Conns : inflight[c] # None <=> fsm[c] = "query" /\ c # current

\* A submitted request is in exactly one place: waiting, executing, posted,
\* called back or lost.  None is executed twice, none is called back and
\* executed, none vanishes without being counted as lost; and only a machine in
\* query holds one.
OnePlace ==
  /\ InflightIffQuery
  /\ submitted = Waiting \cup Executing \cup Posted \cup CalledBack \cup lost
  /\ Waiting \cap (Executing \cup Posted \cup CalledBack \cup lost) = {}
  /\ Executing \cap (Posted \cup CalledBack \cup lost) = {}
  /\ Posted \cap (CalledBack \cup lost) = {}
  /\ CalledBack \cap lost = {}
  /\ \A i, j \in 1..Len(queue) : queue[i] = queue[j] => i = j
  /\ \A c, d \in Conns : inflight[c] = inflight[d] /\ c # d => inflight[c] = None

\* A request is answered by one result or by one error, or by a result whose
\* callback threw and then by that error; never by two results, two errors or a
\* result after an error, although three places of the code make callbacks.
AnsweredOnce ==
  \A r \in Requests :
    called[r] \in {<<>>, <<"result">>, <<"error">>, <<"result", "error">>}

\* A connection is told to terminate only when the pool is closed and every
\* request it accepted has left the queue: close drains the queue first.
CloseDrains == doomed # {} => closed /\ queue = <<>>

\* A request is dropped without a callback in two cases only: the link fails
\* while it is executed (query::on_exit), or it is handed to a connection that
\* died while it was listed as ready.  Neither close, nor clear_queue, nor an
\* error reply ever drops one.
LostOnlyWithLink ==
  [][lost' # lost => \E c \in Conns :
        \/ fsm[c] = "query" /\ current' = c /\ phase' = "clear"
        \/ fsm[c] = "terminated" /\ ready # <<>> /\ Head(ready) = c]_vars

\* Once closed, the pool opens no connection and accepts no request, even from
\* the callbacks that close it.
ClosedAcceptsNothing ==
  [][closed => /\ connections' \subseteq connections
               /\ \A r \in submitted' \ submitted : called'[r] = <<"error">>]_vars

\* A closed pool gets rid of all its connections and says so.
CloseCompletes == closed ~> (connections = {} /\ closedCalls > 0)
-----------------------------------------------------------------------------
(* The pool implements the abstract dispatcher: a result on its strand, a  *)
(* request called back and one that was lost are over.                     *)

D == INSTANCE Dispatcher WITH
       Jobs <- Requests, Capacity <- PoolSize,
       waiting <- queue, serving <- Executing,
       over <- Posted \cup CalledBack \cup lost

\* Requests start in the order of arrival, at most PoolSize at a time, and none
\* overtakes a waiting one, whatever connections open, fail and close meanwhile.
ImplementsDispatcher == D!Spec

\* ... and the queue keeps moving while the server answers or links break.
ImplementsFairDispatcher == D!FairSpec

\* The pool implements PoolLife, all that the service knows of it: it grows while
\* open and up to its size, and a closed pool never loses its last connection
\* without a call of the close callback.
Life == [live |-> Cardinality(connections), closed |-> closed, calls |-> closedCalls]

ImplementsPoolLife ==
  /\ Life = FreshPool
  /\ [][Life' \in AfterRequest(Life, PoolSize) \cup AfterClose(Life)
                 \cup AfterHandler(Life)]_Life
=============================================================================
