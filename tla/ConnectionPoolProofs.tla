------------------------ MODULE ConnectionPoolProofs ------------------------
(***************************************************************************)
(* Theorems about ConnectionPool for every set of connections and          *)
(* requests, every pool size, and whatever the server may say to AUTH: the *)
(* books of the pool; that each request is in one place, and how its       *)
(* callbacks are made; and what the steps of a pool may do: its action     *)
(* properties, and that it implements PoolLife and the Dispatcher.         *)
(***************************************************************************)
EXTENDS ConnectionPool, FiniteSetTheorems, SequenceTheorems, TLAPS

-----------------------------------------------------------------------------
(* Type correctness.                                                       *)

\* Where a handler that was split at a user callback stands.
ThreadOK ==
  /\ phase = "loop" <=> current = None
  /\ phase = "error_cb" => fsm[current] = "query"
  /\ phase \in {"clear", "clear_cb"} => fsm[current] \in Live

\* TypeOK is not inductive: what Reply posts is a request because a connection
\* in query holds one, which in turn depends on where the thread is.
TypeInv == TypeOK /\ ThreadOK /\ InflightIffQuery

\* The types of what close_connections changes.
LEMMA SweepType ==
  ASSUME TypeOK, NEW f \in [Conns -> States], NEW busy, Sweep(f, busy)
  PROVE  /\ fsm' \in [Conns -> States]
         /\ connections' \subseteq Conns
         /\ doomed' \subseteq Conns
         /\ closedCalls' \in Nat
         /\ \A c \in Conns : fsm'[c] # f[c] => /\ f[c] = "idle"
                                               /\ fsm'[c] = "terminated"
                                               /\ c # busy
<1> DEFINE swept == {c \in connections : f[c] = "idle" /\ c # busy}
<1>1. fsm' = [c \in Conns |-> IF c \in swept THEN "terminated" ELSE f[c]]
  BY DEF Sweep
<1>2. connections' = connections \ swept /\ doomed' = connections \ swept
  BY DEF Sweep
<1>3. closedCalls' \in Nat
  BY DEF Sweep, TypeOK
<1>4. "terminated" \in States
  BY DEF States
<1> QED
  BY <1>1, <1>2, <1>3, <1>4 DEF TypeOK

\* The types of what a connection that enters idle changes.
LEMMA BecomeIdleType ==
  ASSUME TypeOK, NEW c \in Conns, BecomeIdle(c), fsm[c] # "idle"
  PROVE  /\ fsm' \in [Conns -> States]
         /\ inflight' \in [Conns -> Requests \cup {None}]
         /\ connections' \subseteq Conns
         /\ doomed' \subseteq Conns
         /\ closedCalls' \in Nat
         /\ ready' \in Seq(Conns)
         /\ queue' \in Seq(Requests)
         /\ closed' = closed
         /\ inflight'[c] # None <=> fsm'[c] = "query"
         /\ \A d \in Conns \ {c} :
              /\ inflight'[d] = inflight[d]
              /\ fsm'[d] # fsm[d] => fsm[d] = "idle" /\ fsm'[d] = "terminated"
<1> USE DEF TypeOK
<1>0. {"idle", "query", "terminated"} \subseteq States
  BY DEF States
<1>1. CASE Serve(c)
  <2>1. Head(queue) \in Requests /\ Tail(queue) \in Seq(Requests)
    BY <1>1 DEF Serve
  <2>2. Head(queue) # None
    BY <2>1, NoneAssumption
  <2> QED
    BY <1>0, <1>1, <2>1, <2>2 DEF Serve, BecomeIdle
<1>2. CASE CloseFrom(c)
  <2> DEFINE f == [fsm EXCEPT ![c] = "idle"]
  <2>1. f \in [Conns -> States]
    BY <1>0
  <2>2. Sweep(f, None)
    BY <1>2 DEF CloseFrom
  <2>3. /\ fsm' \in [Conns -> States]
        /\ connections' \subseteq Conns
        /\ doomed' \subseteq Conns
        /\ closedCalls' \in Nat
        /\ \A d \in Conns : fsm'[d] # f[d] => /\ f[d] = "idle"
                                              /\ fsm'[d] = "terminated"
    <3> HIDE DEF f
    <3> QED
      BY <2>1, <2>2, SweepType
  <2>4. fsm'[c] # "query"
    BY <2>3
  <2> QED
    BY <1>2, <2>3, <2>4 DEF CloseFrom, BecomeIdle
<1>3. CASE Park(c)
  BY <1>0, <1>3 DEF Park, BecomeIdle
<1> QED
  BY <1>1, <1>2, <1>3 DEF BecomeIdle
LEMMA TypeInvInit == Init => TypeInv
<1> SUFFICES ASSUME Init PROVE TypeInv
  OBVIOUS
<1> USE DEF Init
<1>1. PICK c \in Conns :
        /\ connections = {c}
        /\ fsm = [d \in Conns |-> IF d = c THEN "connecting" ELSE "unplugged"]
  OBVIOUS
<1>2. TypeOK
  <2>1. fsm \in [Conns -> States] /\ connections \subseteq Conns
    BY <1>1 DEF States
  <2>2. /\ ready \in Seq(Conns) /\ queue \in Seq(Requests)
        /\ posted \in [Conns -> Seq(Requests)]
    OBVIOUS
  <2>3. called \in [Requests -> Seq({"result", "error"})]
    OBVIOUS
  <2>4. /\ closed \in BOOLEAN /\ closedCalls \in Nat
        /\ inflight \in [Conns -> Requests \cup {None}]
        /\ doomed \subseteq Conns /\ phase \in Phases
        /\ current \in Conns \cup {None}
        /\ submitted \subseteq Requests /\ lost \subseteq Requests
    BY DEF Phases
  <2> QED
    BY <2>1, <2>2, <2>3, <2>4 DEF TypeOK
<1>3. ThreadOK
  BY DEF ThreadOK
<1>4. InflightIffQuery
  BY <1>1 DEF InflightIffQuery
<1> QED
  BY <1>2, <1>3, <1>4 DEF TypeInv

\* Steps of the user.
LEMMA TypeInvUser ==
  ASSUME TypeInv, User
  PROVE  TypeInv'
<1> USE DEF TypeInv, UserCode
<1>0. {"idle", "query", "terminated", "connecting"} \subseteq States
  BY DEF States
<1>1. CASE Close
  <2>1. CASE queue = <<>>
    <3>1. Sweep(fsm, current)
      BY <1>1, <2>1 DEF Close
    <3>2. /\ fsm' \in [Conns -> States]
          /\ connections' \subseteq Conns
          /\ doomed' \subseteq Conns
          /\ closedCalls' \in Nat
          /\ \A c \in Conns : fsm'[c] # fsm[c] => /\ fsm[c] = "idle"
                                                  /\ fsm'[c] = "terminated"
                                                  /\ c # current
      BY <3>1, SweepType DEF TypeOK
    <3>3. TypeOK'
      BY <1>1, <3>2 DEF Close, TypeOK, threadVars, history
    <3>4. ThreadOK'
      BY <1>1, <3>2 DEF Close, ThreadOK, TypeOK, Phases, threadVars, history
    <3>5. InflightIffQuery'
      BY <1>1, <3>2 DEF Close, InflightIffQuery, threadVars
    <3> QED
      BY <3>3, <3>4, <3>5
  <2>2. CASE queue # <<>>
    BY <1>1, <2>2 DEF Close, TypeOK, ThreadOK, InflightIffQuery, threadVars, history
  <2> QED
    BY <2>1, <2>2
<1>2. ASSUME NEW r \in Requests, Refuse(r)
      PROVE  TypeInv'
  <2>1. TypeOK'
    BY <1>2 DEF Refuse, Submit, TypeOK, poolVars, connVars, threadVars
  <2> QED
    BY <1>2, <2>1 DEF Refuse, poolVars, ThreadOK, InflightIffQuery, connVars, threadVars
<1>3. ASSUME NEW r \in Requests, Dispatch(r)
      PROVE  TypeInv'
  <2>1. Head(ready) \in Conns /\ Tail(ready) \in Seq(Conns)
    BY <1>3 DEF Dispatch, TypeOK
  <2>2. r # None
    BY NoneAssumption
  <2>3. TypeOK'
    BY <1>0, <1>3, <2>1 DEF Dispatch, Submit, TypeOK, threadVars
  <2>4. ThreadOK'
    BY <1>3, <2>1 DEF Dispatch, ThreadOK, TypeOK, threadVars
  <2>5. InflightIffQuery'
    BY <1>3, <2>1, <2>2 DEF Dispatch, InflightIffQuery, TypeOK, threadVars
  <2> QED
    BY <2>3, <2>4, <2>5
<1>4. ASSUME NEW r \in Requests, DispatchToDead(r)
      PROVE  TypeInv'
  <2>1. TypeOK'
    BY <1>4 DEF DispatchToDead, Submit, TypeOK, connVars, threadVars
  <2> QED
    BY <1>4, <2>1 DEF DispatchToDead, ThreadOK, InflightIffQuery, connVars, threadVars
<1>5. ASSUME NEW r \in Requests, Enqueue(r)
      PROVE  TypeInv'
  <2>1. /\ queue' \in Seq(Requests)
        /\ submitted' \subseteq Requests
        /\ UNCHANGED <<ready, closed, closedCalls, inflight, doomed, posted,
                       threadVars, called, lost>>
    BY <1>5 DEF Enqueue, Submit, Wait, TypeOK
  <2>2. CASE UNCHANGED <<fsm, connections>>
    <3>1. TypeOK'
      BY <2>1, <2>2 DEF TypeOK, threadVars
    <3> QED
      BY <2>1, <2>2, <3>1 DEF ThreadOK, InflightIffQuery, threadVars
  <2>3. ASSUME NEW c \in Conns,
               fsm[c] = "unplugged",
               fsm' = [fsm EXCEPT ![c] = "connecting"],
               connections' = connections \cup {c}
        PROVE  TypeInv'
    <3>1. TypeOK'
      BY <1>0, <2>1, <2>3 DEF TypeOK, threadVars
    <3>2. ThreadOK'
      BY <2>1, <2>3 DEF TypeOK, ThreadOK, Live, States, threadVars
    <3>3. InflightIffQuery'
      BY <2>1, <2>3 DEF TypeOK, InflightIffQuery, threadVars
    <3> QED
      BY <3>1, <3>2, <3>3
  <2> QED
    BY <1>5, <2>2, <2>3 DEF Enqueue, Wait
<1> QED
  BY <1>1, <1>2, <1>3, <1>4, <1>5 DEF User
\* Steps that end a handler with connection_ready.
LEMMA TypeInvIdle ==
  ASSUME TypeInv, NEW c \in Conns, BecomeIdle(c),
         fsm[c] \in {"connecting", "authn", "query"},
         posted' \in [Conns -> Seq(Requests)],
         UNCHANGED history,
         \/ phase = "loop" /\ UNCHANGED threadVars
         \/ phase = "error_cb" /\ current = c /\ phase' = "loop" /\ current' = None
  PROVE  TypeInv'
<1> USE DEF TypeInv
<1>1. /\ fsm' \in [Conns -> States]
      /\ inflight' \in [Conns -> Requests \cup {None}]
      /\ connections' \subseteq Conns
      /\ doomed' \subseteq Conns
      /\ closedCalls' \in Nat
      /\ ready' \in Seq(Conns)
      /\ queue' \in Seq(Requests)
      /\ closed' = closed
      /\ inflight'[c] # None <=> fsm'[c] = "query"
      /\ \A d \in Conns \ {c} :
           /\ inflight'[d] = inflight[d]
           /\ fsm'[d] # fsm[d] => fsm[d] = "idle" /\ fsm'[d] = "terminated"
  BY BecomeIdleType
<1>2. phase' = "loop" /\ current' = None
  BY DEF ThreadOK, threadVars
<1>3. TypeOK'
  BY <1>1, <1>2 DEF TypeOK, Phases, history
<1>4. ThreadOK'
  BY <1>2 DEF ThreadOK
<1>5. InflightIffQuery'
  <2> SUFFICES ASSUME NEW d \in Conns
               PROVE  inflight'[d] # None <=> fsm'[d] = "query"
    BY <1>2, NoneAssumption DEF InflightIffQuery
  <2>1. CASE d = c
    BY <1>1, <2>1
  <2>2. CASE d # c
    <3>1. d # current
      BY <2>2, NoneAssumption DEF ThreadOK
    <3>2. inflight[d] # None <=> fsm[d] = "query"
      BY <3>1 DEF InflightIffQuery
    <3>3. /\ inflight'[d] = inflight[d]
          /\ fsm'[d] # fsm[d] => fsm[d] = "idle" /\ fsm'[d] = "terminated"
      BY <1>1, <2>2
    <3> QED
      BY <3>2, <3>3
  <2> QED
    BY <2>1, <2>2
<1> QED
  BY <1>3, <1>4, <1>5

\* Steps of a connection's handlers.
LEMMA TypeInvAnswer ==
  ASSUME TypeInv, NEW c \in Conns, Answer(c)
  PROVE  TypeInv'
<1> USE DEF TypeInv
<1>0. {"authn", "refused"} \subseteq States
  BY DEF States
<1>1. c # None
  BY NoneAssumption
<1>2. CASE Connected(c)
  BY <1>2, TypeInvIdle DEF Connected, TypeOK
<1>3. CASE ConnectedToAuth(c)
  <2>1. TypeOK'
    BY <1>0, <1>3 DEF ConnectedToAuth, TypeOK, poolVars, threadVars, history
  <2>2. ThreadOK'
    BY <1>3 DEF ConnectedToAuth, ThreadOK, threadVars
  <2>3. InflightIffQuery'
    BY <1>3 DEF ConnectedToAuth, InflightIffQuery, TypeOK, threadVars
  <2> QED
    BY <2>1, <2>2, <2>3
<1>4. CASE AuthReply(c)
  BY <1>4, TypeInvIdle DEF AuthReply, TypeOK
<1>5. CASE AuthRefused(c)
  <2>1. TypeOK'
    BY <1>0, <1>5 DEF AuthRefused, TypeOK, poolVars, threadVars, history
  <2>2. ThreadOK'
    BY <1>5 DEF AuthRefused, ThreadOK, threadVars
  <2>3. InflightIffQuery'
    BY <1>5 DEF AuthRefused, InflightIffQuery, TypeOK, threadVars
  <2> QED
    BY <2>1, <2>2, <2>3
<1>6. CASE Reply(c)
  <2>1. inflight[c] \in Requests
    BY <1>1, <1>6 DEF Reply, InflightIffQuery, ThreadOK, TypeOK
  <2>2. posted' \in [Conns -> Seq(Requests)]
    BY <1>6, <2>1 DEF Reply, TypeOK
  <2> QED
    BY <1>6, <2>2, TypeInvIdle DEF Reply
<1>7. CASE QueryError(c)
  <2>0. inflight[c] \in Requests
    BY <1>1, <1>7 DEF QueryError, InflightIffQuery, ThreadOK, TypeOK
  <2>1. called' \in [Requests -> Seq({"result", "error"})]
    <3>1. Append(called[inflight[c]], "error") \in Seq({"result", "error"})
      BY <2>0 DEF TypeOK
    <3> QED
      BY <1>7, <3>1 DEF QueryError, TypeOK
  <2>2. TypeOK'
    BY <1>7, <2>1 DEF QueryError, TypeOK, poolVars, Phases
  <2>3. ThreadOK'
    BY <1>1, <1>7 DEF QueryError, ThreadOK
  <2>4. InflightIffQuery'
    <3> SUFFICES ASSUME NEW d \in Conns
                 PROVE  inflight'[d] # None <=> fsm'[d] = "query" /\ d # c
      BY <1>7 DEF QueryError, InflightIffQuery
    <3>1. inflight[d] # None <=> fsm[d] = "query"
      BY <1>7, NoneAssumption DEF QueryError, InflightIffQuery, ThreadOK
    <3> QED
      BY <1>7, <3>1 DEF QueryError, TypeOK
  <2> QED
    BY <2>2, <2>3, <2>4
<1> QED
  BY <1>2, <1>3, <1>4, <1>5, <1>6, <1>7 DEF Answer

LEMMA TypeInvFail ==
  ASSUME TypeInv, NEW c \in Conns, Fail(c)
  PROVE  TypeInv'
<1> USE DEF TypeInv, Fail
<1>1. c # None
  BY NoneAssumption
<1>2. fsm[c] = "query" => inflight[c] \in Requests
  BY <1>1 DEF InflightIffQuery, ThreadOK, TypeOK
<1>3. TypeOK'
  BY <1>2 DEF TypeOK, poolVars, Phases
<1>4. ThreadOK'
  BY <1>1 DEF ThreadOK
<1>5. InflightIffQuery'
  <2> SUFFICES ASSUME NEW d \in Conns
               PROVE  inflight'[d] # None <=> fsm'[d] = "query" /\ d # c
    BY DEF InflightIffQuery
  <2>1. inflight[d] # None <=> fsm[d] = "query"
    BY NoneAssumption DEF InflightIffQuery, ThreadOK
  <2> QED
    BY <2>1 DEF TypeOK
<1> QED
  BY <1>3, <1>4, <1>5

LEMMA TypeInvRunPosted ==
  ASSUME TypeInv, NEW c \in Conns, RunPosted(c)
  PROVE  TypeInv'
<1> USE DEF TypeInv, RunPosted
<1>1. posted' \in [Conns -> Seq(Requests)]
  BY DEF TypeOK
<1>2. PICK outcome \in {<<"result">>, <<"result", "error">>} :
        called' = [called EXCEPT ![Head(posted[c])] = @ \o outcome]
  OBVIOUS
<1>3. outcome \in Seq({"result", "error"})
  <2>1. <<"result">> \in Seq({"result", "error"})
    OBVIOUS
  <2>2. <<"result", "error">> \in Seq({"result", "error"})
    OBVIOUS
  <2> QED
    BY <2>1, <2>2
<1>4. called' \in [Requests -> Seq({"result", "error"})]
  <2>1. Head(posted[c]) \in Requests
    BY DEF TypeOK
  <2>2. called[Head(posted[c])] \o outcome \in Seq({"result", "error"})
    BY <1>3, <2>1, ConcatProperties DEF TypeOK
  <2> QED
    BY <1>2, <2>2 DEF TypeOK
<1>5. TypeOK'
  BY <1>1, <1>4 DEF TypeOK, poolVars, threadVars
<1> QED
  BY <1>5 DEF ThreadOK, InflightIffQuery, threadVars

\* Steps that resume a handler after a user callback.
LEMMA TypeInvResume ==
  ASSUME TypeInv, Resume
  PROVE  TypeInv'
<1> USE DEF TypeInv
<1>1. CASE QueryErrorReturns
  <2>1. current \in Conns /\ fsm[current] = "query"
    BY <1>1 DEF QueryErrorReturns, ThreadOK, TypeOK
  <2> QED
    BY <1>1, <2>1, TypeInvIdle DEF QueryErrorReturns, TypeOK
<1>2. CASE ClearNext
  <2>1. /\ queue' \in Seq(Requests)
        /\ called' \in [Requests -> Seq({"result", "error"})]
    BY <1>2 DEF ClearNext, TypeOK
  <2>2. TypeOK'
    BY <1>2, <2>1 DEF ClearNext, TypeOK, Phases, connVars
  <2> QED
    BY <1>2, <2>2 DEF ClearNext, ThreadOK, InflightIffQuery, connVars
<1>3. CASE ClearReturns
  <2>1. TypeOK'
    BY <1>3 DEF ClearReturns, TypeOK, Phases, poolVars, connVars, history
  <2> QED
    BY <1>3, <2>1 DEF ClearReturns, ThreadOK, InflightIffQuery, connVars
<1>4. CASE ErrorDone
  <2>1. current \in Conns
    BY <1>4 DEF ErrorDone, ThreadOK, TypeOK
  <2>2. TypeOK'
    <3>1. fsm' \in [Conns -> States]
      BY <1>4 DEF ErrorDone, Terminate, TypeOK, States
    <3>2. connections' \subseteq Conns /\ doomed' \subseteq Conns /\ closedCalls' \in Nat
      BY <1>4 DEF ErrorDone, Terminate, TypeOK
    <3> QED
      BY <1>4, <3>1, <3>2 DEF ErrorDone, Terminate, TypeOK, Phases, history
  <2>3. ThreadOK'
    BY <1>4 DEF ErrorDone, Terminate, ThreadOK
  <2>4. InflightIffQuery'
    BY <1>4, <2>1, NoneAssumption
    DEF ErrorDone, Terminate, InflightIffQuery, TypeOK
  <2> QED
    BY <2>2, <2>3, <2>4
<1> QED
  BY <1>1, <1>2, <1>3, <1>4 DEF Resume

LEMMA TypeInvNext == TypeInv /\ [Next]_vars => TypeInv'
<1> SUFFICES ASSUME TypeInv, [Next]_vars PROVE TypeInv'
  OBVIOUS
<1>1. CASE User
  BY <1>1, TypeInvUser
<1>2. CASE Resume
  BY <1>2, TypeInvResume
<1>3. ASSUME NEW c \in Conns, Answer(c) \/ Fail(c) \/ RunPosted(c)
      PROVE  TypeInv'
  BY <1>3, TypeInvAnswer, TypeInvFail, TypeInvRunPosted
<1>4. CASE UNCHANGED vars
  BY <1>4 DEF vars, poolVars, connVars, threadVars, history, TypeInv, TypeOK,
              ThreadOK, InflightIffQuery
<1> QED
  BY <1>1, <1>2, <1>3, <1>4 DEF Next

LEMMA TypeInvariant == Spec => []TypeInv
  BY TypeInvInit, TypeInvNext, PTL DEF Spec

\* Every variable of the pool and of its connections stays in its set: in
\* particular only requests are ever queued, executed and posted.
THEOREM TypeCorrect == Spec => []TypeOK
<1>1. TypeInv => TypeOK
  BY DEF TypeInv
<1> QED
  BY <1>1, TypeInvariant, PTL

\* A connection executes a request exactly while its machine is in query.
THEOREM InflightCorrect == Spec => []InflightIffQuery
<1>1. TypeInv => InflightIffQuery
  BY DEF TypeInv
<1> QED
  BY <1>1, TypeInvariant, PTL
-----------------------------------------------------------------------------
(* The pool's bookkeeping.  The five invariants need each other: a dead    *)
(* link finds no idle machine while requests wait (NoWaitWhileIdle and     *)
(* ReadyIsIdle), so the callbacks of clear_queue never meet the machine    *)
(* that is going away at the head of ready_connections_ (ClearingOK), so   *)
(* an idle machine that is not there cannot arise (ReadyIsIdle); and a     *)
(* request that is queued while no connection is opened finds a full pool, *)
(* none of whose machines is idle (NoneIdle).  In a closed pool requests    *)
(* wait that came before it was closed, when no machine was idle either.   *)

ClearingOK == phase = "clear_cb" /\ ~closed => fsm[current] # "idle"

\* While requests wait there are connections, and none of them is idle.
NoneIdle ==
  queue # <<>> => connections # {} /\ \A c \in connections : fsm[c] # "idle"

SizeOK == IsFiniteSet(connections) /\ Cardinality(connections) <= PoolSize

PoolOK ==
  /\ ConnectionsAreLive
  /\ ReadyIsIdle
  /\ NoWaitWhileIdle
  /\ NoneIdle
  /\ CloseDrains
  /\ ClearingOK
  /\ SizeOK

PoolInv == TypeInv /\ PoolOK

\* close_connections keeps the books when nothing waits.
LEMMA SweepPool ==
  ASSUME TypeOK, NEW f \in [Conns -> States], NEW busy, Sweep(f, busy),
         connections = {c \in Conns : f[c] \in Live},
         SizeOK
  PROVE  /\ ConnectionsAreLive'
         /\ SizeOK'
<1> DEFINE swept == {c \in connections : f[c] = "idle" /\ c # busy}
<1>1. fsm' = [c \in Conns |-> IF c \in swept THEN "terminated" ELSE f[c]]
  BY DEF Sweep
<1>2. connections' = connections \ swept
  BY DEF Sweep
<1>3. ConnectionsAreLive'
  BY <1>1, <1>2 DEF ConnectionsAreLive, Live, States
<1>4. IsFiniteSet(connections') /\ Cardinality(connections') <= Cardinality(connections)
  BY <1>2, FS_Subset DEF SizeOK
<1>5. Cardinality(connections) \in Nat /\ Cardinality(connections') \in Nat
  BY <1>4, FS_CardinalityType DEF SizeOK
<1> QED
  BY <1>3, <1>4, <1>5, PoolSizeAssumption DEF SizeOK

\* A connection that enters idle keeps the books.
LEMMA PoolIdle ==
  ASSUME PoolInv, NEW c \in Conns, BecomeIdle(c),
         fsm[c] \in {"connecting", "authn", "query"}, phase' = "loop"
  PROVE  PoolOK'
<1> USE DEF PoolInv, PoolOK, TypeInv
<1>0. ClearingOK'
  BY DEF ClearingOK
<1>1. c \in connections
  BY DEF ConnectionsAreLive, Live, States
<1>2. \A i \in 1..Len(ready) : ready[i] # c
  BY DEF ReadyIsIdle
<1>3. CASE Serve(c)
  <2> USE <1>3 DEF Serve
  <2>1. ConnectionsAreLive'
    BY DEF ConnectionsAreLive, Live, States, TypeOK
  <2>2. ReadyIsIdle'
    BY <1>2 DEF ReadyIsIdle, TypeOK, BecomeIdle
  <2>3. NoWaitWhileIdle'
    BY DEF NoWaitWhileIdle
  <2>4. NoneIdle'
    BY <1>1 DEF NoneIdle, TypeOK
  <2>5. CloseDrains'
    BY DEF CloseDrains, BecomeIdle
  <2>6. SizeOK'
    BY DEF SizeOK
  <2> QED
    BY <1>0, <2>1, <2>2, <2>3, <2>4, <2>5, <2>6
<1>4. CASE CloseFrom(c)
  <2> DEFINE f == [fsm EXCEPT ![c] = "idle"]
  <2>1. Sweep(f, None) /\ queue = <<>> /\ closed /\ ready' = ready /\ queue' = queue
    BY <1>4 DEF CloseFrom
  <2>2. f \in [Conns -> States]
    BY DEF TypeOK, States
  <2>3. connections = {d \in Conns : f[d] \in Live}
    BY <1>1 DEF ConnectionsAreLive, Live, States, TypeOK
  <2>4. ConnectionsAreLive' /\ SizeOK'
    <3> HIDE DEF f
    <3> QED
      BY <2>1, <2>2, <2>3, SweepPool
  <2>5. ReadyIsIdle'
    <3>1. \A d \in Conns : fsm'[d] # f[d] => f[d] = "idle" /\ fsm'[d] = "terminated"
      <4> HIDE DEF f
      <4> QED
        BY <2>1, <2>2, SweepType
    <3>2. \A i \in 1..Len(ready) : fsm'[ready[i]] \in {"idle", "terminated"}
      BY <1>2, <3>1 DEF ReadyIsIdle, TypeOK
    <3> QED
      BY <2>1, <3>2 DEF ReadyIsIdle, BecomeIdle
  <2>6. NoWaitWhileIdle' /\ NoneIdle'
    BY <2>1 DEF NoWaitWhileIdle, NoneIdle
  <2>7. CloseDrains'
    BY <2>1 DEF CloseDrains, BecomeIdle
  <2> QED
    BY <1>0, <2>4, <2>5, <2>6, <2>7
<1>5. CASE Park(c)
  <2> USE <1>5 DEF Park
  <2>1. ConnectionsAreLive'
    BY DEF ConnectionsAreLive, Live, States, TypeOK
  <2>2. ReadyIsIdle'
    <3>1. /\ Len(ready') = Len(ready) + 1
          /\ \A i \in 1..Len(ready) : ready'[i] = ready[i]
          /\ ready'[Len(ready) + 1] = c
      BY DEF TypeOK
    <3>2. \A i \in 1..Len(ready') : fsm'[ready'[i]] \in {"idle", "terminated"}
      BY <1>2, <3>1 DEF ReadyIsIdle, TypeOK
    <3>3. \A i, j \in 1..Len(ready') : ready'[i] = ready'[j] => i = j
      BY <1>2, <3>1 DEF ReadyIsIdle, TypeOK
    <3>4. ASSUME NEW d \in Conns, fsm'[d] = "idle"
          PROVE  \E i \in 1..Len(ready') : ready'[i] = d
      <4>1. CASE d = c
        BY <3>1, <4>1 DEF TypeOK
      <4>2. CASE d # c
        <5>1. PICK i \in 1..Len(ready) : ready[i] = d
          BY <3>4, <4>2 DEF ReadyIsIdle, TypeOK
        <5> QED
          BY <3>1, <5>1 DEF TypeOK
      <4> QED
        BY <4>1, <4>2
    <3> QED
      BY <3>2, <3>3, <3>4 DEF ReadyIsIdle
  <2>3. NoWaitWhileIdle' /\ NoneIdle'
    BY DEF NoWaitWhileIdle, NoneIdle
  <2>4. CloseDrains'
    BY DEF CloseDrains, BecomeIdle
  <2>5. SizeOK'
    BY DEF SizeOK
  <2> QED
    BY <1>0, <2>1, <2>2, <2>3, <2>4, <2>5
<1> QED
  BY <1>3, <1>4, <1>5 DEF BecomeIdle
\* close on an open pool.
LEMMA PoolClose ==
  ASSUME PoolInv, Close
  PROVE  PoolOK'
<1> USE DEF PoolInv, PoolOK, TypeInv, Close
<1>1. CASE queue = <<>>
  <2>1. Sweep(fsm, current) /\ fsm \in [Conns -> States]
    BY <1>1 DEF TypeOK
  <2>2. connections = {c \in Conns : fsm[c] \in Live}
    BY DEF ConnectionsAreLive
  <2>3. ConnectionsAreLive' /\ SizeOK'
    BY <2>1, <2>2, SweepPool
  <2>4. \A c \in Conns : fsm'[c] # fsm[c] => fsm'[c] = "terminated"
    BY <2>1, SweepType
  <2>5. ReadyIsIdle'
    BY <2>4 DEF ReadyIsIdle, TypeOK
  <2> QED
    BY <1>1, <2>3, <2>5
    DEF NoWaitWhileIdle, NoneIdle, CloseDrains, ClearingOK
<1>2. CASE queue # <<>>
  <2>1. UNCHANGED <<fsm, connections, doomed, ready, queue>> /\ closed'
    BY <1>2
  <2>2. CloseDrains'
    BY <1>2 DEF CloseDrains
  <2> HIDE DEF TypeInv, Close
  <2> QED
    BY <2>1, <2>2 DEF ConnectionsAreLive, ReadyIsIdle, NoWaitWhileIdle,
                      NoneIdle, ClearingOK, SizeOK
<1> QED
  BY <1>1, <1>2

\* The front of ready_connections_ leaves it, idle no longer.
LEMMA ReadyPop ==
  ASSUME TypeOK, ReadyIsIdle, ready # <<>>, ready' = Tail(ready), closed' = closed,
         fsm' \in [Conns -> States], fsm'[Head(ready)] # "idle",
         \A c \in Conns \ {Head(ready)} : fsm'[c] = fsm[c]
  PROVE  ReadyIsIdle'
<1>1. /\ Len(ready') = Len(ready) - 1
      /\ Len(ready) \in Nat \ {0}
      /\ \A i \in 1..Len(ready') : ready'[i] = ready[i + 1]
      /\ Head(ready) = ready[1]
      /\ \A i \in 1..Len(ready) : ready[i] \in Conns
  BY DEF TypeOK
<1>2. \A i \in 1..Len(ready') : /\ i + 1 \in 1..Len(ready)
                               /\ ready'[i] # ready[1]
  BY <1>1 DEF ReadyIsIdle
<1>3. \A i \in 1..Len(ready') : fsm'[ready'[i]] \in {"idle", "terminated"}
  BY <1>1, <1>2 DEF ReadyIsIdle
<1>4. \A i, j \in 1..Len(ready') : ready'[i] = ready'[j] => i = j
  BY <1>1, <1>2 DEF ReadyIsIdle
<1>5. ASSUME ~closed, NEW c \in Conns, fsm'[c] = "idle"
      PROVE  \E i \in 1..Len(ready') : ready'[i] = c
  <2>1. c # ready[1] /\ fsm[c] = "idle"
    BY <1>1, <1>5
  <2>2. PICK i \in 1..Len(ready) : ready[i] = c
    BY <1>5, <2>1 DEF ReadyIsIdle
  <2>3. i - 1 \in 1..Len(ready') /\ ready'[i - 1] = ready[(i - 1) + 1]
    BY <1>1, <2>1, <2>2
  <2> QED
    BY <2>2, <2>3
<1> QED
  BY <1>3, <1>4, <1>5 DEF ReadyIsIdle

\* get_connection.
LEMMA PoolSubmit ==
  ASSUME PoolInv, NEW r \in Requests,
         Refuse(r) \/ Dispatch(r) \/ DispatchToDead(r) \/ Enqueue(r)
  PROVE  PoolOK'
<1> USE DEF PoolInv, PoolOK, TypeInv
<1>1. CASE Refuse(r)
  BY <1>1 DEF Refuse, poolVars, connVars, threadVars, ConnectionsAreLive, ReadyIsIdle,
              NoWaitWhileIdle, NoneIdle, CloseDrains, ClearingOK, SizeOK
<1>2. CASE Dispatch(r)
  <2> USE <1>2 DEF Dispatch
  <2>1. Head(ready) \in Conns /\ queue = <<>>
    BY DEF TypeOK, NoWaitWhileIdle
  <2>2. ConnectionsAreLive'
    BY <2>1 DEF ConnectionsAreLive, TypeOK, Live, States
  <2>3. ReadyIsIdle'
    BY <2>1, ReadyPop DEF TypeOK, States
  <2>4. NoWaitWhileIdle' /\ NoneIdle'
    BY <2>1 DEF NoWaitWhileIdle, NoneIdle
  <2>5. CloseDrains' /\ SizeOK'
    BY DEF CloseDrains, SizeOK
  <2>6. ClearingOK'
    BY <2>1 DEF ClearingOK, TypeOK, threadVars
  <2> QED
    BY <2>2, <2>3, <2>4, <2>5, <2>6
<1>3. CASE DispatchToDead(r)
  <2> USE <1>3 DEF DispatchToDead
  <2>1. queue = <<>>
    BY DEF NoWaitWhileIdle
  <2>2. fsm[Head(ready)] # "idle"
    <3>1. CASE Head(ready) = current
      BY <3>1, NoneAssumption
      DEF Submit, UserCode, ThreadOK, ClearingOK, TypeOK
    <3> QED
      BY <3>1
  <2>3. ReadyIsIdle'
    BY <2>2, ReadyPop DEF connVars, TypeOK
  <2> QED
    BY <2>1, <2>3 DEF connVars, threadVars, ConnectionsAreLive, NoWaitWhileIdle,
                      NoneIdle, CloseDrains, ClearingOK, SizeOK
<1>4. CASE Enqueue(r)
  <2>1. ready = <<>> /\ ~closed /\ Wait(r, Cardinality(connections) < PoolSize)
    BY <1>4 DEF Enqueue
  <2>2. \A c \in Conns : fsm[c] # "idle"
    BY <2>1 DEF ReadyIsIdle
  <2>3. /\ UNCHANGED <<ready, closed, doomed, threadVars>>
        /\ CloseDrains' /\ NoWaitWhileIdle'
    BY <2>1 DEF Wait, CloseDrains, NoWaitWhileIdle
  <2>4. CASE Cardinality(connections) < PoolSize
    <3>1. PICK c \in Conns :
            /\ fsm[c] = "unplugged"
            /\ fsm' = [fsm EXCEPT ![c] = "connecting"]
            /\ connections' = connections \cup {c}
      BY <2>1, <2>4 DEF Wait
    <3>2. ConnectionsAreLive'
      BY <3>1 DEF ConnectionsAreLive, TypeOK, Live, States
    <3>3. ReadyIsIdle'
      BY <2>1, <2>2, <2>3, <3>1 DEF ReadyIsIdle, TypeOK
    <3>4. NoneIdle'
      BY <2>2, <3>1 DEF NoneIdle, TypeOK
    <3>5. ClearingOK'
      BY <2>3, <3>1 DEF ClearingOK, TypeOK, threadVars
    <3>6. SizeOK'
      <4>1. c \notin connections
        BY <3>1 DEF ConnectionsAreLive, Live, States
      <4>2. /\ IsFiniteSet(connections')
            /\ Cardinality(connections') = Cardinality(connections) + 1
        BY <3>1, <4>1, FS_AddElement DEF SizeOK
      <4>3. Cardinality(connections) \in Nat
        BY FS_CardinalityType DEF SizeOK
      <4> QED
        BY <2>4, <4>2, <4>3, PoolSizeAssumption DEF SizeOK
    <3> QED
      BY <2>3, <3>2, <3>3, <3>4, <3>5, <3>6
  <2>5. CASE ~(Cardinality(connections) < PoolSize)
    <3>1. UNCHANGED <<fsm, connections>>
      BY <2>1, <2>5 DEF Wait
    <3>2. connections # {}
      BY <2>5, FS_EmptySet, PoolSizeAssumption
    <3>3. NoneIdle'
      BY <2>2, <3>1, <3>2 DEF NoneIdle, TypeOK
    <3> QED
      BY <2>3, <3>1, <3>3 DEF ConnectionsAreLive, ReadyIsIdle, ClearingOK, SizeOK, threadVars
  <2> QED
    BY <2>4, <2>5
<1> QED
  BY <1>1, <1>2, <1>3, <1>4

\* Handlers run from the loop.
LEMMA PoolHandler ==
  ASSUME PoolInv, NEW c \in Conns, Answer(c) \/ Fail(c) \/ RunPosted(c)
  PROVE  PoolOK'
<1> USE DEF PoolInv, PoolOK, TypeInv
<1>1. CASE Connected(c) \/ AuthReply(c) \/ Reply(c)
  BY <1>1, PoolIdle DEF Connected, AuthReply, Reply, threadVars
<1>2. CASE ConnectedToAuth(c) \/ AuthRefused(c)
  <2>1. PICK s \in {"authn", "refused"} : fsm' = [fsm EXCEPT ![c] = s]
    BY <1>2 DEF ConnectedToAuth, AuthRefused
  <2>2. /\ UNCHANGED <<poolVars, doomed, threadVars>>
        /\ phase = "loop" /\ fsm[c] \in {"connecting", "authn"}
    BY <1>2 DEF ConnectedToAuth, AuthRefused
  <2>3. ConnectionsAreLive'
    BY <2>1, <2>2 DEF ConnectionsAreLive, TypeOK, Live, States, poolVars
  <2>4. ReadyIsIdle'
    BY <2>1, <2>2 DEF ReadyIsIdle, TypeOK, poolVars
  <2>5. NoneIdle'
    BY <2>1, <2>2 DEF NoneIdle, TypeOK, poolVars
  <2> QED
    BY <2>2, <2>3, <2>4, <2>5
    DEF NoWaitWhileIdle, CloseDrains, ClearingOK, SizeOK, poolVars, threadVars
<1>3. CASE QueryError(c) \/ Fail(c) \/ RunPosted(c)
  <2>1. /\ UNCHANGED <<poolVars, fsm, doomed>>
        /\ phase' # "clear_cb"
    BY <1>3 DEF QueryError, Fail, RunPosted, threadVars
  <2> QED
    BY <2>1 DEF ConnectionsAreLive, ReadyIsIdle, NoWaitWhileIdle, NoneIdle,
                CloseDrains, ClearingOK, SizeOK, poolVars
<1> QED
  BY <1>1, <1>2, <1>3 DEF Answer

\* Handlers resumed after a user callback.
LEMMA PoolResume ==
  ASSUME PoolInv, Resume
  PROVE  PoolOK'
<1> USE DEF PoolInv, PoolOK, TypeInv
<1>1. CASE QueryErrorReturns
  BY <1>1, PoolIdle DEF QueryErrorReturns, ThreadOK, TypeOK
<1>2. CASE ClearNext
  <2> USE <1>2 DEF ClearNext
  <2>1. ready = <<>> /\ (~closed => \A c \in Conns : fsm[c] # "idle")
    BY DEF NoWaitWhileIdle, ReadyIsIdle
  <2>2. current \in Conns
    BY DEF ThreadOK, TypeOK
  <2>3. ClearingOK'
    BY <2>1, <2>2 DEF ClearingOK, connVars
  <2>4. NoneIdle'
    BY DEF NoneIdle, connVars
  <2> QED
    BY <2>1, <2>3, <2>4 DEF connVars, ConnectionsAreLive, ReadyIsIdle, NoWaitWhileIdle,
                            CloseDrains, SizeOK
<1>3. CASE ClearReturns
  BY <1>3 DEF ClearReturns, poolVars, connVars, ConnectionsAreLive, ReadyIsIdle,
              NoWaitWhileIdle, NoneIdle, CloseDrains, ClearingOK, SizeOK
<1>4. CASE ErrorDone
  <2> USE <1>4 DEF ErrorDone, Terminate
  <2>1. current \in Conns
    BY DEF ThreadOK, TypeOK
  <2>2. ConnectionsAreLive'
    BY <2>1 DEF ConnectionsAreLive, TypeOK, Live, States
  <2>3. ReadyIsIdle'
    BY <2>1 DEF ReadyIsIdle, TypeOK
  <2>4. SizeOK'
    <3>1. IsFiniteSet(connections') /\ Cardinality(connections') <= Cardinality(connections)
      BY FS_Subset DEF SizeOK
    <3>2. Cardinality(connections) \in Nat /\ Cardinality(connections') \in Nat
      BY <3>1, FS_CardinalityType DEF SizeOK
    <3> QED
      BY <3>1, <3>2, PoolSizeAssumption DEF SizeOK
  <2> QED
    BY <2>2, <2>3, <2>4 DEF NoWaitWhileIdle, NoneIdle, CloseDrains, ClearingOK
<1> QED
  BY <1>1, <1>2, <1>3, <1>4 DEF Resume

LEMMA PoolInvInit == Init => PoolInv
<1> SUFFICES ASSUME Init PROVE PoolOK
  BY TypeInvInit DEF PoolInv
<1> USE DEF Init
<1>1. PICK c \in Conns :
        /\ connections = {c}
        /\ fsm = [d \in Conns |-> IF d = c THEN "connecting" ELSE "unplugged"]
  OBVIOUS
<1>2. ConnectionsAreLive /\ ReadyIsIdle
  BY <1>1 DEF ConnectionsAreLive, ReadyIsIdle, Live, States
<1>3. SizeOK
  <2>1. IsFiniteSet({c}) /\ Cardinality({c}) = 1
    BY FS_Singleton
  <2>2. IsFiniteSet(connections) /\ Cardinality(connections) = 1
    BY <1>1, <2>1
  <2>3. 1 <= PoolSize
    BY PoolSizeAssumption
  <2> QED
    BY <2>2, <2>3 DEF SizeOK
<1> QED
  BY <1>2, <1>3
  DEF PoolOK, NoWaitWhileIdle, NoneIdle, CloseDrains, ClearingOK

LEMMA PoolInvNext == PoolInv /\ [Next]_vars => PoolInv'
<1> SUFFICES ASSUME PoolInv, [Next]_vars PROVE PoolOK'
  BY TypeInvNext DEF PoolInv
<1>1. CASE User
  BY <1>1, PoolClose, PoolSubmit DEF User
<1>2. CASE Resume
  BY <1>2, PoolResume
<1>3. ASSUME NEW c \in Conns, Answer(c) \/ Fail(c) \/ RunPosted(c)
      PROVE  PoolOK'
  BY <1>3, PoolHandler
<1>4. CASE UNCHANGED vars
  BY <1>4 DEF vars, poolVars, connVars, threadVars, PoolInv, PoolOK, ConnectionsAreLive,
              ReadyIsIdle, NoWaitWhileIdle, NoneIdle, CloseDrains, ClearingOK, SizeOK
<1> QED
  BY <1>1, <1>2, <1>3, <1>4 DEF Next

LEMMA PoolInvariant == Spec => []PoolInv
  BY PoolInvInit, PoolInvNext, PTL DEF Spec

\* connections_ is exactly the set of live machines.
THEOREM ConnectionsCorrect == Spec => []ConnectionsAreLive
<1>1. PoolInv => ConnectionsAreLive
  BY DEF PoolInv, PoolOK
<1> QED
  BY <1>1, PoolInvariant, PTL

\* The pool never has more than pool_size_ connections open.
THEOREM BoundCorrect == Spec => []PoolBounded
<1>1. PoolInv => PoolBounded
  BY DEF PoolInv, PoolOK, SizeOK, ConnectionsAreLive, PoolBounded
<1> QED
  BY <1>1, PoolInvariant, PTL

\* ready_connections_ holds the idle connections, each once.
THEOREM ReadyCorrect == Spec => []ReadyIsIdle
<1>1. PoolInv => ReadyIsIdle
  BY DEF PoolInv, PoolOK
<1> QED
  BY <1>1, PoolInvariant, PTL

\* No request waits while a connection is idle.
THEOREM NoWaitCorrect == Spec => []NoWaitWhileIdle
<1>1. PoolInv => NoWaitWhileIdle
  BY DEF PoolInv, PoolOK
<1> QED
  BY <1>1, PoolInvariant, PTL

\* While requests wait, a connection is at work that will look at the queue when
\* it is done, unless the server refused the password on all connections.
THEOREM WaitersCorrect == Spec => []WaitersHaveServer
<1>1. PoolInv => WaitersHaveServer
  <2> SUFFICES ASSUME PoolInv, queue # <<>>, ~AllRefused
               PROVE  \E c \in connections : Busy(c)
    BY DEF WaitersHaveServer
  <2>1. PICK c \in connections : fsm[c] # "refused" /\ fsm[c] # "idle"
    BY DEF PoolInv, PoolOK, NoneIdle, AllRefused
  <2>2. fsm[c] \in Live
    BY <2>1 DEF PoolInv, PoolOK, ConnectionsAreLive
  <2> QED
    BY <2>1, <2>2 DEF Busy, Live, States
<1> QED
  BY <1>1, PoolInvariant, PTL

\* A machine is refused only where the server may refuse.
RefusedOK == \A c \in Conns : fsm[c] = "refused" => "refused" \in AuthReplies

\* AuthRefused alone leads there.
LEMMA RefusedNext == TypeInv /\ RefusedOK /\ [Next]_vars => RefusedOK'
<1> SUFFICES ASSUME TypeInv, RefusedOK, [Next]_vars, NEW c \in Conns,
                    fsm'[c] = "refused"
             PROVE  "refused" \in AuthReplies
  BY DEF RefusedOK
<1> USE DEF TypeInv, RefusedOK, TypeOK
<1>1. ASSUME NEW f \in [Conns -> States], NEW busy, Sweep(f, busy)
      PROVE  f[c] = "refused"
  BY <1>1 DEF Sweep, States
<1>2. ASSUME NEW d \in Conns, BecomeIdle(d)
      PROVE  fsm[c] = "refused"
  <2>1. CASE Serve(d)
    BY <2>1 DEF Serve
  <2>2. CASE Park(d)
    BY <2>2 DEF Park
  <2>3. CASE CloseFrom(d)
    <3>1. [fsm EXCEPT ![d] = "idle"] \in [Conns -> States]
      BY DEF States
    <3>2. [fsm EXCEPT ![d] = "idle"][c] = "refused"
      BY <2>3, <3>1, <1>1 DEF CloseFrom
    <3> QED
      BY <3>2
  <2> QED
    BY <1>2, <2>1, <2>2, <2>3 DEF BecomeIdle
<1>3. CASE Close
  <2>1. CASE queue = <<>>
    BY <1>1, <1>3, <2>1 DEF Close
  <2>2. CASE queue # <<>>
    BY <1>3, <2>2 DEF Close
  <2> QED
    BY <2>1, <2>2
<1>4. ASSUME NEW r \in Requests, Refuse(r) \/ Dispatch(r) \/ DispatchToDead(r)
      PROVE  "refused" \in AuthReplies
  BY <1>4 DEF Refuse, Dispatch, DispatchToDead, connVars
<1>5. ASSUME NEW r \in Requests, Enqueue(r)
      PROVE  "refused" \in AuthReplies
  <2>1. \/ UNCHANGED fsm
        \/ \E d \in Conns : fsm' = [fsm EXCEPT ![d] = "connecting"]
    BY <1>5 DEF Enqueue, Wait
  <2> QED
    BY <2>1
<1>6. CASE Resume
  <2>1. CASE QueryErrorReturns
    <3>1. current \in Conns /\ BecomeIdle(current)
      BY <2>1 DEF QueryErrorReturns, ThreadOK
    <3> QED
      BY <1>2, <3>1
  <2>2. CASE ClearNext \/ ClearReturns
    BY <2>2 DEF ClearNext, ClearReturns, connVars
  <2>3. CASE ErrorDone
    BY <2>3 DEF ErrorDone, Terminate
  <2> QED
    BY <1>6, <2>1, <2>2, <2>3 DEF Resume
<1>7. ASSUME NEW d \in Conns, Answer(d)
      PROVE  "refused" \in AuthReplies
  <2>1. CASE Connected(d) \/ AuthReply(d) \/ Reply(d)
    BY <1>2, <2>1 DEF Connected, AuthReply, Reply
  <2>2. CASE AuthRefused(d)
    BY <2>2 DEF AuthRefused
  <2>3. CASE ConnectedToAuth(d) \/ QueryError(d)
    BY <2>3 DEF ConnectedToAuth, QueryError
  <2> QED
    BY <1>7, <2>1, <2>2, <2>3 DEF Answer
<1>8. ASSUME NEW d \in Conns, Fail(d) \/ RunPosted(d)
      PROVE  "refused" \in AuthReplies
  BY <1>8 DEF Fail, RunPosted
<1>9. CASE UNCHANGED vars
  BY <1>9 DEF vars, connVars
<1> QED
  BY <1>3, <1>4, <1>5, <1>6, <1>7, <1>8, <1>9 DEF Next, User

\* Where the server refuses no password (or none is set) there is no exception: no
\* wake-up is lost in the single-threaded service.
THEOREM WaitersServed ==
  ASSUME "refused" \notin AuthReplies
  PROVE  Spec => [](queue # <<>> => \E c \in connections : Busy(c))
<1>1. Init => RefusedOK
  BY DEF Init, RefusedOK
<1>2. Spec => []RefusedOK
  BY <1>1, RefusedNext, TypeInvariant, PTL DEF Spec
<1>3. PoolInv /\ RefusedOK /\ WaitersHaveServer =>
        (queue # <<>> => \E c \in connections : Busy(c))
  BY DEF RefusedOK, WaitersHaveServer, AllRefused, PoolInv, PoolOK, ConnectionsAreLive
<1> QED
  BY <1>2, <1>3, PoolInvariant, WaitersCorrect, PTL

\* Connections are told to terminate only when the queue has been drained.
THEOREM CloseCorrect == Spec => []CloseDrains
<1>1. PoolInv => CloseDrains
  BY DEF PoolInv, PoolOK
<1> QED
  BY <1>1, PoolInvariant, PTL

-----------------------------------------------------------------------------
(* How the places of requests change with the variables they are read from. *)

\* A result is posted once, on one strand.
PostedOnce ==
  \A c, d \in Conns : \A i \in 1..Len(posted[c]), j \in 1..Len(posted[d]) :
    posted[c][i] = posted[d][j] => c = d /\ i = j

QueuedOnce == \A i, j \in 1..Len(queue) : queue[i] = queue[j] => i = j

ExecutedOnce ==
  \A c, d \in Conns : inflight[c] = inflight[d] /\ c # d => inflight[c] = None

\* A request joins queue_.
LEMMA WaitingAppend ==
  ASSUME queue \in Seq(Requests), NEW r \in Requests, queue' = Append(queue, r),
         r \notin Waiting, QueuedOnce
  PROVE  Waiting' = Waiting \cup {r} /\ QueuedOnce'
<1>1. /\ Len(queue) \in Nat
      /\ Len(queue') = Len(queue) + 1
      /\ \A i \in 1..Len(queue) : queue'[i] = queue[i]
      /\ queue'[Len(queue) + 1] = r
  OBVIOUS
<1>2. ASSUME NEW q PROVE q \in Waiting' <=> q \in Waiting \cup {r}
  <2>1. CASE q \in Waiting'
    <3>1. PICK i \in 1..Len(queue') : queue'[i] = q
      BY <2>1 DEF Waiting
    <3>2. i \in 1..Len(queue) \/ i = Len(queue) + 1
      BY <1>1
    <3> QED
      BY <1>1, <2>1, <3>1, <3>2 DEF Waiting
  <2>2. CASE q \in Waiting
    <3>1. PICK i \in 1..Len(queue) : queue[i] = q
      BY <2>2 DEF Waiting
    <3>2. i \in 1..Len(queue') /\ queue'[i] = q
      BY <1>1, <3>1
    <3> QED
      BY <2>2, <3>2 DEF Waiting
  <2>3. CASE q = r
    <3>1. Len(queue) + 1 \in 1..Len(queue')
      BY <1>1
    <3> QED
      BY <1>1, <2>3, <3>1 DEF Waiting
  <2> QED
    BY <2>1, <2>2, <2>3
<1>3. ASSUME NEW i \in 1..Len(queue'), NEW j \in 1..Len(queue'), queue'[i] = queue'[j]
      PROVE  i = j
  <2>1. \A k \in 1..Len(queue) : queue[k] # r
    BY DEF Waiting
  <2> QED
    BY <1>1, <1>3, <2>1 DEF QueuedOnce
<1> QED
  BY <1>2, <1>3 DEF QueuedOnce

\* The oldest waiting request leaves queue_.
LEMMA WaitingTail ==
  ASSUME queue \in Seq(Requests), queue # <<>>, queue' = Tail(queue), QueuedOnce
  PROVE  /\ Head(queue) \in Waiting
         /\ Waiting' = Waiting \ {Head(queue)}
         /\ QueuedOnce'
<1>1. /\ Len(queue) \in Nat \ {0}
      /\ Len(queue') = Len(queue) - 1
      /\ \A i \in 1..Len(queue') : queue'[i] = queue[i + 1]
      /\ Head(queue) = queue[1]
  OBVIOUS
<1>2. Head(queue) \in Waiting
  BY <1>1 DEF Waiting
<1>3. ASSUME NEW q PROVE q \in Waiting' <=> q \in Waiting \ {Head(queue)}
  <2>1. CASE q \in Waiting'
    <3>1. PICK i \in 1..Len(queue') : queue'[i] = q
      BY <2>1 DEF Waiting
    <3>2. i + 1 \in 1..Len(queue) /\ queue[i + 1] = q /\ i + 1 # 1
      BY <1>1, <3>1
    <3> QED
      BY <1>1, <2>1, <3>2 DEF Waiting, QueuedOnce
  <2>2. CASE q \in Waiting \ {Head(queue)}
    <3>1. PICK i \in 1..Len(queue) : queue[i] = q
      BY <2>2 DEF Waiting
    <3>2. i - 1 \in 1..Len(queue') /\ queue'[i - 1] = queue[(i - 1) + 1]
      BY <1>1, <2>2, <3>1
    <3>3. queue'[i - 1] = q
      BY <3>1, <3>2
    <3> QED
      BY <2>2, <3>2, <3>3 DEF Waiting
  <2> QED
    BY <2>1, <2>2
<1>4. QueuedOnce'
  BY <1>1 DEF QueuedOnce
<1> QED
  BY <1>2, <1>3, <1>4

\* A connection takes or drops a request.
LEMMA ExecutingSet ==
  ASSUME inflight \in [Conns -> Requests \cup {None}], ExecutedOnce,
         NEW c \in Conns, NEW x \in Requests \cup {None}, x \notin Executing,
         inflight' = [inflight EXCEPT ![c] = x]
  PROVE  /\ Executing' = (Executing \ {inflight[c]}) \cup ({x} \ {None})
         /\ ExecutedOnce'
<1>1. \A d \in Conns : inflight'[d] = IF d = c THEN x ELSE inflight[d]
  OBVIOUS
<1>2. ASSUME NEW d \in Conns, d # c, inflight[d] # None
      PROVE  inflight[d] # inflight[c] /\ inflight[d] # x
  BY <1>2 DEF ExecutedOnce, Executing
<1>3. ASSUME NEW q PROVE q \in Executing' <=> q \in (Executing \ {inflight[c]}) \cup ({x} \ {None})
  <2>1. CASE q \in Executing'
    <3>1. PICK d \in Conns : inflight'[d] = q /\ q # None
      BY <2>1 DEF Executing
    <3> QED
      BY <1>1, <1>2, <3>1 DEF Executing
  <2>2. CASE q \in Executing \ {inflight[c]}
    <3>1. PICK d \in Conns : inflight[d] = q /\ q # None
      BY <2>2 DEF Executing
    <3>2. d # c
      BY <2>2, <3>1
    <3>3. inflight'[d] = q
      BY <1>1, <3>1, <3>2
    <3> QED
      BY <2>2, <3>1, <3>3 DEF Executing
  <2>3. CASE q = x /\ x # None
    BY <1>1, <2>3 DEF Executing
  <2> QED
    BY <2>1, <2>2, <2>3
<1>4. ExecutedOnce'
  BY <1>1, <1>2 DEF ExecutedOnce
<1> QED
  BY <1>3, <1>4

\* A result is posted on the strand of c.
LEMMA PostedAppend ==
  ASSUME posted \in [Conns -> Seq(Requests)], PostedOnce,
         NEW c \in Conns, NEW r \in Requests, r \notin Posted,
         posted' = [posted EXCEPT ![c] = Append(@, r)]
  PROVE  Posted' = Posted \cup {r} /\ PostedOnce'
<1>1. /\ Len(posted[c]) \in Nat
      /\ Len(posted'[c]) = Len(posted[c]) + 1
      /\ \A i \in 1..Len(posted[c]) : posted'[c][i] = posted[c][i]
      /\ posted'[c][Len(posted[c]) + 1] = r
      /\ \A d \in Conns \ {c} : posted'[d] = posted[d]
  OBVIOUS
<1>2. \A d \in Conns : \A i \in 1..Len(posted[d]) : posted[d][i] # r
  BY DEF Posted
<1>3. ASSUME NEW q PROVE q \in Posted' <=> q \in Posted \cup {r}
  <2>1. CASE q \in Posted'
    <3>1. PICK d \in Conns : \E i \in 1..Len(posted'[d]) : posted'[d][i] = q
      BY <2>1 DEF Posted
    <3>2. PICK i \in 1..Len(posted'[d]) : posted'[d][i] = q
      BY <3>1
    <3>3. CASE d = c
      <4>1. i \in 1..Len(posted[c]) \/ i = Len(posted[c]) + 1
        BY <1>1, <3>3
      <4> QED
        BY <1>1, <3>2, <3>3, <4>1 DEF Posted
    <3>4. CASE d # c
      BY <1>1, <3>2, <3>4 DEF Posted
    <3> QED
      BY <3>3, <3>4
  <2>2. CASE q \in Posted
    <3>1. PICK d \in Conns : \E i \in 1..Len(posted[d]) : posted[d][i] = q
      BY <2>2 DEF Posted
    <3>2. PICK i \in 1..Len(posted[d]) : posted[d][i] = q
      BY <3>1
    <3>3. i \in 1..Len(posted'[d]) /\ posted'[d][i] = q
      BY <1>1, <3>2
    <3> QED
      BY <3>3 DEF Posted
  <2>3. CASE q = r
    <3>1. Len(posted[c]) + 1 \in 1..Len(posted'[c])
      BY <1>1
    <3> QED
      BY <1>1, <2>3, <3>1 DEF Posted
  <2> QED
    BY <2>1, <2>2, <2>3
<1>4. ASSUME NEW d \in Conns, NEW e \in Conns,
             NEW i \in 1..Len(posted'[d]), NEW j \in 1..Len(posted'[e]),
             posted'[d][i] = posted'[e][j]
      PROVE  d = e /\ i = j
  <2>1. CASE d # c /\ e # c
    BY <1>1, <1>4, <2>1 DEF PostedOnce
  <2>2. CASE d = c /\ e # c
    BY <1>1, <1>2, <1>4, <2>2 DEF PostedOnce
  <2>3. CASE d # c /\ e = c
    BY <1>1, <1>2, <1>4, <2>3 DEF PostedOnce
  <2>4. CASE d = c /\ e = c
    BY <1>1, <1>2, <1>4, <2>4 DEF PostedOnce
  <2> QED
    BY <2>1, <2>2, <2>3, <2>4
<1> QED
  BY <1>3, <1>4 DEF PostedOnce

\* The strand of c takes up the first result.
LEMMA PostedTail ==
  ASSUME posted \in [Conns -> Seq(Requests)], PostedOnce,
         NEW c \in Conns, posted[c] # <<>>,
         posted' = [posted EXCEPT ![c] = Tail(@)]
  PROVE  /\ Head(posted[c]) \in Posted
         /\ Posted' = Posted \ {Head(posted[c])}
         /\ PostedOnce'
<1>1. /\ Len(posted[c]) \in Nat \ {0}
      /\ Len(posted'[c]) = Len(posted[c]) - 1
      /\ \A i \in 1..Len(posted'[c]) : posted'[c][i] = posted[c][i + 1]
      /\ Head(posted[c]) = posted[c][1]
      /\ \A d \in Conns \ {c} : posted'[d] = posted[d]
  OBVIOUS
<1>2. Head(posted[c]) \in Posted
  BY <1>1 DEF Posted
<1>3. ASSUME NEW q PROVE q \in Posted' <=> q \in Posted \ {Head(posted[c])}
  <2>1. CASE q \in Posted'
    <3>1. PICK d \in Conns : \E i \in 1..Len(posted'[d]) : posted'[d][i] = q
      BY <2>1 DEF Posted
    <3>2. PICK i \in 1..Len(posted'[d]) : posted'[d][i] = q
      BY <3>1
    <3>3. CASE d = c
      <4>1. i + 1 \in 1..Len(posted[c]) /\ posted[c][i + 1] = q /\ i + 1 # 1
        BY <1>1, <3>2, <3>3
      <4>2. q # Head(posted[c])
        BY <1>1, <4>1 DEF PostedOnce
      <4> QED
        BY <2>1, <4>1, <4>2 DEF Posted
    <3>4. CASE d # c
      <4>1. i \in 1..Len(posted[d]) /\ posted[d][i] = q
        BY <1>1, <3>2, <3>4
      <4>2. q # Head(posted[c])
        BY <1>1, <3>4, <4>1 DEF PostedOnce
      <4> QED
        BY <2>1, <4>1, <4>2 DEF Posted
    <3> QED
      BY <3>3, <3>4
  <2>2. CASE q \in Posted \ {Head(posted[c])}
    <3>1. PICK d \in Conns : \E i \in 1..Len(posted[d]) : posted[d][i] = q
      BY <2>2 DEF Posted
    <3>2. PICK i \in 1..Len(posted[d]) : posted[d][i] = q
      BY <3>1
    <3>3. CASE d = c
      <4>1. i - 1 \in 1..Len(posted'[c]) /\ posted'[c][i - 1] = posted[c][(i - 1) + 1]
        BY <1>1, <2>2, <3>2, <3>3
      <4>2. posted'[c][i - 1] = q
        BY <3>2, <3>3, <4>1
      <4>3. q \in {posted'[c][k] : k \in 1..Len(posted'[c])}
        BY <4>1, <4>2
      <4> QED
        BY <2>2, <4>3 DEF Posted
    <3>4. CASE d # c
      BY <1>1, <2>2, <3>2, <3>4 DEF Posted
    <3> QED
      BY <3>3, <3>4
  <2> QED
    BY <2>1, <2>2
<1>4. ASSUME NEW d \in Conns, NEW e \in Conns,
             NEW i \in 1..Len(posted'[d]), NEW j \in 1..Len(posted'[e]),
             posted'[d][i] = posted'[e][j]
      PROVE  d = e /\ i = j
  <2>1. CASE d # c /\ e # c
    BY <1>1, <1>4, <2>1 DEF PostedOnce
  <2>2. CASE d = c /\ e # c
    <3>1. i + 1 \in 1..Len(posted[c]) /\ posted[c][i + 1] = posted[e][j]
      BY <1>1, <1>4, <2>2
    <3> QED
      BY <1>1, <2>2, <3>1 DEF PostedOnce
  <2>3. CASE d # c /\ e = c
    <3>1. j + 1 \in 1..Len(posted[c]) /\ posted[c][j + 1] = posted[d][i]
      BY <1>1, <1>4, <2>3
    <3> QED
      BY <1>1, <2>3, <3>1 DEF PostedOnce
  <2>4. CASE d = c /\ e = c
    BY <1>1, <1>4, <2>4 DEF PostedOnce
  <2> QED
    BY <2>1, <2>2, <2>3, <2>4
<1> QED
  BY <1>2, <1>3, <1>4 DEF PostedOnce

\* r is called back, for the first time or once more.
LEMMA CalledBackSet ==
  ASSUME called \in [Requests -> Seq({"result", "error"})],
         NEW r \in Requests, NEW s, s # <<>>,
         called' = [called EXCEPT ![r] = s]
  PROVE  CalledBack' = CalledBack \cup {r}
  BY DEF CalledBack

-----------------------------------------------------------------------------
(* Every request in one place.  OnePlace alone is not inductive: the strands *)
(* must not hold a result twice, or running one of them would leave its      *)
(* request both posted and called back; and a request is called back for the *)
(* first time because it was elsewhere before.                               *)

RequestOK == OnePlace /\ PostedOnce /\ AnsweredOnce

RequestInv == TypeInv /\ RequestOK

\* After the step the places of requests are w, e, p, c and l, and none holds a
\* request twice.
Places(w, e, p, c, l) ==
  /\ Waiting' = w /\ Executing' = e /\ Posted' = p /\ CalledBack' = c /\ lost' = l
  /\ QueuedOnce' /\ ExecutedOnce' /\ PostedOnce' /\ AnsweredOnce'

\* What stays where it was.
LEMMA SamePlaces ==
  /\ UNCHANGED queue => Waiting' = Waiting /\ (QueuedOnce => QueuedOnce')
  /\ UNCHANGED inflight => Executing' = Executing /\ (ExecutedOnce => ExecutedOnce')
  /\ UNCHANGED posted => Posted' = Posted /\ (PostedOnce => PostedOnce')
  /\ UNCHANGED called => CalledBack' = CalledBack /\ (AnsweredOnce => AnsweredOnce')
<1>1. ASSUME UNCHANGED queue PROVE Waiting' = Waiting /\ (QueuedOnce => QueuedOnce')
  BY <1>1 DEF Waiting, QueuedOnce
<1>2. ASSUME UNCHANGED inflight PROVE Executing' = Executing /\ (ExecutedOnce => ExecutedOnce')
  BY <1>2 DEF Executing, ExecutedOnce
<1>3. ASSUME UNCHANGED posted PROVE Posted' = Posted /\ (PostedOnce => PostedOnce')
  BY <1>3 DEF Posted, PostedOnce
<1>4. ASSUME UNCHANGED called PROVE CalledBack' = CalledBack /\ (AnsweredOnce => AnsweredOnce')
  BY <1>4 DEF CalledBack, AnsweredOnce
<1> QED
  BY <1>1, <1>2, <1>3, <1>4

\* The parts of the invariant by their names.
LEMMA RequestParts ==
  ASSUME RequestInv
  PROVE  /\ QueuedOnce /\ ExecutedOnce /\ PostedOnce /\ AnsweredOnce
         /\ Waiting \subseteq Requests /\ Executing \subseteq Requests
         /\ Posted \subseteq Requests /\ CalledBack \subseteq Requests
         /\ \A r \in Requests \ CalledBack : called[r] = <<>>
<1>1. QueuedOnce /\ ExecutedOnce
  BY DEF RequestInv, RequestOK, OnePlace, QueuedOnce, ExecutedOnce
<1>2. Waiting \cup Executing \cup Posted \cup CalledBack \subseteq Requests
  BY DEF RequestInv, RequestOK, OnePlace, TypeInv, TypeOK
<1> QED
  BY <1>1, <1>2 DEF RequestInv, RequestOK, CalledBack

\* A request's first callbacks are s.
LEMMA FirstCalled ==
  ASSUME RequestInv, NEW r \in Requests \ CalledBack,
         NEW s \in {<<"result">>, <<"error">>, <<"result", "error">>},
         called' = [called EXCEPT ![r] = s]
  PROVE  CalledBack' = CalledBack \cup {r} /\ AnsweredOnce'
<1>1. called \in [Requests -> Seq({"result", "error"})]
  BY DEF RequestInv, TypeInv, TypeOK
<1>2. s # <<>>
  OBVIOUS
<1>3. CalledBack' = CalledBack \cup {r}
  BY <1>1, <1>2, CalledBackSet
<1>4. AnsweredOnce'
  BY <1>1, RequestParts DEF AnsweredOnce
<1> QED
  BY <1>3, <1>4

\* A request that is nowhere, and one that is called back for the first time by
\* its error callback.
LEMMA FirstError ==
  ASSUME RequestInv, NEW r \in Requests \ CalledBack,
         called' = [called EXCEPT ![r] = Append(@, "error")]
  PROVE  CalledBack' = CalledBack \cup {r} /\ AnsweredOnce'
<1>1. called \in [Requests -> Seq({"result", "error"})] /\ called[r] = <<>>
  BY RequestParts DEF RequestInv, TypeInv, TypeOK
<1>2. Append(<<>>, "error") = <<"error">>
  OBVIOUS
<1>3. called' = [called EXCEPT ![r] = <<"error">>]
  BY <1>1, <1>2
<1> QED
  BY <1>3, FirstCalled

LEMMA PlacesClose ==
  ASSUME RequestInv, Close
  PROVE  Places(Waiting, Executing, Posted, CalledBack, lost) /\ submitted' = submitted
  BY SamePlaces, RequestParts DEF Close, history, Places

LEMMA PlacesSubmit ==
  ASSUME RequestInv, NEW r \in Requests
  PROVE  /\ Refuse(r) => Places(Waiting, Executing, Posted, CalledBack \cup {r}, lost)
         /\ Dispatch(r) => Places(Waiting, Executing \cup {r}, Posted, CalledBack, lost)
         /\ DispatchToDead(r) => Places(Waiting, Executing, Posted, CalledBack, lost \cup {r})
         /\ Enqueue(r) => Places(Waiting \cup {r}, Executing, Posted, CalledBack, lost)
         /\ Submit(r) => /\ r \notin Waiting \cup Executing \cup Posted \cup CalledBack \cup lost
                         /\ submitted' = submitted \cup {r}
<1>1. ASSUME Submit(r)
      PROVE  /\ r \notin Waiting \cup Executing \cup Posted \cup CalledBack \cup lost
             /\ submitted' = submitted \cup {r}
  BY <1>1 DEF Submit, RequestInv, RequestOK, OnePlace
<1>2. ASSUME Refuse(r)
      PROVE  Places(Waiting, Executing, Posted, CalledBack \cup {r}, lost)
  <2>1. CalledBack' = CalledBack \cup {r} /\ AnsweredOnce'
    BY <1>1, <1>2, FirstCalled DEF Refuse
  <2> QED
    BY <1>2, <2>1, SamePlaces, RequestParts DEF Refuse, Places, poolVars, connVars
<1>3. ASSUME Dispatch(r)
      PROVE  Places(Waiting, Executing \cup {r}, Posted, CalledBack, lost)
  <2>1. Head(ready) \in Conns /\ inflight[Head(ready)] = None
    BY <1>3 DEF Dispatch, RequestInv, TypeInv, TypeOK, InflightIffQuery
  <2>2. Executing' = (Executing \ {None}) \cup ({r} \ {None}) /\ ExecutedOnce'
    BY <1>1, <1>3, <2>1, ExecutingSet, RequestParts DEF Dispatch, RequestInv, TypeInv, TypeOK
  <2>3. Executing' = Executing \cup {r}
    BY <2>2, NoneAssumption DEF Executing
  <2> QED
    BY <1>3, <2>2, <2>3, SamePlaces, RequestParts DEF Dispatch, Places
<1>4. ASSUME DispatchToDead(r)
      PROVE  Places(Waiting, Executing, Posted, CalledBack, lost \cup {r})
  BY <1>4, SamePlaces, RequestParts DEF DispatchToDead, Places, connVars
<1>5. ASSUME Enqueue(r)
      PROVE  Places(Waiting \cup {r}, Executing, Posted, CalledBack, lost)
  <2>1. /\ queue' = Append(queue, r)
        /\ UNCHANGED <<inflight, posted, called, lost>>
    BY <1>5 DEF Enqueue, Wait
  <2>2. Waiting' = Waiting \cup {r} /\ QueuedOnce'
    BY <1>1, <1>5, <2>1, WaitingAppend, RequestParts DEF Enqueue, RequestInv, TypeInv, TypeOK
  <2> QED
    BY <2>1, <2>2, SamePlaces, RequestParts DEF Places
<1> QED
  BY <1>1, <1>2, <1>3, <1>4, <1>5

\* A connection that enters idle lets go of its request, and may take the oldest
\* waiting one.
LEMMA PlacesIdle ==
  ASSUME RequestInv, NEW c \in Conns, BecomeIdle(c)
  PROVE  /\ QueuedOnce' /\ ExecutedOnce'
         /\ \/ /\ queue # <<>> /\ queue' = Tail(queue)
               /\ Head(queue) \in Waiting /\ Waiting' = Waiting \ {Head(queue)}
               /\ Executing' = (Executing \ {inflight[c]}) \cup {Head(queue)}
            \/ /\ queue' = queue /\ Waiting' = Waiting
               /\ Executing' = Executing \ {inflight[c]}
<1>1. inflight \in [Conns -> Requests \cup {None}] /\ queue \in Seq(Requests)
  BY DEF RequestInv, TypeInv, TypeOK
<1>2. CASE Serve(c)
  <2>1. /\ Head(queue) \in Waiting /\ Waiting' = Waiting \ {Head(queue)}
        /\ QueuedOnce'
    BY <1>1, <1>2, WaitingTail, RequestParts DEF Serve
  <2>2. Head(queue) \in Requests /\ Head(queue) \notin Executing
    BY <2>1, RequestParts DEF RequestInv, RequestOK, OnePlace
  <2>3. /\ Executing' = (Executing \ {inflight[c]}) \cup ({Head(queue)} \ {None})
        /\ ExecutedOnce'
    BY <1>1, <1>2, <2>2, ExecutingSet, RequestParts DEF Serve
  <2>4. Head(queue) # None
    BY <2>2, NoneAssumption
  <2> QED
    BY <1>2, <2>1, <2>3, <2>4 DEF Serve
<1>3. CASE CloseFrom(c) \/ Park(c)
  <2>1. queue' = queue /\ inflight' = [inflight EXCEPT ![c] = None]
    BY <1>3 DEF CloseFrom, Park
  <2>2. Executing' = (Executing \ {inflight[c]}) \cup ({None} \ {None}) /\ ExecutedOnce'
    BY <1>1, <2>1, ExecutingSet, RequestParts DEF Executing
  <2> QED
    BY <2>1, <2>2, SamePlaces, RequestParts
<1> QED
  BY <1>2, <1>3 DEF BecomeIdle

\* The oldest waiting request is handed over, or nothing changes in the queue.
TakenOver(e, p, c) ==
  \/ /\ queue # <<>> /\ queue' = Tail(queue) /\ Head(queue) \in Waiting
     /\ Places(Waiting \ {Head(queue)}, e \cup {Head(queue)}, p, c, lost)
  \/ queue' = queue /\ Places(Waiting, e, p, c, lost)

LEMMA PlacesHandler ==
  ASSUME RequestInv, NEW c \in Conns
  PROVE  /\ Connected(c) \/ AuthReply(c) => TakenOver(Executing, Posted, CalledBack)
         /\ ConnectedToAuth(c) \/ AuthRefused(c) =>
              Places(Waiting, Executing, Posted, CalledBack, lost)
         /\ Reply(c) => /\ inflight[c] \in Executing
                        /\ TakenOver(Executing \ {inflight[c]}, Posted \cup {inflight[c]},
                                     CalledBack)
         /\ QueryError(c) => /\ inflight[c] \in Executing
                             /\ Places(Waiting, Executing \ {inflight[c]}, Posted,
                                       CalledBack \cup {inflight[c]}, lost)
         /\ Answer(c) => submitted' = submitted
<1>0. /\ inflight \in [Conns -> Requests \cup {None}]
      /\ posted \in [Conns -> Seq(Requests)]
      /\ phase = "loop" => c # current
      /\ None \notin Executing
  BY NoneAssumption DEF RequestInv, TypeInv, TypeOK, ThreadOK, Executing
<1>1. phase = "loop" /\ fsm[c] # "query" => inflight[c] = None
  BY DEF RequestInv, TypeInv, InflightIffQuery
<1>2. phase = "loop" /\ fsm[c] = "query" => inflight[c] \in Executing
  BY <1>0 DEF RequestInv, TypeInv, InflightIffQuery, Executing
<1>3. ASSUME Connected(c) \/ AuthReply(c)
      PROVE  TakenOver(Executing, Posted, CalledBack)
  <2>1. BecomeIdle(c) /\ inflight[c] = None /\ UNCHANGED <<posted, called, lost>>
    BY <1>1, <1>3 DEF Connected, AuthReply, history
  <2>2. Executing \ {inflight[c]} = Executing
    BY <1>0, <2>1
  <2> QED
    BY <2>1, <2>2, PlacesIdle, SamePlaces, RequestParts DEF TakenOver, Places
<1>4. ASSUME ConnectedToAuth(c) \/ AuthRefused(c)
      PROVE  Places(Waiting, Executing, Posted, CalledBack, lost)
  <2>1. UNCHANGED <<queue, inflight, posted, called, lost>>
    BY <1>4 DEF ConnectedToAuth, AuthRefused, poolVars, history
  <2> QED
    BY <2>1, SamePlaces, RequestParts DEF Places
<1>5. ASSUME Reply(c)
      PROVE  TakenOver(Executing \ {inflight[c]}, Posted \cup {inflight[c]}, CalledBack)
  <2>1. BecomeIdle(c) /\ inflight[c] \in Executing /\ UNCHANGED <<called, lost>>
    BY <1>2, <1>5 DEF Reply, history
  <2>2. inflight[c] \in Requests /\ inflight[c] \notin Posted
    BY <2>1, RequestParts DEF RequestInv, RequestOK, OnePlace
  <2>3. Posted' = Posted \cup {inflight[c]} /\ PostedOnce'
    BY <1>0, <1>5, <2>2, PostedAppend, RequestParts DEF Reply
  <2> QED
    BY <2>1, <2>3, PlacesIdle, SamePlaces, RequestParts DEF TakenOver, Places
<1>6. ASSUME QueryError(c)
      PROVE  Places(Waiting, Executing \ {inflight[c]}, Posted, CalledBack \cup {inflight[c]}, lost)
  <2>1. inflight[c] \in Executing /\ UNCHANGED <<queue, posted, lost>>
    BY <1>2, <1>6 DEF QueryError, poolVars
  <2>2. inflight[c] \in Requests \ CalledBack
    BY <2>1, RequestParts DEF RequestInv, RequestOK, OnePlace
  <2>3. CalledBack' = CalledBack \cup {inflight[c]} /\ AnsweredOnce'
    BY <1>6, <2>2, FirstError DEF QueryError
  <2>4. Executing' = (Executing \ {inflight[c]}) \cup ({None} \ {None}) /\ ExecutedOnce'
    BY <1>0, <1>6, ExecutingSet, RequestParts DEF QueryError
  <2> QED
    BY <2>1, <2>3, <2>4, SamePlaces, RequestParts DEF Places
<1>7. ASSUME Answer(c) PROVE submitted' = submitted
  BY <1>7 DEF Answer, Connected, ConnectedToAuth, AuthReply, AuthRefused, Reply,
              QueryError, history
<1> QED
  BY <1>2, <1>3, <1>4, <1>5, <1>6, <1>7 DEF Reply, QueryError

LEMMA PlacesFail ==
  ASSUME RequestInv, NEW c \in Conns, Fail(c)
  PROVE  /\ submitted' = submitted /\ queue' = queue
         /\ \/ /\ inflight[c] \in Executing
               /\ Places(Waiting, Executing \ {inflight[c]}, Posted, CalledBack,
                         lost \cup {inflight[c]})
            \/ Places(Waiting, Executing, Posted, CalledBack, lost)
<1>0. /\ inflight \in [Conns -> Requests \cup {None}]
      /\ c # current /\ None \notin Executing
      /\ UNCHANGED <<queue, posted, submitted, called>>
  BY NoneAssumption DEF Fail, poolVars, RequestInv, TypeInv, TypeOK, ThreadOK, Executing
<1>1. Executing' = (Executing \ {inflight[c]}) \cup ({None} \ {None}) /\ ExecutedOnce'
  BY <1>0, ExecutingSet, RequestParts DEF Fail
<1>2. CASE fsm[c] = "query"
  <2>1. inflight[c] \in Executing /\ lost' = lost \cup {inflight[c]}
    BY <1>0, <1>2 DEF Fail, RequestInv, TypeInv, InflightIffQuery, Executing
  <2> QED
    BY <1>0, <1>1, <2>1, SamePlaces, RequestParts DEF Places
<1>3. CASE fsm[c] # "query"
  <2>1. inflight[c] = None /\ lost' = lost
    BY <1>0, <1>3 DEF Fail, RequestInv, TypeInv, InflightIffQuery
  <2> QED
    BY <1>0, <1>1, <2>1, SamePlaces, RequestParts DEF Places
<1> QED
  BY <1>2, <1>3

LEMMA PlacesRunPosted ==
  ASSUME RequestInv, NEW c \in Conns, RunPosted(c)
  PROVE  /\ submitted' = submitted /\ queue' = queue
         /\ Head(posted[c]) \in Posted
         /\ Places(Waiting, Executing, Posted \ {Head(posted[c])},
                   CalledBack \cup {Head(posted[c])}, lost)
<1>1. /\ posted \in [Conns -> Seq(Requests)]
      /\ UNCHANGED <<queue, inflight, submitted, lost>>
  BY DEF RunPosted, poolVars, RequestInv, TypeInv, TypeOK
<1>2. /\ Head(posted[c]) \in Posted
      /\ Posted' = Posted \ {Head(posted[c])} /\ PostedOnce'
  BY <1>1, PostedTail, RequestParts DEF RunPosted
<1>3. Head(posted[c]) \in Requests \ CalledBack
  BY <1>2, RequestParts DEF RequestInv, RequestOK, OnePlace
<1>4. called[Head(posted[c])] = <<>>
  BY <1>3, RequestParts
<1>5. PICK outcome \in {<<"result">>, <<"result", "error">>} :
        called' = [called EXCEPT ![Head(posted[c])] = @ \o outcome]
  BY DEF RunPosted
<1>6. <<>> \o outcome = outcome
  BY <1>5
<1>7. called' = [called EXCEPT ![Head(posted[c])] = outcome]
  BY <1>4, <1>5, <1>6
<1>8. CalledBack' = CalledBack \cup {Head(posted[c])} /\ AnsweredOnce'
  BY <1>3, <1>7, FirstCalled
<1> QED
  BY <1>1, <1>2, <1>8, SamePlaces, RequestParts DEF Places

LEMMA PlacesResume ==
  ASSUME RequestInv
  PROVE  /\ QueryErrorReturns => TakenOver(Executing, Posted, CalledBack)
         /\ ClearNext => /\ Head(queue) \in Waiting
                         /\ Places(Waiting \ {Head(queue)}, Executing, Posted,
                                   CalledBack \cup {Head(queue)}, lost)
         /\ ClearReturns \/ ErrorDone =>
              queue' = queue /\ Places(Waiting, Executing, Posted, CalledBack, lost)
         /\ Resume => submitted' = submitted
<1>1. ASSUME QueryErrorReturns
      PROVE  TakenOver(Executing, Posted, CalledBack)
  <2>1. current \in Conns /\ inflight[current] = None /\ None \notin Executing
    BY <1>1 DEF QueryErrorReturns, RequestInv, TypeInv, TypeOK, ThreadOK,
                InflightIffQuery, Executing
  <2>2. Executing \ {inflight[current]} = Executing
    BY <2>1
  <2>3. BecomeIdle(current) /\ UNCHANGED <<posted, called, lost>>
    BY <1>1 DEF QueryErrorReturns, history
  <2> QED
    BY <2>1, <2>2, <2>3, PlacesIdle, SamePlaces, RequestParts DEF TakenOver, Places
<1>2. ASSUME ClearNext
      PROVE  /\ Head(queue) \in Waiting
             /\ Places(Waiting \ {Head(queue)}, Executing, Posted,
                       CalledBack \cup {Head(queue)}, lost)
  <2>1. /\ Head(queue) \in Waiting /\ Waiting' = Waiting \ {Head(queue)}
        /\ QueuedOnce'
    BY <1>2, WaitingTail, RequestParts DEF ClearNext, RequestInv, TypeInv, TypeOK
  <2>2. Head(queue) \in Requests \ CalledBack
    BY <2>1, RequestParts DEF RequestInv, RequestOK, OnePlace
  <2>3. CalledBack' = CalledBack \cup {Head(queue)} /\ AnsweredOnce'
    BY <1>2, <2>2, FirstError DEF ClearNext
  <2> QED
    BY <1>2, <2>1, <2>3, SamePlaces, RequestParts DEF ClearNext, connVars, Places
<1>3. ASSUME ClearReturns \/ ErrorDone
      PROVE  queue' = queue /\ Places(Waiting, Executing, Posted, CalledBack, lost)
  <2>1. UNCHANGED <<queue, inflight, posted, called, lost>>
    BY <1>3 DEF ClearReturns, ErrorDone, Terminate, poolVars, connVars, history
  <2> QED
    BY <2>1, SamePlaces, RequestParts DEF Places
<1>4. ASSUME Resume PROVE submitted' = submitted
  BY <1>4 DEF Resume, QueryErrorReturns, ClearNext, ClearReturns, ErrorDone, Terminate, history
<1> QED
  BY <1>1, <1>2, <1>3, <1>4

\* The requests s are in one of the places each.
Partition(s, w, e, p, c, l) ==
  /\ s = w \cup e \cup p \cup c \cup l
  /\ w \cap (e \cup p \cup c \cup l) = {} /\ e \cap (p \cup c \cup l) = {}
  /\ p \cap (c \cup l) = {} /\ c \cap l = {}

\* The invariant from the places.
LEMMA Placed ==
  ASSUME TypeInv', NEW w, NEW e, NEW p, NEW c, NEW l, Places(w, e, p, c, l),
         Partition(submitted', w, e, p, c, l)
  PROVE  RequestOK'
  BY DEF Places, Partition, TypeInv, RequestOK, OnePlace, QueuedOnce, ExecutedOnce

LEMMA PlacedTakenOver ==
  ASSUME TypeInv', NEW e, NEW p, NEW c, TakenOver(e, p, c),
         Partition(submitted', Waiting, e, p, c, lost)
  PROVE  RequestOK'
<1>1. CASE Places(Waiting, e, p, c, lost)
  BY <1>1, Placed
<1>2. CASE /\ Head(queue) \in Waiting
           /\ Places(Waiting \ {Head(queue)}, e \cup {Head(queue)}, p, c, lost)
  <2>1. Partition(submitted', Waiting \ {Head(queue)}, e \cup {Head(queue)}, p, c, lost)
    BY <1>2 DEF Partition
  <2> QED
    BY <1>2, <2>1, Placed
<1> QED
  BY <1>1, <1>2 DEF TakenOver

LEMMA RequestInvInit == Init => RequestInv
<1> SUFFICES ASSUME Init PROVE RequestOK
  BY TypeInvInit DEF RequestInv
<1>1. InflightIffQuery
  BY TypeInvInit DEF TypeInv
<1>2. Waiting = {} /\ Executing = {} /\ Posted = {} /\ CalledBack = {}
  BY DEF Init, Waiting, Executing, Posted, CalledBack
<1> QED
  BY <1>1, <1>2 DEF Init, RequestOK, OnePlace, PostedOnce, AnsweredOnce

LEMMA RequestInvNext == RequestInv /\ [Next]_vars => RequestInv'
<1> SUFFICES ASSUME RequestInv, [Next]_vars, TypeInv' PROVE RequestOK'
  BY TypeInvNext DEF RequestInv
<1>0. Partition(submitted, Waiting, Executing, Posted, CalledBack, lost)
  BY DEF RequestInv, RequestOK, OnePlace, Partition
<1>1. CASE User
  <2>1. CASE Close
    BY <1>0, <2>1, PlacesClose, Placed
  <2>2. ASSUME NEW r \in Requests, Refuse(r) PROVE RequestOK'
    <3>1. Places(Waiting, Executing, Posted, CalledBack \cup {r}, lost)
      BY <2>2, PlacesSubmit
    <3>2. Partition(submitted', Waiting, Executing, Posted, CalledBack \cup {r}, lost)
      BY <1>0, <2>2, PlacesSubmit DEF Partition, Refuse
    <3> QED
      BY <3>1, <3>2, Placed
  <2>3. ASSUME NEW r \in Requests, Dispatch(r) PROVE RequestOK'
    <3>1. Places(Waiting, Executing \cup {r}, Posted, CalledBack, lost)
      BY <2>3, PlacesSubmit
    <3>2. Partition(submitted', Waiting, Executing \cup {r}, Posted, CalledBack, lost)
      BY <1>0, <2>3, PlacesSubmit DEF Partition, Dispatch
    <3> QED
      BY <3>1, <3>2, Placed
  <2>4. ASSUME NEW r \in Requests, DispatchToDead(r) PROVE RequestOK'
    <3>1. Places(Waiting, Executing, Posted, CalledBack, lost \cup {r})
      BY <2>4, PlacesSubmit
    <3>2. Partition(submitted', Waiting, Executing, Posted, CalledBack, lost \cup {r})
      BY <1>0, <2>4, PlacesSubmit DEF Partition, DispatchToDead
    <3> QED
      BY <3>1, <3>2, Placed
  <2>5. ASSUME NEW r \in Requests, Enqueue(r) PROVE RequestOK'
    <3>1. Places(Waiting \cup {r}, Executing, Posted, CalledBack, lost)
      BY <2>5, PlacesSubmit
    <3>2. Partition(submitted', Waiting \cup {r}, Executing, Posted, CalledBack, lost)
      BY <1>0, <2>5, PlacesSubmit DEF Partition, Enqueue
    <3> QED
      BY <3>1, <3>2, Placed
  <2> QED
    BY <1>1, <2>1, <2>2, <2>3, <2>4, <2>5 DEF User
<1>2. CASE Resume
  <2>1. submitted' = submitted
    BY <1>2, PlacesResume
  <2>2. CASE QueryErrorReturns
    BY <1>0, <2>1, <2>2, PlacesResume, PlacedTakenOver
  <2>3. CASE ClearNext
    <3>1. Places(Waiting \ {Head(queue)}, Executing, Posted, CalledBack \cup {Head(queue)}, lost)
      BY <2>3, PlacesResume
    <3>2. Partition(submitted', Waiting \ {Head(queue)}, Executing, Posted, CalledBack \cup {Head(queue)}, lost)
      BY <1>0, <2>3, PlacesResume, <2>1 DEF Partition
    <3> QED
      BY <3>1, <3>2, Placed
  <2>4. CASE ClearReturns \/ ErrorDone
    BY <1>0, <2>1, <2>4, PlacesResume, Placed
  <2> QED
    BY <1>2, <2>2, <2>3, <2>4 DEF Resume
<1>3. ASSUME NEW c \in Conns, Answer(c) PROVE RequestOK'
  <2>1. submitted' = submitted
    BY <1>3, PlacesHandler
  <2>2. CASE Connected(c) \/ AuthReply(c)
    BY <1>0, <2>1, <2>2, PlacesHandler, PlacedTakenOver
  <2>3. CASE ConnectedToAuth(c) \/ AuthRefused(c)
    BY <1>0, <2>1, <2>3, PlacesHandler, Placed
  <2>4. CASE Reply(c)
    <3>1. TakenOver(Executing \ {inflight[c]}, Posted \cup {inflight[c]}, CalledBack)
      BY <2>4, PlacesHandler
    <3>2. Partition(submitted', Waiting, Executing \ {inflight[c]}, Posted \cup {inflight[c]},
                    CalledBack, lost)
      BY <1>0, <2>1, <2>4, PlacesHandler DEF Partition
    <3> QED
      BY <3>1, <3>2, PlacedTakenOver
  <2>5. CASE QueryError(c)
    <3>1. Places(Waiting, Executing \ {inflight[c]}, Posted, CalledBack \cup {inflight[c]}, lost)
      BY <2>5, PlacesHandler
    <3>2. Partition(submitted', Waiting, Executing \ {inflight[c]}, Posted, CalledBack \cup {inflight[c]}, lost)
      BY <1>0, <2>5, PlacesHandler, <2>1 DEF Partition
    <3> QED
      BY <3>1, <3>2, Placed
  <2> QED
    BY <1>3, <2>2, <2>3, <2>4, <2>5 DEF Answer
<1>4. ASSUME NEW c \in Conns, Fail(c) PROVE RequestOK'
  <2>1. submitted' = submitted
    BY <1>4, PlacesFail
  <2>2. CASE Places(Waiting, Executing, Posted, CalledBack, lost)
    BY <1>0, <2>1, <2>2, Placed
  <2>3. CASE /\ inflight[c] \in Executing
             /\ Places(Waiting, Executing \ {inflight[c]}, Posted, CalledBack,
                       lost \cup {inflight[c]})
    <3>1. Partition(submitted', Waiting, Executing \ {inflight[c]}, Posted, CalledBack,
                    lost \cup {inflight[c]})
      BY <1>0, <2>1, <2>3 DEF Partition
    <3> QED
      BY <2>3, <3>1, Placed
  <2> QED
    BY <1>4, <2>2, <2>3, PlacesFail
<1>5. ASSUME NEW c \in Conns, RunPosted(c) PROVE RequestOK'
  <2>1. Places(Waiting, Executing, Posted \ {Head(posted[c])},
               CalledBack \cup {Head(posted[c])}, lost)
    BY <1>5, PlacesRunPosted
  <2>2. Partition(submitted', Waiting, Executing, Posted \ {Head(posted[c])},
                  CalledBack \cup {Head(posted[c])}, lost)
    BY <1>0, <1>5, PlacesRunPosted DEF Partition
  <2> QED
    BY <2>1, <2>2, Placed
<1>6. CASE UNCHANGED vars
  <2>1. Places(Waiting, Executing, Posted, CalledBack, lost) /\ submitted' = submitted
    BY <1>6, SamePlaces, RequestParts DEF vars, poolVars, connVars, history, Places
  <2> QED
    BY <1>0, <2>1, Placed
<1> QED
  BY <1>1, <1>2, <1>3, <1>4, <1>5, <1>6 DEF Next

LEMMA RequestInvariant == Spec => []RequestInv
  BY RequestInvInit, RequestInvNext, PTL DEF Spec

\* A submitted request is in exactly one place, in one copy, until it is called
\* back or lost.
THEOREM OnePlaceCorrect == Spec => []OnePlace
<1>1. RequestInv => OnePlace
  BY DEF RequestInv, RequestOK
<1> QED
  BY <1>1, RequestInvariant, PTL

\* A request is told a result, or an error, or a result whose callback threw and
\* then that error, and nothing else.
THEOREM AnsweredOnceCorrect == Spec => []AnsweredOnce
<1>1. RequestInv => AnsweredOnce
  BY DEF RequestInv, RequestOK
<1> QED
  BY <1>1, RequestInvariant, PTL

-----------------------------------------------------------------------------
(* Action properties.                                                      *)

\* Requests are dropped without a callback by a link error and by a dead
\* connection in ready_connections_ only.
THEOREM LostCorrect == Spec => LostOnlyWithLink
<1> DEFINE Dropped ==
      lost' # lost => \E c \in Conns :
        \/ fsm[c] = "query" /\ current' = c /\ phase' = "clear"
        \/ fsm[c] = "terminated" /\ ready # <<>> /\ Head(ready) = c
<1>1. PoolInv /\ [Next]_vars => [Dropped]_vars
  <2> SUFFICES ASSUME PoolInv, Next, lost' # lost
               PROVE  \E c \in Conns :
                        \/ fsm[c] = "query" /\ current' = c /\ phase' = "clear"
                        \/ fsm[c] = "terminated" /\ ready # <<>> /\ Head(ready) = c
    OBVIOUS
  <2>1. CASE User
    <3>1. PICK r \in Requests : DispatchToDead(r)
      BY <2>1 DEF User, Close, Refuse, Dispatch, Enqueue, Wait, history
    <3>2. Head(ready) \in Conns /\ fsm[Head(ready)] \in {"idle", "terminated"}
      BY <3>1 DEF DispatchToDead, PoolInv, PoolOK, ReadyIsIdle, TypeInv, TypeOK
    <3>3. Head(ready) = current => fsm[Head(ready)] # "idle"
      BY <3>1, <3>2, NoneAssumption
      DEF DispatchToDead, Submit, UserCode, PoolInv, PoolOK, TypeInv, TypeOK, ThreadOK, ClearingOK
    <3> QED
      BY <3>1, <3>2, <3>3 DEF DispatchToDead
  <2>2. CASE Resume
    BY <2>2 DEF Resume, QueryErrorReturns, ClearNext, ClearReturns, ErrorDone, Terminate, history
  <2>3. ASSUME NEW c \in Conns, Answer(c) \/ RunPosted(c)
        PROVE  FALSE
    BY <2>3 DEF Answer, Connected, ConnectedToAuth, AuthReply, AuthRefused, Reply,
                QueryError, RunPosted, history
  <2>4. ASSUME NEW c \in Conns, Fail(c)
        PROVE  fsm[c] = "query" /\ current' = c /\ phase' = "clear"
    BY <2>4 DEF Fail
  <2> QED
    BY <2>1, <2>2, <2>3, <2>4 DEF Next
<1> QED
  BY <1>1, PoolInvariant, PTL DEF Spec, LostOnlyWithLink

\* The steps of a closed pool.
LEMMA ClosedStep ==
  ASSUME PoolInv, Next, closed
  PROVE  /\ connections' \subseteq connections
         /\ \A r \in submitted' \ submitted : called'[r] = <<"error">>
<1> USE DEF PoolInv, TypeInv
<1>1. CASE User
  <2>1. PICK r \in Requests : Refuse(r)
    BY <1>1 DEF User, Close, Dispatch, DispatchToDead, Enqueue
  <2> QED
    BY <2>1 DEF Refuse, Submit, poolVars, TypeOK
<1>2. ASSUME NEW c \in Conns, BecomeIdle(c)
      PROVE  connections' \subseteq connections
  BY <1>2 DEF BecomeIdle, Serve, CloseFrom, Park, Sweep
<1>3. CASE Resume
  <2>1. submitted' = submitted
    BY <1>3 DEF Resume, QueryErrorReturns, ClearNext, ClearReturns, ErrorDone, Terminate, history
  <2>2. CASE QueryErrorReturns
    BY <1>2, <2>1, <2>2 DEF QueryErrorReturns, ThreadOK, TypeOK
  <2>3. CASE ClearNext \/ ClearReturns \/ ErrorDone
    BY <2>1, <2>3 DEF ClearNext, ClearReturns, ErrorDone, Terminate, poolVars
  <2> QED
    BY <1>3, <2>2, <2>3 DEF Resume
<1>4. ASSUME NEW c \in Conns, Answer(c) \/ Fail(c) \/ RunPosted(c)
      PROVE  connections' \subseteq connections /\ submitted' = submitted
  <2>1. CASE Connected(c) \/ AuthReply(c) \/ Reply(c)
    BY <1>2, <2>1 DEF Connected, AuthReply, Reply, history
  <2>2. CASE ConnectedToAuth(c) \/ AuthRefused(c) \/ QueryError(c) \/ Fail(c) \/ RunPosted(c)
    BY <2>2 DEF ConnectedToAuth, AuthRefused, QueryError, Fail, RunPosted, poolVars, history
  <2> QED
    BY <1>4, <2>1, <2>2 DEF Answer
<1> QED
  BY <1>1, <1>3, <1>4 DEF Next

\* Once closed, a pool opens no connection, and refuses what is submitted.
THEOREM ClosedCorrect == Spec => ClosedAcceptsNothing
<1>1. PoolInv /\ [Next]_vars =>
        [closed => /\ connections' \subseteq connections
                   /\ \A r \in submitted' \ submitted : called'[r] = <<"error">>]_vars
  BY ClosedStep
<1> QED
  BY <1>1, PoolInvariant, PTL DEF Spec, ClosedAcceptsNothing
-----------------------------------------------------------------------------
(* PoolLife: the number of connections, the closing, the calls of the close *)
(* callback.                                                               *)

\* close_connections terminates k connections.
LEMMA SweepLife ==
  ASSUME SizeOK, closedCalls \in Nat, NEW f, NEW busy, Sweep(f, busy), closed' = TRUE,
         NEW p, p = [live |-> Cardinality(connections), closed |-> TRUE, calls |-> closedCalls]
  PROVE  \E k \in 0..p.live :
           /\ Life' = Swept(p, k)
           /\ k = 0 => \A c \in connections : ~(f[c] = "idle" /\ c # busy)
<1> DEFINE swept == {c \in connections : f[c] = "idle" /\ c # busy}
           k == Cardinality(swept)
<1>1. /\ connections' = connections \ swept
      /\ closedCalls' = closedCalls + (IF swept # {} /\ swept = connections THEN 2 ELSE 1)
  BY DEF Sweep
<1>2. swept \in SUBSET connections
  OBVIOUS
<1> HIDE DEF swept
<1>3. /\ IsFiniteSet(swept) /\ k <= Cardinality(connections)
      /\ k = Cardinality(connections) => swept = connections
  BY <1>2, FS_Subset DEF SizeOK
<1>4. k \in Nat /\ Cardinality(connections) \in Nat
  BY <1>3, FS_CardinalityType DEF SizeOK
<1>5. k = 0 <=> swept = {}
  BY <1>3, FS_EmptySet
<1>6. Cardinality(connections') = Cardinality(connections) - k
  <2>1. connections \cap swept = swept
    BY <1>2
  <2>2. Cardinality(connections \ swept) = Cardinality(connections) - Cardinality(connections \cap swept)
    BY FS_Difference DEF SizeOK
  <2> QED
    BY <1>1, <2>1, <2>2
<1>7. (swept # {} /\ swept = connections) <=> (k > 0 /\ k = p.live)
  BY <1>3, <1>4, <1>5
<1>8. Life' = Swept(p, k)
  <2> DEFINE x == p.calls + (IF k > 0 /\ k = p.live THEN 2 ELSE 1)
             y == p.live - k
  <2>1. p.live = Cardinality(connections) /\ p.calls = closedCalls
    OBVIOUS
  <2>2. closedCalls' = x /\ Cardinality(connections') = y
    BY <1>1, <1>6, <1>7, <2>1
  <2>3. Swept(p, k) = [p EXCEPT !.live = y, !.calls = x]
    BY DEF Swept
  <2> HIDE DEF x, y
  <2>4. [p EXCEPT !.live = y, !.calls = x] = [live |-> y, closed |-> TRUE, calls |-> x]
    <3>1. [p EXCEPT !.live = y, !.calls = x] = [[p EXCEPT !.live = y] EXCEPT !.calls = x]
      BY Zenon
    <3>2. PICK q : q = [p EXCEPT !.live = y]
      OBVIOUS
    <3>3. q = [live |-> y, closed |-> TRUE, calls |-> closedCalls]
      BY <3>2
    <3>4. PICK r : r = [q EXCEPT !.calls = x]
      OBVIOUS
    <3>5. r = [live |-> y, closed |-> TRUE, calls |-> x]
      BY <3>3, <3>4
    <3>6. [p EXCEPT !.live = y, !.calls = x] = r
      BY <3>1, <3>2, <3>4, Zenon
    <3> QED
      BY <3>5, <3>6, Zenon
  <2> QED
    BY <2>2, <2>3, <2>4 DEF Life
<1>9. k = 0 => \A c \in connections : ~(f[c] = "idle" /\ c # busy)
  BY <1>5 DEF swept
<1>10. k \in 0..p.live
  BY <1>3, <1>4
<1> HIDE DEF k
<1> QED
  BY <1>8, <1>9, <1>10

LifeStep == Life' \in AfterRequest(Life, PoolSize) \cup AfterClose(Life) \cup AfterHandler(Life)

\* A connection that enters idle may sweep the pool, itself included.
LEMMA LifeIdle ==
  ASSUME PoolInv, NEW c \in Conns, BecomeIdle(c),
         fsm[c] \in {"connecting", "authn", "query"}
  PROVE  LifeStep \/ UNCHANGED Life
<1> USE DEF PoolInv, TypeInv, PoolOK
<1>1. CASE Serve(c) \/ Park(c)
  BY <1>1 DEF BecomeIdle, Serve, Park, Life
<1>2. CASE CloseFrom(c)
  <2> DEFINE f == [fsm EXCEPT ![c] = "idle"]
  <2>1. Sweep(f, None) /\ closed /\ closed' = TRUE
    BY <1>2 DEF CloseFrom, BecomeIdle
  <2>2. Life = [live |-> Cardinality(connections), closed |-> TRUE, calls |-> closedCalls]
    BY <2>1 DEF Life
  <2>3. c \in connections /\ f[c] = "idle" /\ c # None
    BY NoneAssumption DEF ConnectionsAreLive, Live, States, TypeOK
  <2> HIDE DEF f
  <2>4. PICK k \in 0..Life.live :
          /\ Life' = Swept(Life, k)
          /\ k = 0 => \A d \in connections : ~(f[d] = "idle" /\ d # None)
    BY <2>1, <2>2, SweepLife DEF TypeOK
  <2>5. Cardinality(connections) \in Nat
    BY FS_CardinalityType DEF SizeOK
  <2>6. k \in 1..Life.live
    BY <2>2, <2>3, <2>4, <2>5
  <2> QED
    BY <2>2, <2>4, <2>6 DEF LifeStep, AfterHandler
<1> QED
  BY <1>1, <1>2 DEF BecomeIdle

LEMMA LifeNext == PoolInv /\ [Next]_vars => LifeStep \/ UNCHANGED Life
<1> SUFFICES ASSUME PoolInv, [Next]_vars PROVE LifeStep \/ UNCHANGED Life
  OBVIOUS
<1> USE DEF PoolInv, TypeInv, PoolOK
<1>0. Cardinality(connections) \in Nat
  BY FS_CardinalityType DEF SizeOK
<1>1. CASE Close
  <2> DEFINE q == [Life EXCEPT !.closed = TRUE]
  <2>1. /\ ~Life.closed /\ closed' = TRUE
        /\ q = [live |-> Cardinality(connections), closed |-> TRUE, calls |-> closedCalls]
    <3>1. ~Life.closed /\ closed' = TRUE
      BY <1>1 DEF Close, Life, TypeOK
    <3>2. Life = [live |-> Cardinality(connections), closed |-> closed, calls |-> closedCalls]
      BY DEF Life
    <3>3. q = [live |-> Cardinality(connections), closed |-> TRUE, calls |-> closedCalls]
      <4>1. PICK p : p = [live |-> Cardinality(connections), closed |-> closed, calls |-> closedCalls]
        OBVIOUS
      <4>2. PICK r : r = [p EXCEPT !.closed = TRUE]
        OBVIOUS
      <4>3. r = [live |-> Cardinality(connections), closed |-> TRUE, calls |-> closedCalls]
        BY <4>1, <4>2
      <4> QED
        BY <3>2, <4>1, <4>2, <4>3, Zenon
    <3> QED
      BY <3>1, <3>3
  <2>2. CASE queue = <<>>
    <3>1. Sweep(fsm, current)
      BY <1>1, <2>2 DEF Close
    <3>2. \E k \in 0..q.live : Life' = Swept(q, k)
      BY <2>1, <3>1, SweepLife DEF TypeOK
    <3> QED
      BY <2>1, <3>2 DEF LifeStep, AfterClose
  <2>3. CASE queue # <<>>
    <3>1. connections # {}
      BY <2>3 DEF NoneIdle
    <3>2. q.live > 0
      BY <1>0, <2>1, <3>1, FS_EmptySet DEF SizeOK
    <3>3. Life' = q
      BY <1>1, <2>1, <2>3 DEF Close, Life
    <3> QED
      BY <2>1, <3>2, <3>3 DEF LifeStep, AfterClose
  <2> QED
    BY <2>2, <2>3
<1>2. ASSUME NEW r \in Requests, Refuse(r) \/ Dispatch(r) \/ DispatchToDead(r)
      PROVE  UNCHANGED Life
  BY <1>2 DEF Refuse, Dispatch, DispatchToDead, poolVars, Life
<1>3. ASSUME NEW r \in Requests, Enqueue(r)
      PROVE  LifeStep \/ UNCHANGED Life
  <2>1. /\ ~closed /\ UNCHANGED <<closed, closedCalls>>
        /\ Wait(r, Cardinality(connections) < PoolSize)
    BY <1>3 DEF Enqueue, Wait
  <2>2. CASE UNCHANGED connections
    BY <2>1, <2>2 DEF Life
  <2>3. ASSUME Cardinality(connections) < PoolSize, NEW c \in Conns,
               fsm[c] = "unplugged", connections' = connections \cup {c}
        PROVE  LifeStep
    <3>1. c \notin connections
      BY <2>3 DEF ConnectionsAreLive, Live, States
    <3>2. Cardinality(connections') = Cardinality(connections) + 1
      BY <2>3, <3>1, FS_AddElement DEF SizeOK
    <3>3. Life' = [Life EXCEPT !.live = @ + 1]
      BY <2>1, <3>2 DEF Life
    <3>4. ~(Life.closed \/ Life.live >= PoolSize)
      BY <1>0, <2>1, <2>3, PoolSizeAssumption DEF Life
    <3> QED
      BY <3>3, <3>4 DEF LifeStep, AfterRequest
  <2> QED
    BY <2>1, <2>2, <2>3 DEF Wait
<1>4. CASE QueryErrorReturns
  BY <1>4, LifeIdle DEF QueryErrorReturns, ThreadOK, TypeOK
<1>5. CASE ClearNext \/ ClearReturns
  BY <1>5 DEF ClearNext, ClearReturns, poolVars, Life
<1>6. CASE ErrorDone
  <2>1. current \in connections /\ connections' = connections \ {current}
    BY <1>6 DEF ErrorDone, Terminate, ThreadOK, TypeOK, ConnectionsAreLive
  <2>2. Cardinality(connections') = Cardinality(connections) - 1
    BY <2>1, FS_RemoveElement DEF SizeOK
  <2>3. Cardinality(connections) > 0
    BY <1>0, <2>1, FS_EmptySet DEF SizeOK
  <2>4. connections' = {} <=> Cardinality(connections) = 1
    <3>1. IsFiniteSet(connections')
      BY <2>1, FS_RemoveElement DEF SizeOK
    <3> QED
      BY <1>0, <2>2, <3>1, FS_EmptySet
  <2>5. Life' = [Life EXCEPT !.live = @ - 1,
                             !.calls = @ + (IF Life.closed /\ Life.live = 1 THEN 1 ELSE 0)]
    <3> DEFINE x == Life.calls + (IF Life.closed /\ Life.live = 1 THEN 1 ELSE 0)
               y == Life.live - 1
    <3>1. Life = [live |-> Cardinality(connections), closed |-> closed, calls |-> closedCalls]
      BY DEF Life
    <3>2. closedCalls' = x /\ Cardinality(connections') = y /\ closed' = closed
      BY <1>6, <2>2, <2>4, <3>1 DEF ErrorDone, Terminate, TypeOK
    <3>3. Life' = [live |-> y, closed |-> closed, calls |-> x]
      <4> HIDE DEF x, y
      <4> QED
        BY <3>2 DEF Life
    <3>4. [Life EXCEPT !.live = y, !.calls = x] = [live |-> y, closed |-> closed, calls |-> x]
      <4> HIDE DEF x, y
      <4>0. PICK p : p = Life
        OBVIOUS
      <4>1. [p EXCEPT !.live = y, !.calls = x] = [[p EXCEPT !.live = y] EXCEPT !.calls = x]
        BY Zenon
      <4>2. PICK q : q = [p EXCEPT !.live = y]
        OBVIOUS
      <4>3. q = [live |-> y, closed |-> closed, calls |-> closedCalls]
        BY <4>2, <3>1, <4>0
      <4>4. PICK r : r = [q EXCEPT !.calls = x]
        OBVIOUS
      <4>5. r = [live |-> y, closed |-> closed, calls |-> x]
        BY <4>3, <4>4
      <4>6. [p EXCEPT !.live = y, !.calls = x] = r
        BY <4>1, <4>2, <4>4, Zenon
      <4> QED
        BY <4>0, <4>5, <4>6, Zenon
    <3> QED
      BY <3>3, <3>4, Zenon
  <2>6. Life.live > 0
    BY <2>3 DEF Life
  <2> QED
    BY <2>5, <2>6 DEF LifeStep, AfterHandler
<1>7. ASSUME NEW c \in Conns, Connected(c) \/ AuthReply(c) \/ Reply(c)
      PROVE  LifeStep \/ UNCHANGED Life
  BY <1>7, LifeIdle DEF Connected, AuthReply, Reply
<1>8. ASSUME NEW c \in Conns,
             \/ ConnectedToAuth(c) \/ AuthRefused(c) \/ QueryError(c)
             \/ Fail(c) \/ RunPosted(c)
      PROVE  UNCHANGED Life
  BY <1>8 DEF ConnectedToAuth, AuthRefused, QueryError, Fail, RunPosted, poolVars, Life
<1>9. CASE UNCHANGED vars
  BY <1>9 DEF vars, poolVars, Life
<1> QED
  BY <1>1, <1>2, <1>3, <1>4, <1>5, <1>6, <1>7, <1>8, <1>9
  DEF Next, User, Resume, Answer

\* What the service relies on: the pool lives the life PoolLife describes, and no
\* closed pool loses its last connection without calling the close callback.
THEOREM PoolLifeImplemented == Spec => ImplementsPoolLife
<1>1. Init => Life = FreshPool
  <2> SUFFICES ASSUME Init PROVE Life = FreshPool
    OBVIOUS
  <2>1. Cardinality(connections) = 1
    BY FS_Singleton DEF Init
  <2> QED
    BY <2>1 DEF Init, Life, FreshPool
<1>2. PoolInv /\ [Next]_vars =>
        [Life' \in AfterRequest(Life, PoolSize) \cup AfterClose(Life)
                     \cup AfterHandler(Life)]_Life
  BY LifeNext DEF LifeStep
<1> QED
  BY <1>1, <1>2, PoolInvariant, PTL DEF Spec, ImplementsPoolLife
-----------------------------------------------------------------------------
(* The Dispatcher.                                                         *)

\* No more requests are executed than there are connections.
LEMMA Capacity ==
  ASSUME PoolInv'
  PROVE  Cardinality(Executing') <= PoolSize
<1> DEFINE busy == {c \in Conns : inflight'[c] # None}
           f == [c \in busy |-> inflight'[c]]
<1>1. /\ connections' = {c \in Conns : fsm'[c] \in Live}
      /\ IsFiniteSet(connections') /\ Cardinality(connections') <= PoolSize
      /\ \A c \in busy : fsm'[c] = "query"
  BY DEF PoolInv, PoolOK, ConnectionsAreLive, SizeOK, TypeInv, InflightIffQuery
<1>2. busy \subseteq connections'
  BY <1>1 DEF Live, States
<1>3. IsFiniteSet(busy) /\ Cardinality(busy) <= Cardinality(connections')
  BY <1>1, <1>2, FS_Subset
<1>4. f \in Surjection(busy, Executing')
  BY DEF Surjection, Executing
<1>5. IsFiniteSet(Executing') /\ Cardinality(Executing') <= Cardinality(busy)
  <2> HIDE DEF busy, f
  <2> QED
    BY <1>3, <1>4, FS_Surjection
<1>6. /\ Cardinality(Executing') \in Nat /\ Cardinality(busy) \in Nat
      /\ Cardinality(connections') \in Nat /\ PoolSize \in Nat
  BY <1>1, <1>3, <1>5, FS_CardinalityType, PoolSizeAssumption
<1> QED
  BY <1>1, <1>3, <1>5, <1>6

\* The Dispatcher counts as the pool does.
LEMMA SameCardinality == \A S : D!Cardinality(S) = Cardinality(S)
  BY DEF D!Cardinality, Cardinality

Over == Posted \cup CalledBack \cup lost

\* A request that arrives.
LEMMA DispatchUser ==
  ASSUME RequestInv, PoolInv, PoolInv', NEW r \in Requests,
         Refuse(r) \/ Dispatch(r) \/ DispatchToDead(r) \/ Enqueue(r)
  PROVE  D!Arrive(r) \/ D!StartAtOnce(r) \/ D!Refuse(r)
<1>1. Submit(r)
  BY DEF Refuse, Dispatch, DispatchToDead, Enqueue
<1>2. r \in D!Fresh
  BY <1>1, PlacesSubmit DEF D!Fresh, D!Queued, Waiting
<1>3. CASE Refuse(r) \/ DispatchToDead(r)
  <2>1. queue' = queue /\ Executing' = Executing /\ Over' = Over \cup {r}
    BY <1>3, PlacesSubmit DEF Refuse, DispatchToDead, poolVars, Places, Over
  <2> QED
    BY <1>2, <2>1 DEF D!Refuse, Over
<1>4. CASE Dispatch(r)
  <2>1. queue = <<>>
    BY <1>4 DEF Dispatch, PoolInv, PoolOK, NoWaitWhileIdle
  <2>2. queue' = queue /\ Executing' = Executing \cup {r} /\ Over' = Over
    BY <1>4, PlacesSubmit DEF Dispatch, Places, Over
  <2> QED
    BY <1>2, <2>1, <2>2, Capacity, SameCardinality DEF D!StartAtOnce, Over
<1>5. CASE Enqueue(r)
  <2>1. queue' = Append(queue, r) /\ Executing' = Executing /\ Over' = Over
    BY <1>5, PlacesSubmit DEF Enqueue, Wait, Places, Over
  <2> QED
    BY <1>2, <2>1 DEF D!Arrive, Over
<1> QED
  BY <1>3, <1>4, <1>5

\* A connection that enters idle without an answer takes the front of the queue,
\* or nothing happens.
LEMMA DispatchTaken ==
  ASSUME RequestInv, PoolInv', TakenOver(Executing, Posted, CalledBack)
  PROVE  D!Start \/ UNCHANGED D!vars
<1>1. CASE queue' = queue /\ Places(Waiting, Executing, Posted, CalledBack, lost)
  BY <1>1 DEF Places, D!vars
<1>2. CASE /\ queue # <<>> /\ queue' = Tail(queue)
           /\ Places(Waiting \ {Head(queue)}, Executing \cup {Head(queue)}, Posted,
                     CalledBack, lost)
  <2>1. Executing' = Executing \cup {Head(queue)} /\ Over' = Over
    BY <1>2 DEF Places, Over
  <2> QED
    BY <1>2, <2>1, Capacity, SameCardinality DEF D!Start, Over
<1> QED
  BY <1>1, <1>2 DEF TakenOver

\* An execution that ends, the front of the queue taking its place if there is one.
LEMMA DispatchReply ==
  ASSUME RequestInv, NEW c \in Conns, Reply(c)
  PROVE  \E r \in Executing : D!Finish(r) \/ D!Replace(r)
<1> DEFINE r == inflight[c]
<1>1. r \in Executing /\ TakenOver(Executing \ {r}, Posted \cup {r}, CalledBack)
  BY PlacesHandler
<1> HIDE DEF r
<1>2. CASE queue' = queue /\ Places(Waiting, Executing \ {r}, Posted \cup {r}, CalledBack, lost)
  <2>1. Executing' = Executing \ {r} /\ Over' = Over \cup {r}
    BY <1>2 DEF Places, Over
  <2> QED
    BY <1>1, <1>2, <2>1 DEF D!Finish, Over
<1>3. CASE /\ queue # <<>> /\ queue' = Tail(queue)
           /\ Places(Waiting \ {Head(queue)}, (Executing \ {r}) \cup {Head(queue)},
                     Posted \cup {r}, CalledBack, lost)
  <2>1. Executing' = (Executing \ {r}) \cup {Head(queue)} /\ Over' = Over \cup {r}
    BY <1>3 DEF Places, Over
  <2> QED
    BY <1>1, <1>3, <2>1 DEF D!Replace, Over
<1> QED
  BY <1>1, <1>2, <1>3 DEF TakenOver

LEMMA DispatchFinish ==
  ASSUME RequestInv, NEW c \in Conns, QueryError(c) \/ Fail(c)
  PROVE  (\E r \in Executing : D!Finish(r)) \/ UNCHANGED D!vars
<1>1. queue' = queue
  BY DEF QueryError, Fail, poolVars
<1>2. CASE Places(Waiting, Executing, Posted, CalledBack, lost)
  BY <1>1, <1>2 DEF Places, D!vars
<1>3. CASE /\ inflight[c] \in Executing
           /\ \/ Places(Waiting, Executing \ {inflight[c]}, Posted,
                        CalledBack \cup {inflight[c]}, lost)
              \/ Places(Waiting, Executing \ {inflight[c]}, Posted, CalledBack,
                        lost \cup {inflight[c]})
  <2>1. Executing' = Executing \ {inflight[c]} /\ Over' = Over \cup {inflight[c]}
    BY <1>3 DEF Places, Over
  <2> QED
    BY <1>1, <1>3, <2>1 DEF D!Finish, Over
<1> QED
  BY <1>2, <1>3, PlacesHandler, PlacesFail

LEMMA DispatchNext ==
  ASSUME RequestInv, PoolInv, PoolInv', [Next]_vars
  PROVE  [D!Next]_(D!vars)
<1>1. ASSUME queue' = queue, Places(Waiting, Executing, Posted, CalledBack, lost)
      PROVE  UNCHANGED D!vars
  BY <1>1 DEF Places, D!vars
<1>2. CASE User
  <2>1. CASE Close
    BY <1>1, <2>1, PlacesClose DEF Close
  <2>2. ASSUME NEW r \in Requests, Refuse(r) \/ Dispatch(r) \/ DispatchToDead(r) \/ Enqueue(r)
        PROVE  D!Next
    BY <2>2, DispatchUser DEF D!Next
  <2> QED
    BY <1>2, <2>1, <2>2 DEF User
<1>3. CASE Resume
  <2>1. CASE QueryErrorReturns
    BY <2>1, PlacesResume, DispatchTaken DEF D!Next
  <2>2. CASE ClearNext
    <3>1. Executing' = Executing /\ Over' = Over \cup {Head(queue)}
      BY <2>2, PlacesResume DEF Places, Over
    <3> QED
      BY <2>2, <3>1 DEF ClearNext, D!Reject, D!Next, Over
  <2>3. CASE ClearReturns \/ ErrorDone
    BY <1>1, <2>3, PlacesResume
  <2> QED
    BY <1>3, <2>1, <2>2, <2>3 DEF Resume
<1>4. ASSUME NEW c \in Conns, Answer(c)
      PROVE  [D!Next]_(D!vars)
  <2>1. CASE Connected(c) \/ AuthReply(c)
    BY <2>1, PlacesHandler, DispatchTaken DEF D!Next
  <2>2. CASE ConnectedToAuth(c) \/ AuthRefused(c)
    <3>1. queue' = queue
      BY <2>2 DEF ConnectedToAuth, AuthRefused, poolVars
    <3> QED
      BY <1>1, <2>2, <3>1, PlacesHandler
  <2>3. CASE Reply(c)
    BY <2>3, DispatchReply DEF D!Next
  <2>4. CASE QueryError(c)
    BY <2>4, DispatchFinish DEF D!Next
  <2> QED
    BY <1>4, <2>1, <2>2, <2>3, <2>4 DEF Answer
<1>5. ASSUME NEW c \in Conns, Fail(c)
      PROVE  [D!Next]_(D!vars)
  BY <1>5, DispatchFinish DEF D!Next
<1>6. ASSUME NEW c \in Conns, RunPosted(c)
      PROVE  UNCHANGED D!vars
  <2>1. queue' = queue /\ Executing' = Executing /\ Over' = Over
    BY <1>6, PlacesRunPosted DEF Places, Over
  <2> QED
    BY <2>1 DEF D!vars, Over
<1>7. CASE UNCHANGED vars
  BY <1>7 DEF vars, poolVars, connVars, history, D!vars, Executing, Posted, CalledBack
<1> QED
  BY <1>2, <1>3, <1>4, <1>5, <1>6, <1>7 DEF Next

\* The pool starts requests in the order of their arrival, no more than PoolSize
\* at a time, and lets none overtake one that waits: it implements the Dispatcher.
THEOREM DispatcherImplemented == Spec => ImplementsDispatcher
<1>1. Init => D!Init
  <2> SUFFICES ASSUME Init PROVE D!Init
    OBVIOUS
  <2>1. Executing = {} /\ Posted = {} /\ CalledBack = {}
    BY DEF Init, Executing, Posted, CalledBack
  <2> QED
    BY <2>1 DEF Init, D!Init
<1>2. RequestInv /\ PoolInv /\ PoolInv' /\ [Next]_vars => [D!Next]_(D!vars)
  BY DispatchNext
<1> QED
  BY <1>1, <1>2, RequestInvariant, PoolInvariant, PTL DEF Spec, ImplementsDispatcher, D!Spec
=============================================================================
