--------------------------- MODULE PoolRacesProofs ---------------------------
(***************************************************************************)
(* Theorems about PoolRaces, for any number of threads, connections and    *)
(* requests and any size.  All of it rests on PlaceOK: the places of the   *)
(* threads and the states of the machines agree.  First the mutexes and    *)
(* the places.  Then the connections: how far pool_size_ can be exceeded,  *)
(* that a pool that comes to its end tells so, and which connections alone *)
(* can be left behind.  Then what holds a request or a connection: it is   *)
(* in one place, from which each step moves it to another.                 *)
(***************************************************************************)
EXTENDS PoolRaces, TLAPS, FiniteSetTheorems, SequenceTheorems

\* conn_mutex_ is held between two steps by close_connections only, and
\* close_connections takes no lock while it terminates the connections.
ConnLockOK ==
  /\ pc = [t \in Threads |-> pc[t]]
  /\ connLock # None => connLock \in Threads /\ pc[connLock] = "sweeping"

\* A step of t from any other place keeps ConnLockOK, wherever it leads.
LEMMA StepElsewhere ==
  ASSUME ConnLockOK, NEW t \in Threads, pc[t] # "sweeping",
         \E place : pc' = [pc EXCEPT ![t] = place], connLock' = connLock
  PROVE  ConnLockOK'
<1>1. PICK place : pc' = [pc EXCEPT ![t] = place]
  OBVIOUS
<1>2. pc' = [u \in Threads |-> pc'[u]]
  BY <1>1 DEF ConnLockOK
<1>3. ASSUME connLock' # None
      PROVE  connLock' \in Threads /\ pc'[connLock'] = "sweeping"
  BY <1>1, <1>3 DEF ConnLockOK
<1> QED BY <1>2, <1>3 DEF ConnLockOK

LEMMA InitConnLock == Init => ConnLockOK
  BY DEF Init, ConnLockOK

\* get_connection and close up to close_connections.
LEMMA UserStep ==
  ASSUME ConnLockOK, NEW t \in Threads,
         \/ \E r \in Requests : Refuse(t, r) \/ Submit(t, r)
         \/ GetIdle(t) \/ NoneIdle(t) \/ PopIdle(t) \/ Execute(t)
         \/ Grow(t) \/ CreateNone(t) \/ Create(t) \/ List(t) \/ Enqueue(t)
         \/ Close(t) \/ CloseSetsCallback(t) \/ CloseLeaves(t) \/ CloseSweeps(t)
  PROVE  ConnLockOK'
<1> USE DEF shared, locks
<1>1. CASE \E r \in Requests : Refuse(t, r) BY <1>1 DEF Refuse, ConnLockOK
<1>2. CASE \E r \in Requests : Submit(t, r) BY <1>2, StepElsewhere DEF Submit, Call
<1>3. CASE GetIdle(t) BY <1>3, StepElsewhere DEF GetIdle, Branch, Goto
<1>4. CASE NoneIdle(t) BY <1>4, StepElsewhere DEF NoneIdle, Branch, Goto
<1>5. CASE PopIdle(t) BY <1>5, StepElsewhere DEF PopIdle, Goto
<1>6. CASE Execute(t) BY <1>6, StepElsewhere DEF Execute, Return, Goto
<1>7. CASE Grow(t) BY <1>7, StepElsewhere DEF Grow, Branch, Goto
<1>8. CASE CreateNone(t) BY <1>8, StepElsewhere DEF CreateNone, Branch, Goto
<1>9. CASE Create(t) BY <1>9, StepElsewhere DEF Create, Goto
<1>10. CASE List(t) BY <1>10, StepElsewhere DEF List, Goto
<1>11. CASE Enqueue(t) BY <1>11, StepElsewhere DEF Enqueue, Return, Goto
<1>12. CASE Close(t) BY <1>12, StepElsewhere DEF Close, Call
<1>13. CASE CloseSetsCallback(t) BY <1>13, StepElsewhere DEF CloseSetsCallback, Goto
<1>14. CASE CloseLeaves(t) BY <1>14, StepElsewhere DEF CloseLeaves, Return, Goto
<1>15. CASE CloseSweeps(t) BY <1>15, StepElsewhere DEF CloseSweeps, Goto
<1> QED BY <1>1, <1>2, <1>3, <1>4, <1>5, <1>6, <1>7, <1>8, <1>9, <1>10, <1>11, <1>12,
           <1>13, <1>14, <1>15

\* close_connections, which takes conn_mutex_ and gives it back.
LEMMA SweepStep ==
  ASSUME ConnLockOK, NEW t \in Threads,
         \/ SweepNone(t) \/ SweepSome(t) \/ SweepCopies(t) \/ SweepOne(t)
         \/ SweepUnlocks(t) \/ SweepEnds(t)
  PROVE  ConnLockOK'
<1> USE DEF shared, locks
<1>1. CASE SweepNone(t) BY <1>1, StepElsewhere DEF SweepNone, Goto
<1>2. CASE SweepSome(t) BY <1>2, StepElsewhere DEF SweepSome, Branch, Goto
<1>3. CASE SweepCopies(t)
  BY <1>3 DEF SweepCopies, Goto, ConnLockOK
<1>4. CASE SweepOne(t)
  BY <1>4 DEF SweepOne, ConnLockOK
<1>5. CASE SweepUnlocks(t)
  BY <1>5 DEF SweepUnlocks, Goto, ConnLockOK
<1>6. CASE SweepEnds(t)
  <2>1. CASE Goto(t, "sweep_end", "settle") /\ UNCHANGED ret
    BY <1>6, <2>1, StepElsewhere DEF SweepEnds, Goto
  <2>2. CASE Return(t, "sweep_end")
    BY <1>6, <2>2, StepElsewhere DEF SweepEnds, Return, Goto
  <2> QED BY <1>6, <2>1, <2>2 DEF SweepEnds
<1> QED BY <1>1, <1>2, <1>3, <1>4, <1>5, <1>6

\* The handlers of connections.
LEMMA HandlerStep ==
  ASSUME ConnLockOK, NEW t \in Threads,
         \/ \E c \in Conns : Answer(t, c) \/ Fail(t, c)
         \/ NextEvent(t) \/ NoEvent(t) \/ ReadyClosed(t) \/ ParkClosed(t) \/ PushIdle(t)
         \/ Settle(t) \/ Unwind(t)
         \/ ClearLocks(t) \/ ClearNext(t) \/ CallbackReturns(t) \/ EraseNone(t) \/ CallbackThrows(t)
         \/ ClearEnds(t) \/ Erase(t) \/ Terminated(t)
  PROVE  ConnLockOK'
<1> USE DEF shared, locks
<1>1. CASE \E c \in Conns : Answer(t, c) BY <1>1, StepElsewhere DEF Answer, Goto, Start
<1>2. CASE \E c \in Conns : Fail(t, c) BY <1>2, StepElsewhere DEF Fail, Goto, Start
<1>3. CASE NextEvent(t) BY <1>3, StepElsewhere DEF NextEvent, Goto
<1>4. CASE NoEvent(t) BY <1>4, StepElsewhere DEF NoEvent, Branch, Goto
<1>5. CASE ReadyClosed(t) BY <1>5, StepElsewhere DEF ReadyClosed, Branch, Goto
<1>6. CASE ParkClosed(t) BY <1>6, StepElsewhere DEF ParkClosed, Branch, Goto
<1>7. CASE PushIdle(t) BY <1>7, StepElsewhere DEF PushIdle, Goto
<1>8. CASE Settle(t) BY <1>8, StepElsewhere DEF Settle, Goto
<1>9. CASE Unwind(t) BY <1>9, StepElsewhere DEF Unwind, Goto
<1>10. CASE ClearLocks(t) BY <1>10, StepElsewhere DEF ClearLocks, Goto
<1>11. CASE ClearNext(t) BY <1>11, StepElsewhere DEF ClearNext, Goto
<1>12. CASE CallbackReturns(t) \/ EraseNone(t)
  BY <1>12, StepElsewhere DEF CallbackReturns, EraseNone, Branch, Goto
<1>13. CASE CallbackThrows(t) BY <1>13, StepElsewhere DEF CallbackThrows, Goto
<1>14. CASE ClearEnds(t) BY <1>14, StepElsewhere DEF ClearEnds, Goto
<1>15. CASE Erase(t) BY <1>15, StepElsewhere DEF Erase, Goto
<1>16. CASE Terminated(t) BY <1>16, StepElsewhere DEF Terminated, Goto
<1> QED BY <1>1, <1>2, <1>3, <1>4, <1>5, <1>6, <1>7, <1>8, <1>9, <1>10, <1>11, <1>12,
           <1>13, <1>14, <1>15, <1>16

LEMMA NextConnLock == ConnLockOK /\ [Next]_vars => ConnLockOK'
<1> SUFFICES ASSUME ConnLockOK, [Next]_vars PROVE ConnLockOK'
  OBVIOUS
<1>1. ASSUME NEW t \in Threads, Begin(t) PROVE ConnLockOK'
  BY <1>1, UserStep, HandlerStep DEF Begin
<1>2. ASSUME NEW t \in Threads, Continue(t) PROVE ConnLockOK'
  BY <1>2, UserStep, SweepStep, HandlerStep DEF Continue
<1>3. CASE UNCHANGED vars
  BY <1>3 DEF vars, shared, locks, ConnLockOK
<1> QED BY <1>1, <1>2, <1>3 DEF Next

\* No two threads ever wait for each other's mutex of one pool.
THEOREM NoMutualWaitCorrect == Spec => []NoMutualWait
<1>1. ConnLockOK => NoMutualWait
  <2> SUFFICES ASSUME ConnLockOK, NEW t \in Threads, NEW u \in Threads,
                      u \in WaitsFor(t), t \in WaitsFor(u)
               PROVE  FALSE
    BY DEF NoMutualWait
  <2>1. t # u /\ t # None /\ u # None
    BY DEF WaitsFor
  <2>2. u # connLock
    BY <2>1 DEF WaitsFor, ConnLockOK, AtEventLock, AtConnLock
  <2>3. t # connLock
    BY <2>1 DEF WaitsFor, ConnLockOK, AtEventLock, AtConnLock
  <2>4. u = eventLock /\ t = eventLock
    BY <2>2, <2>3 DEF WaitsFor
  <2> QED BY <2>1, <2>4
<1> QED BY <1>1, InitConnLock, NextConnLock, PTL DEF Spec

-----------------------------------------------------------------------------
(* Where the threads are.                                                  *)

GetPlaces == {"get_idle", "pop_idle", "execute", "grow", "create", "list", "enqueue"}
ClosePlaces == {"close", "close_lock"}
SweepPlaces == {"sweep", "sweep_lock", "sweeping", "sweep_end"}
ReadyPlaces == {"next_event", "ready_closed", "park", "push_idle"}
EndPlaces == {"erase_none", "clear_lock", "clear", "callback", "erase", "erased"}
HandlerPlaces == ReadyPlaces \cup EndPlaces \cup {"settle"}
Places == {"loop"} \cup GetPlaces \cup ClosePlaces \cup SweepPlaces \cup HandlerPlaces

Machines == {"unplugged", "connecting", "entering", "idle", "query", "ending", "terminated"}

LocalsOK ==
  /\ pc \in [Threads -> Places] /\ ret \in [Threads -> {"loop", "callback"}]
  /\ conn \in [Threads -> Conns \cup {None}] /\ target \in [Threads -> Conns \cup {None}]
  /\ req \in [Threads -> Requests \cup {None}] /\ todo \in [Threads -> SUBSET Conns]

SharedOK ==
  /\ connections \subseteq Conns /\ ready \in Seq(Conns) /\ queue \in Seq(Requests)
  /\ fsm \in [Conns -> Machines]
  /\ mail \in [Conns -> Seq(Requests \cup {None})]
  /\ inflight \in [Conns -> Requests \cup {None}]

\* t runs a handler of its connection, or a callback that the handler called.
InHandler(t) == pc[t] \in HandlerPlaces \/ ret[t] = "callback"

ThreadOK(t) ==
  /\ pc[t] \in HandlerPlaces => ret[t] = "loop"
  /\ ret[t] = "callback" => pc[t] \in GetPlaces \cup ClosePlaces \cup SweepPlaces
  /\ InHandler(t) => conn[t] # None
  /\ conn[t] # None => InHandler(t) \/ pc[t] \in SweepPlaces
  /\ conn[t] # None => fsm[conn[t]] \in {"entering", "ending"}
  /\ pc[t] \in ReadyPlaces => fsm[conn[t]] = "entering"
  /\ pc[t] \in SweepPlaces /\ ret[t] = "loop" /\ conn[t] # None => fsm[conn[t]] = "entering"
  /\ pc[t] \in EndPlaces \/ ret[t] = "callback" => fsm[conn[t]] = "ending"
  /\ pc[t] \in {"list", "execute"} <=> target[t] # None
  /\ pc[t] \in GetPlaces <=> req[t] # None

\* A machine in a transition has one thread, which runs its handler.
OwnedOK ==
  /\ \A t, u \in Threads : conn[t] = conn[u] /\ conn[t] # None => t = u
  /\ \A c \in Conns : fsm[c] \in {"entering", "ending"} => \E t \in Threads : conn[t] = c

PlaceOK == LocalsOK /\ SharedOK /\ (\A t \in Threads : ThreadOK(t)) /\ OwnedOK

\* Only t's own variables change.
Only(t) ==
  \A u \in Threads \ {t} :
    /\ pc'[u] = pc[u] /\ ret'[u] = ret[u] /\ conn'[u] = conn[u]
    /\ target'[u] = target[u] /\ req'[u] = req[u] /\ todo'[u] = todo[u]

\* get_connection and close, but for the steps that change a machine.
LEMMA GetSteps ==
  ASSUME PlaceOK, NEW t \in Threads,
         \/ \E r \in Requests : Submit(t, r)
         \/ GetIdle(t) \/ NoneIdle(t) \/ PopIdle(t) \/ Grow(t) \/ CreateNone(t) \/ List(t) \/ Enqueue(t)
         \/ Close(t) \/ CloseSetsCallback(t) \/ CloseLeaves(t) \/ CloseSweeps(t)
  PROVE  LocalsOK' /\ Only(t) /\ ThreadOK(t)' /\ conn' = conn /\ fsm' = fsm
<1> USE DEF shared, machineVars, linkVars, poolVars, closeVars, locks, locals, history,
        GetPlaces, ClosePlaces, SweepPlaces, HandlerPlaces, ReadyPlaces, EndPlaces, Places
<1>0. LocalsOK /\ ThreadOK(t) /\ SharedOK
  BY DEF PlaceOK
<1>1. CASE \E r \in Requests : Submit(t, r)
  BY <1>0, <1>1, NoneAssumption DEF Submit, Call, LocalsOK, Only, ThreadOK, InHandler
<1>2. CASE GetIdle(t)
  BY <1>0, <1>2 DEF GetIdle, Branch, Goto, LocalsOK, Only, ThreadOK, InHandler
<1>3. CASE NoneIdle(t)
  BY <1>0, <1>3 DEF NoneIdle, Branch, Goto, LocalsOK, Only, ThreadOK, InHandler
<1>4. CASE PopIdle(t)
  BY <1>0, <1>4, NoneAssumption DEF PopIdle, Goto, LocalsOK, Only, ThreadOK, InHandler, SharedOK
<1>5. CASE Grow(t)
  BY <1>0, <1>5 DEF Grow, Branch, Goto, LocalsOK, Only, ThreadOK, InHandler
<1>6. CASE CreateNone(t)
  BY <1>0, <1>6 DEF CreateNone, Branch, Goto, LocalsOK, Only, ThreadOK, InHandler
<1>7. CASE List(t)
  BY <1>0, <1>7 DEF List, Goto, LocalsOK, Only, ThreadOK, InHandler
<1>8. CASE Enqueue(t)
  BY <1>0, <1>8 DEF Enqueue, Return, Goto, LocalsOK, Only, ThreadOK, InHandler
<1>9. CASE Close(t)
  BY <1>0, <1>9 DEF Close, Call, LocalsOK, Only, ThreadOK, InHandler
<1>10. CASE CloseSetsCallback(t)
  BY <1>0, <1>10 DEF CloseSetsCallback, Goto, LocalsOK, Only, ThreadOK, InHandler
<1>11. CASE CloseLeaves(t)
  BY <1>0, <1>11 DEF CloseLeaves, Return, Goto, LocalsOK, Only, ThreadOK, InHandler
<1>12. CASE CloseSweeps(t)
  BY <1>0, <1>12 DEF CloseSweeps, Goto, LocalsOK, Only, ThreadOK, InHandler
<1> QED
  BY <1>1, <1>2, <1>3, <1>4, <1>5, <1>6, <1>7, <1>8, <1>9, <1>10, <1>11, <1>12

\* close_connections, and the steps of a handler that leave its machine in its transition.
LEMMA PassSteps ==
  ASSUME PlaceOK, NEW t \in Threads,
         \/ SweepNone(t) \/ SweepSome(t) \/ SweepCopies(t) \/ SweepUnlocks(t) \/ SweepEnds(t)
         \/ NextEvent(t) \/ NoEvent(t) \/ ReadyClosed(t) \/ ParkClosed(t) \/ PushIdle(t)
         \/ ClearLocks(t) \/ ClearNext(t) \/ CallbackReturns(t) \/ EraseNone(t) \/ CallbackThrows(t)
         \/ ClearEnds(t) \/ Erase(t)
  PROVE  LocalsOK' /\ Only(t) /\ ThreadOK(t)' /\ conn' = conn /\ fsm' = fsm
<1> USE DEF shared, machineVars, linkVars, poolVars, closeVars, locks, locals, history,
        GetPlaces, ClosePlaces, SweepPlaces, HandlerPlaces, ReadyPlaces, EndPlaces, Places
<1>0. LocalsOK /\ ThreadOK(t) /\ SharedOK
  BY DEF PlaceOK
<1>1. CASE SweepNone(t)
  BY <1>0, <1>1 DEF SweepNone, Goto, LocalsOK, Only, ThreadOK, InHandler
<1>2. CASE SweepSome(t)
  BY <1>0, <1>2 DEF SweepSome, Branch, Goto, LocalsOK, Only, ThreadOK, InHandler
<1>3. CASE SweepCopies(t)
  BY <1>0, <1>3 DEF SweepCopies, Goto, SharedOK, LocalsOK, Only, ThreadOK, InHandler
<1>4. CASE SweepUnlocks(t)
  BY <1>0, <1>4 DEF SweepUnlocks, Goto, LocalsOK, Only, ThreadOK, InHandler
<1>5. CASE SweepEnds(t)
  BY <1>0, <1>5 DEF SweepEnds, Return, Goto, LocalsOK, Only, ThreadOK, InHandler
<1>6. CASE NextEvent(t)
  BY <1>0, <1>6 DEF NextEvent, Goto, LocalsOK, Only, ThreadOK, InHandler
<1>7. CASE NoEvent(t)
  BY <1>0, <1>7 DEF NoEvent, Branch, Goto, LocalsOK, Only, ThreadOK, InHandler
<1>8. CASE ReadyClosed(t)
  BY <1>0, <1>8 DEF ReadyClosed, Branch, Goto, LocalsOK, Only, ThreadOK, InHandler
<1>9. CASE ParkClosed(t)
  BY <1>0, <1>9 DEF ParkClosed, Branch, Goto, LocalsOK, Only, ThreadOK, InHandler
<1>10. CASE PushIdle(t)
  BY <1>0, <1>10 DEF PushIdle, Goto, LocalsOK, Only, ThreadOK, InHandler
<1>11. CASE ClearLocks(t)
  BY <1>0, <1>11 DEF ClearLocks, Goto, LocalsOK, Only, ThreadOK, InHandler
<1>12. CASE ClearNext(t)
  BY <1>0, <1>12 DEF ClearNext, Goto, LocalsOK, Only, ThreadOK, InHandler
<1>13. CASE CallbackReturns(t) \/ EraseNone(t)
  BY <1>0, <1>13 DEF CallbackReturns, EraseNone, Branch, Goto, LocalsOK, Only, ThreadOK, InHandler
<1>14. CASE CallbackThrows(t)
  BY <1>0, <1>14 DEF CallbackThrows, Goto, LocalsOK, Only, ThreadOK, InHandler
<1>15. CASE ClearEnds(t)
  BY <1>0, <1>15 DEF ClearEnds, Goto, LocalsOK, Only, ThreadOK, InHandler
<1>16. CASE Erase(t)
  BY <1>0, <1>16 DEF Erase, Goto, LocalsOK, Only, ThreadOK, InHandler
<1> QED
  BY <1>1, <1>2, <1>3, <1>4, <1>5, <1>6, <1>7, <1>8, <1>9, <1>10, <1>11, <1>12, <1>13, <1>14, <1>15, <1>16

\* A machine that is in no transition changes its state, or its thread ends one.
LEMMA MachineSteps ==
  ASSUME PlaceOK, NEW t \in Threads,
         Execute(t) \/ Create(t) \/ SweepOne(t)
  PROVE  /\ LocalsOK' /\ Only(t) /\ ThreadOK(t)' /\ conn' = conn
         /\ fsm' \in [Conns -> Machines]
         /\ \A c \in Conns : fsm'[c] \in {"entering", "ending"} => fsm'[c] = fsm[c]
         /\ \A c \in Conns : fsm[c] \in {"entering", "ending"} => fsm'[c] = fsm[c]
<1> USE DEF shared, machineVars, linkVars, poolVars, closeVars, locks, locals, history,
        GetPlaces, ClosePlaces, SweepPlaces, HandlerPlaces, ReadyPlaces, EndPlaces, Places
<1>0. LocalsOK /\ ThreadOK(t) /\ SharedOK
  BY DEF PlaceOK
<1>1. CASE Execute(t)
  <2>1. /\ pc[t] = "execute" /\ pc' = [pc EXCEPT ![t] = ret[t]]
        /\ ret' = [ret EXCEPT ![t] = "loop"]
        /\ target' = [target EXCEPT ![t] = None] /\ req' = [req EXCEPT ![t] = None]
        /\ UNCHANGED <<conn, todo>>
    BY <1>1 DEF Execute, Return, Goto
  <2>2. fsm' = fsm \/ (fsm[target[t]] = "idle" /\ fsm' = [fsm EXCEPT ![target[t]] = "query"])
    BY <1>1 DEF Execute
  <2>3. /\ fsm' \in [Conns -> Machines]
        /\ \A c \in Conns : fsm'[c] \in {"entering", "ending"} => fsm'[c] = fsm[c]
        /\ \A c \in Conns : fsm[c] \in {"entering", "ending"} => fsm'[c] = fsm[c]
    BY <1>0, <2>2 DEF SharedOK, Machines
  <2>4. LocalsOK' /\ Only(t)
    BY <1>0, <2>1 DEF LocalsOK, Only
  <2>5. ThreadOK(t)'
    BY <1>0, <2>1, <2>3 DEF LocalsOK, ThreadOK, InHandler
  <2> QED
    BY <2>1, <2>3, <2>4, <2>5
<1>2. CASE Create(t)
  BY <1>0, <1>2, NoneAssumption DEF Create, Goto, SharedOK, Machines, LocalsOK, Only, ThreadOK, InHandler
<1>3. CASE SweepOne(t)
  <2>1. PICK c \in todo[t] :
          /\ todo' = [todo EXCEPT ![t] = @ \ {c}]
          /\ fsm' = fsm \/ (fsm[c] = "idle" /\ fsm' = [fsm EXCEPT ![c] = "terminated"])
    BY <1>3 DEF SweepOne
  <2>2. UNCHANGED <<pc, ret, conn, req, target>>
    BY <1>3 DEF SweepOne
  <2>3. /\ fsm' \in [Conns -> Machines]
        /\ \A d \in Conns : fsm'[d] \in {"entering", "ending"} => fsm'[d] = fsm[d]
        /\ \A d \in Conns : fsm[d] \in {"entering", "ending"} => fsm'[d] = fsm[d]
    BY <1>0, <2>1 DEF SharedOK, Machines
  <2>4. LocalsOK' /\ Only(t)
    BY <1>0, <2>1, <2>2 DEF LocalsOK, Only
  <2>5. ThreadOK(t)'
    BY <1>0, <2>2, <2>3 DEF LocalsOK, ThreadOK, InHandler
  <2> QED
    BY <2>2, <2>3, <2>4, <2>5
<1> QED
  BY <1>1, <1>2, <1>3

\* A handler begins, and takes the machine into a transition.
LEMMA StartSteps ==
  ASSUME PlaceOK, NEW t \in Threads, NEW c \in Conns, Answer(t, c) \/ Fail(t, c)
  PROVE  /\ LocalsOK' /\ Only(t) /\ ThreadOK(t)' /\ conn'[t] = c
         /\ fsm' \in [Conns -> Machines] /\ fsm'[c] \in {"entering", "ending"}
         /\ fsm[c] \notin {"entering", "ending"} /\ conn[t] = None
         /\ \A d \in Conns \ {c} : fsm'[d] = fsm[d]
<1> USE DEF shared, machineVars, linkVars, poolVars, closeVars, locks, locals, history,
        GetPlaces, ClosePlaces, SweepPlaces, HandlerPlaces, ReadyPlaces, EndPlaces, Places
<1>0. LocalsOK /\ ThreadOK(t) /\ SharedOK
  BY DEF PlaceOK
<1>1. CASE Answer(t, c)
  BY <1>0, <1>1, NoneAssumption DEF Answer, Start, Goto, SharedOK, Machines, LocalsOK, Only, ThreadOK, InHandler
<1>2. CASE Fail(t, c)
  BY <1>0, <1>2, NoneAssumption DEF Fail, Start, Goto, SharedOK, Machines, LocalsOK, Only, ThreadOK, InHandler
<1> QED
  BY <1>1, <1>2

\* A handler ends the transition, or goes on to end its machine.
LEMMA EndSteps ==
  ASSUME PlaceOK, NEW t \in Threads, Settle(t) \/ Unwind(t) \/ Terminated(t)
  PROVE  /\ LocalsOK' /\ Only(t) /\ ThreadOK(t)'
         /\ conn[t] \in Conns
         /\ fsm' \in [Conns -> Machines]
         /\ \/ conn' = conn /\ fsm'[conn[t]] = "ending"
            \/ conn'[t] = None /\ fsm'[conn[t]] \notin {"entering", "ending"}
         /\ \A d \in Conns \ {conn[t]} : fsm'[d] = fsm[d]
<1> USE DEF shared, machineVars, linkVars, poolVars, closeVars, locks, locals, history,
        GetPlaces, ClosePlaces, SweepPlaces, HandlerPlaces, ReadyPlaces, EndPlaces, Places
<1>0. LocalsOK /\ ThreadOK(t) /\ SharedOK
  BY DEF PlaceOK
<1>1. CASE Settle(t)
  BY <1>0, <1>1 DEF Settle, Goto, SharedOK, Machines, LocalsOK, Only, ThreadOK, InHandler
<1>2. CASE Unwind(t)
  BY <1>0, <1>2 DEF Unwind, Goto, SharedOK, Machines, LocalsOK, Only, ThreadOK, InHandler
<1>3. CASE Terminated(t)
  BY <1>0, <1>3 DEF Terminated, Goto, SharedOK, Machines, LocalsOK, Only, ThreadOK, InHandler
<1> QED
  BY <1>1, <1>2, <1>3

\* Mails and requests are what was queued.
LEMMA MailType ==
  ASSUME SharedOK, NEW c, NEW r \in Requests \cup {None}
  PROVE  /\ [mail EXCEPT ![c] = Append(@, r)] \in [Conns -> Seq(Requests \cup {None})]
         /\ [mail EXCEPT ![c] = <<>>] \in [Conns -> Seq(Requests \cup {None})]
         /\ c \in Conns /\ mail[c] # <<>> =>
              /\ [mail EXCEPT ![c] = Tail(@)] \in [Conns -> Seq(Requests \cup {None})]
              /\ Head(mail[c]) \in Requests \cup {None}
<1>1. PICK S : S = Seq(Requests \cup {None})
  OBVIOUS
<1>2. mail \in [Conns -> S]
  BY <1>1 DEF SharedOK
<1>3. \A s \in S : Append(s, r) \in S
  BY <1>1
<1>4. \A s \in S : s # <<>> => Tail(s) \in S /\ Head(s) \in Requests \cup {None}
  BY <1>1
<1>5. PICK e : e = <<>>
  OBVIOUS
<1>5a. e \in S
  BY <1>1, <1>5
<1>6. [mail EXCEPT ![c] = Append(@, r)] \in [Conns -> S]
  BY <1>2, <1>3
<1>7. [mail EXCEPT ![c] = e] \in [Conns -> S]
  BY <1>2, <1>5a
<1>8. ASSUME c \in Conns, mail[c] # <<>>
      PROVE  /\ [mail EXCEPT ![c] = Tail(@)] \in [Conns -> S]
             /\ Head(mail[c]) \in Requests \cup {None}
  BY <1>2, <1>4, <1>8
<1> QED
  BY <1>1, <1>5, <1>6, <1>7, <1>8, Zenon

\* What the threads share keeps its type.
LEMMA SharedStep ==
  ASSUME PlaceOK, NEW t \in Threads, Begin(t) \/ Continue(t), fsm' \in [Conns -> Machines]
  PROVE  SharedOK'
<1> USE DEF shared, machineVars, linkVars, poolVars
<1>0. LocalsOK /\ ThreadOK(t) /\ SharedOK
  BY DEF PlaceOK
<1> DEFINE Kept == UNCHANGED <<connections, ready, queue, mail, inflight>>
<1>1. CASE Kept
  BY <1>0, <1>1 DEF SharedOK
<1>2. CASE List(t)
  <2>1. target[t] \in Conns
    BY <1>0, <1>2 DEF List, Goto, LocalsOK, ThreadOK
  <2> QED
    BY <1>0, <1>2, <2>1 DEF List, SharedOK
<1>3. CASE Erase(t)
  BY <1>0, <1>3 DEF Erase, SharedOK
<1>4. CASE PopIdle(t)
  <2>1. ready # <<>> /\ ready' = Tail(ready)
    BY <1>4 DEF PopIdle
  <2>2. ready' \in Seq(Conns)
    BY <1>0, <2>1 DEF SharedOK
  <2> QED
    BY <1>0, <1>4, <2>2 DEF PopIdle, SharedOK
<1>5. CASE PushIdle(t)
  <2>1. conn[t] \in Conns /\ ready' = Append(ready, conn[t])
    BY <1>0, <1>5 DEF PushIdle, Goto, LocalsOK, ThreadOK, InHandler, HandlerPlaces, ReadyPlaces
  <2>2. ready' \in Seq(Conns)
    BY <1>0, <2>1 DEF SharedOK
  <2> QED
    BY <1>0, <1>5, <2>2 DEF PushIdle, SharedOK
<1>6. CASE Enqueue(t)
  <2>1. req[t] \in Requests /\ queue' = Append(queue, req[t])
    BY <1>0, <1>6 DEF Enqueue, Return, Goto, LocalsOK, ThreadOK, GetPlaces
  <2>2. queue' \in Seq(Requests)
    BY <1>0, <2>1 DEF SharedOK
  <2> QED
    BY <1>0, <1>6, <2>2 DEF Enqueue, SharedOK
<1>7. CASE NextEvent(t)
  <2>1. queue # <<>> /\ queue' = Tail(queue) /\ mail' = [mail EXCEPT ![conn[t]] = Append(@, Head(queue))]
    BY <1>7 DEF NextEvent
  <2>2. queue' \in Seq(Requests) /\ Head(queue) \in Requests
    BY <1>0, <2>1 DEF SharedOK
  <2>3. mail' \in [Conns -> Seq(Requests \cup {None})]
    BY <1>0, <2>1, <2>2, MailType
  <2> QED
    BY <1>0, <1>7, <2>2, <2>3 DEF NextEvent, SharedOK
<1>8. CASE ClearNext(t)
  <2>1. queue # <<>> /\ queue' = Tail(queue)
    BY <1>8 DEF ClearNext
  <2>2. queue' \in Seq(Requests)
    BY <1>0, <2>1 DEF SharedOK
  <2> QED
    BY <1>0, <1>8, <2>2 DEF ClearNext, SharedOK
<1>9. CASE Execute(t)
  <2>1. /\ mail' = mail \/ mail' = [mail EXCEPT ![target[t]] = Append(@, req[t])]
        /\ inflight' = inflight \/ inflight' = [inflight EXCEPT ![target[t]] = req[t]]
        /\ req[t] \in Requests \cup {None} /\ UNCHANGED <<connections, ready, queue>>
    BY <1>0, <1>9 DEF Execute, LocalsOK
  <2>2. mail' \in [Conns -> Seq(Requests \cup {None})]
    <3>1. CASE mail' = mail
      BY <1>0, <3>1 DEF SharedOK
    <3>2. CASE mail' = [mail EXCEPT ![target[t]] = Append(@, req[t])]
      BY <1>0, <2>1, <3>2, MailType
    <3> QED
      BY <2>1, <3>1, <3>2
  <2>3. inflight' \in [Conns -> Requests \cup {None}]
    BY <1>0, <2>1 DEF SharedOK
  <2> QED
    BY <1>0, <2>1, <2>2, <2>3 DEF SharedOK
<1>10. CASE SweepOne(t)
  <2>1. PICK c : mail' = mail \/ mail' = [mail EXCEPT ![c] = Append(@, None)]
    BY <1>10 DEF SweepOne
  <2>2. mail' \in [Conns -> Seq(Requests \cup {None})]
    <3>1. CASE mail' = mail
      BY <1>0, <3>1 DEF SharedOK
    <3>2. CASE mail' = [mail EXCEPT ![c] = Append(@, None)]
      BY <1>0, <3>2, MailType
    <3> QED
      BY <2>1, <3>1, <3>2
  <2>3. connections' \subseteq connections /\ UNCHANGED <<ready, queue, inflight>>
    BY <1>10 DEF SweepOne
  <2> QED
    BY <1>0, <2>2, <2>3 DEF SharedOK
<1>11. ASSUME NEW c \in Conns, Answer(t, c) \/ Fail(t, c) PROVE SharedOK'
  <2>1. inflight' = [inflight EXCEPT ![c] = None] /\ UNCHANGED <<connections, ready, queue, mail>>
    BY <1>11 DEF Answer, Fail, Start
  <2> QED
    BY <1>0, <2>1 DEF SharedOK
<1>12. CASE Settle(t)
  <2>1. /\ \/ mail' = mail /\ inflight' = inflight
           \/ /\ mail[conn[t]] # <<>>
              /\ mail' = [mail EXCEPT ![conn[t]] = Tail(@)]
              /\ inflight' = [inflight EXCEPT ![conn[t]] = Head(mail[conn[t]])]
        /\ UNCHANGED <<connections, ready, queue>>
    BY <1>12 DEF Settle
  <2>2. conn[t] \in Conns
    BY <1>0, <1>12 DEF Settle, Goto, LocalsOK, ThreadOK, InHandler, HandlerPlaces
  <2>3. CASE mail' = mail /\ inflight' = inflight
    BY <1>0, <2>1, <2>3 DEF SharedOK
  <2>4. CASE /\ mail[conn[t]] # <<>>
             /\ mail' = [mail EXCEPT ![conn[t]] = Tail(@)]
             /\ inflight' = [inflight EXCEPT ![conn[t]] = Head(mail[conn[t]])]
    <3>1. PICK r : r = Head(mail[conn[t]])
      OBVIOUS
    <3>2. /\ mail' \in [Conns -> Seq(Requests \cup {None})]
          /\ r \in Requests \cup {None}
      BY <1>0, <2>2, <2>4, <3>1, MailType
    <3>3. inflight' = [inflight EXCEPT ![conn[t]] = r]
      BY <2>4, <3>1, Zenon
    <3>4. inflight' \in [Conns -> Requests \cup {None}]
      BY <1>0, <3>2, <3>3 DEF SharedOK
    <3> QED
      BY <1>0, <2>1, <3>2, <3>4 DEF SharedOK
  <2> QED
    BY <2>1, <2>3, <2>4
<1>13. CASE Unwind(t) \/ Terminated(t)
  <2>1. mail' = [mail EXCEPT ![conn[t]] = <<>>] /\ UNCHANGED <<connections, ready, queue, inflight>>
    BY <1>13 DEF Unwind, Terminated
  <2>2. mail' \in [Conns -> Seq(Requests \cup {None})]
    BY <1>0, <2>1, MailType
  <2> QED
    BY <1>0, <2>1, <2>2 DEF SharedOK
<1>14. ASSUME NEW r \in Requests, Refuse(t, r) \/ Submit(t, r) PROVE Kept
  BY <1>14 DEF Refuse, Submit
<1>15. CASE \/ GetIdle(t) \/ NoneIdle(t) \/ Grow(t) \/ CreateNone(t) \/ Create(t)
            \/ Close(t) \/ CloseSetsCallback(t) \/ CloseLeaves(t) \/ CloseSweeps(t)
  BY <1>1, <1>15 DEF GetIdle, NoneIdle, Grow, CreateNone, Create, Close, CloseSetsCallback,
     CloseLeaves, CloseSweeps, Branch
<1>16. CASE \/ SweepNone(t) \/ SweepSome(t) \/ SweepCopies(t) \/ SweepUnlocks(t) \/ SweepEnds(t)
  BY <1>1, <1>16 DEF SweepNone, SweepSome, SweepCopies, SweepUnlocks, SweepEnds, Branch
<1>17. CASE \/ NoEvent(t) \/ ReadyClosed(t) \/ ParkClosed(t) \/ ClearLocks(t)
            \/ CallbackReturns(t) \/ EraseNone(t) \/ CallbackThrows(t) \/ ClearEnds(t)
  BY <1>1, <1>17 DEF NoEvent, ReadyClosed, ParkClosed, ClearLocks, CallbackReturns, EraseNone,
     CallbackThrows, ClearEnds, Branch
<1> QED
  BY <1>1, <1>2, <1>3, <1>4, <1>5, <1>6, <1>7, <1>8, <1>9, <1>10, <1>11, <1>12, <1>13, <1>14,
     <1>15, <1>16, <1>17 DEF Begin, Continue

\* At first every thread is in its loop, and no machine is in a transition.
LEMMA PlaceInit == Init => PlaceOK
<1> SUFFICES ASSUME Init PROVE PlaceOK
  OBVIOUS
<1>1. LocalsOK
  BY DEF Init, LocalsOK, Nobody, Places
<1>2. SharedOK
  <2>1. mail \in [Conns -> Seq(Requests \cup {None})]
    <3>1. PICK e : e = <<>>
      OBVIOUS
    <3>2. PICK S : S = Seq(Requests \cup {None})
      OBVIOUS
    <3>3. e \in S
      BY <3>1, <3>2
    <3>4. mail = [c \in Conns |-> e]
      BY <3>1, Zenon DEF Init
    <3>5. mail \in [Conns -> S]
      BY ONLY <3>3, <3>4
    <3> QED
      BY <3>2, <3>5, Zenon
  <2>2. ready \in Seq(Conns) /\ queue \in Seq(Requests)
    BY DEF Init
  <2>3. connections \subseteq Conns /\ fsm \in [Conns -> Machines]
        /\ inflight \in [Conns -> Requests \cup {None}]
    BY DEF Init, Machines
  <2> QED
    BY <2>1, <2>2, <2>3 DEF SharedOK
<1>3. ASSUME NEW t \in Threads PROVE ThreadOK(t)
  BY DEF Init, Nobody, ThreadOK, InHandler, GetPlaces, ClosePlaces, SweepPlaces, HandlerPlaces,
     ReadyPlaces, EndPlaces
<1>4. OwnedOK
  BY DEF Init, Nobody, OwnedOK
<1> QED
  BY <1>1, <1>2, <1>3, <1>4 DEF PlaceOK

\* A step of t leaves the other threads where they are, with the machines whose
\* handlers they run in the same transition.
LEMMA PlaceStep ==
  ASSUME PlaceOK, NEW t \in Threads, Begin(t) \/ Continue(t)
  PROVE  PlaceOK' /\ Only(t)
<1>0. /\ LocalsOK /\ (\A u \in Threads : ThreadOK(u)) /\ OwnedOK
      /\ fsm \in [Conns -> Machines] /\ conn \in [Threads -> Conns \cup {None}]
  BY DEF PlaceOK, LocalsOK, SharedOK
<1>1. ASSUME LocalsOK', Only(t), ThreadOK(t)', fsm' \in [Conns -> Machines], OwnedOK',
             \A u \in Threads \ {t} : conn[u] # None => fsm'[conn[u]] = fsm[conn[u]]
      PROVE  PlaceOK' /\ Only(t)
  <2>1. ASSUME NEW u \in Threads \ {t} PROVE ThreadOK(u)'
    BY <1>0, <1>1 DEF Only, ThreadOK, InHandler, HandlerPlaces
  <2> QED
    BY <1>1, <2>1, SharedStep DEF PlaceOK
<1>2. ASSUME LocalsOK', Only(t), ThreadOK(t)', conn' = conn, fsm' \in [Conns -> Machines],
             \A c \in Conns : fsm'[c] \in {"entering", "ending"} => fsm'[c] = fsm[c],
             \A c \in Conns : fsm[c] \in {"entering", "ending"} => fsm'[c] = fsm[c]
      PROVE  PlaceOK' /\ Only(t)
  <2>1. OwnedOK'
    BY <1>0, <1>2 DEF OwnedOK
  <2>2. \A u \in Threads : conn[u] # None => fsm'[conn[u]] = fsm[conn[u]]
    BY <1>0, <1>2 DEF ThreadOK
  <2> QED
    BY <1>1, <1>2, <2>1, <2>2
<1>3. CASE \/ \E r \in Requests : Submit(t, r)
           \/ GetIdle(t) \/ NoneIdle(t) \/ PopIdle(t) \/ Grow(t) \/ CreateNone(t) \/ List(t)
           \/ Enqueue(t) \/ Close(t) \/ CloseSetsCallback(t) \/ CloseLeaves(t) \/ CloseSweeps(t)
  BY <1>0, <1>2, <1>3, GetSteps
<1>4. CASE \/ SweepNone(t) \/ SweepSome(t) \/ SweepCopies(t) \/ SweepUnlocks(t) \/ SweepEnds(t)
           \/ NextEvent(t) \/ NoEvent(t) \/ ReadyClosed(t) \/ ParkClosed(t) \/ PushIdle(t)
           \/ ClearLocks(t) \/ ClearNext(t) \/ CallbackReturns(t) \/ EraseNone(t) \/ CallbackThrows(t)
           \/ ClearEnds(t) \/ Erase(t)
  BY <1>0, <1>2, <1>4, PassSteps
<1>5. CASE Execute(t) \/ Create(t) \/ SweepOne(t)
  BY <1>2, <1>5, MachineSteps
<1>6. ASSUME NEW c \in Conns, Answer(t, c) \/ Fail(t, c) PROVE PlaceOK' /\ Only(t)
  <2>1. /\ LocalsOK' /\ Only(t) /\ ThreadOK(t)' /\ conn'[t] = c /\ conn[t] = None
        /\ fsm' \in [Conns -> Machines] /\ fsm'[c] \in {"entering", "ending"}
        /\ fsm[c] \notin {"entering", "ending"}
        /\ \A d \in Conns \ {c} : fsm'[d] = fsm[d]
    BY <1>6, StartSteps
  <2>2. \A u \in Threads \ {t} : conn[u] # None => conn[u] # c /\ fsm'[conn[u]] = fsm[conn[u]]
    BY <1>0, <2>1 DEF ThreadOK
  <2>3. OwnedOK'
    <3>1. ASSUME NEW d \in Conns, fsm'[d] \in {"entering", "ending"}
          PROVE  \E u \in Threads : conn'[u] = d
      <4>1. CASE d = c
        BY <2>1, <4>1
      <4>2. CASE d # c
        BY <1>0, <2>1, <3>1, <4>2, NoneAssumption DEF OwnedOK, Only
      <4> QED
        BY <4>1, <4>2
    <3>2. \A u, w \in Threads : conn'[u] = conn'[w] /\ conn'[u] # None => u = w
      BY <1>0, <2>1, <2>2, NoneAssumption DEF OwnedOK, Only
    <3> QED
      BY <3>1, <3>2 DEF OwnedOK
  <2> QED
    BY <1>1, <2>1, <2>2, <2>3
<1>7. CASE Settle(t) \/ Unwind(t) \/ Terminated(t)
  <2>1. /\ LocalsOK' /\ Only(t) /\ ThreadOK(t)' /\ conn[t] \in Conns
        /\ fsm' \in [Conns -> Machines]
        /\ \/ conn' = conn /\ fsm'[conn[t]] = "ending"
           \/ conn'[t] = None /\ fsm'[conn[t]] \notin {"entering", "ending"}
        /\ \A d \in Conns \ {conn[t]} : fsm'[d] = fsm[d]
    BY <1>7, EndSteps
  <2>2. \A u \in Threads \ {t} : conn[u] # None => conn[u] # conn[t] /\ fsm'[conn[u]] = fsm[conn[u]]
    BY <1>0, <2>1, NoneAssumption DEF OwnedOK
  <2>3. OwnedOK'
    <3>1. ASSUME NEW c \in Conns, fsm'[c] \in {"entering", "ending"}
          PROVE  \E u \in Threads : conn'[u] = c
      <4>1. CASE c = conn[t]
        <5>1. conn'[t] = conn[t]
          BY <2>1, <3>1, <4>1
        <5> QED
          BY <4>1, <5>1
      <4>2. CASE c # conn[t]
        BY <1>0, <2>1, <3>1, <4>2 DEF OwnedOK, Only
      <4> QED
        BY <4>1, <4>2
    <3>2. \A u, w \in Threads : conn'[u] = conn'[w] /\ conn'[u] # None => u = w
      BY <1>0, <2>1 DEF OwnedOK, Only
    <3> QED
      BY <3>1, <3>2 DEF OwnedOK
  <2> QED
    BY <1>1, <2>1, <2>2, <2>3
<1>8. ASSUME NEW r \in Requests, Refuse(t, r) PROVE PlaceOK' /\ Only(t)
  <2>1. UNCHANGED <<pc, ret, conn, target, req, todo, connections, ready, queue, fsm, mail, inflight>>
    BY <1>8 DEF Refuse, shared, poolVars, machineVars, locals
  <2> QED
    BY <2>1 DEF PlaceOK, LocalsOK, SharedOK, ThreadOK, InHandler, OwnedOK, Only
<1> QED
  BY <1>3, <1>4, <1>5, <1>6, <1>7, <1>8 DEF Begin, Continue

\* PlaceOK is inductive.
LEMMA PlaceNext == PlaceOK /\ [Next]_vars => PlaceOK'
<1> SUFFICES ASSUME PlaceOK, [Next]_vars PROVE PlaceOK'
  OBVIOUS
<1>1. CASE UNCHANGED vars
  BY <1>1 DEF vars, shared, poolVars, machineVars, locals,
     PlaceOK, LocalsOK, SharedOK, ThreadOK, InHandler, OwnedOK
<1> QED
  BY <1>1, PlaceStep DEF Next

\* The places of the threads and the states of the machines agree.
LEMMA PlaceInvariant == Spec => []PlaceOK
  BY PlaceInit, PlaceNext, PTL DEF Spec

\* The state that a machine's link failed in is known as long as it is in the
\* transition that this started.
SourceOK ==
  /\ source \in [Conns -> Machines]
  /\ \A c \in Conns : fsm[c] # "ending" => source[c] = "unplugged"

\* The source of a transition is known as long as the machine is in it.
LEMMA SourceStep ==
  ASSUME PlaceOK, SourceOK, NEW t \in Threads, Begin(t) \/ Continue(t)
  PROVE  SourceOK'
<1>0. LocalsOK /\ SharedOK /\ ThreadOK(t)
  BY DEF PlaceOK
<1> USE DEF shared, machineVars, linkVars, SourceOK
<1>1. ASSUME UNCHANGED <<fsm, source>> PROVE SourceOK'
  BY <1>1
<1>2. ASSUME Execute(t) PROVE SourceOK'
  <2>1. source' = source /\ (fsm' = fsm \/ fsm' = [fsm EXCEPT ![target[t]] = "query"])
        /\ (fsm' # fsm => fsm[target[t]] = "idle")
    BY <1>2 DEF Execute
  <2> QED
    BY <1>0, <2>1 DEF SharedOK, Machines
<1>3. ASSUME Create(t) PROVE SourceOK'
  BY <1>0, <1>3 DEF Create, SharedOK, Machines
<1>4. ASSUME SweepOne(t) PROVE SourceOK'
  <2>1. PICK c : source' = source /\ (fsm' = fsm \/ fsm' = [fsm EXCEPT ![c] = "terminated"])
                 /\ (fsm' # fsm => fsm[c] = "idle")
    BY <1>4 DEF SweepOne
  <2> QED
    BY <1>0, <2>1 DEF SharedOK, Machines
<1>5. ASSUME NEW c \in Conns, Answer(t, c) PROVE SourceOK'
  BY <1>0, <1>5 DEF Answer, Start, SharedOK, Machines
<1>6. ASSUME NEW c \in Conns, Fail(t, c) PROVE SourceOK'
  BY <1>0, <1>6 DEF Fail, Start, SharedOK, Machines
<1>7. ASSUME Settle(t) \/ Unwind(t) \/ Terminated(t) PROVE SourceOK'
  <2>1. PICK v : source' = [source EXCEPT ![conn[t]] = "unplugged"] /\ fsm' = [fsm EXCEPT ![conn[t]] = v]
    BY <1>7 DEF Settle, Unwind, Terminated
  <2> QED
    BY <1>0, <2>1 DEF SharedOK, Machines
<1>8. ASSUME \/ GetIdle(t) \/ NoneIdle(t) \/ Grow(t) \/ CreateNone(t) \/ SweepSome(t)
             \/ NoEvent(t) \/ ReadyClosed(t) \/ ParkClosed(t) \/ CallbackReturns(t) \/ EraseNone(t)
      PROVE  SourceOK'
  BY <1>1, <1>8 DEF GetIdle, NoneIdle, Grow, CreateNone, SweepSome, NoEvent, ReadyClosed,
     ParkClosed, CallbackReturns, EraseNone, Branch
<1>9. ASSUME \/ PopIdle(t) \/ List(t) \/ Enqueue(t) \/ PushIdle(t) \/ NextEvent(t) \/ Erase(t)
             \/ ClearLocks(t) \/ ClearNext(t) \/ CallbackThrows(t) \/ ClearEnds(t)
      PROVE  SourceOK'
  BY <1>1, <1>9 DEF PopIdle, List, Enqueue, PushIdle, NextEvent, Erase, ClearLocks, ClearNext,
     CallbackThrows, ClearEnds
<1>10. ASSUME \/ Close(t) \/ CloseSetsCallback(t) \/ CloseLeaves(t) \/ CloseSweeps(t)
              \/ SweepNone(t) \/ SweepCopies(t) \/ SweepUnlocks(t) \/ SweepEnds(t)
       PROVE  SourceOK'
  BY <1>1, <1>10 DEF Close, CloseSetsCallback, CloseLeaves, CloseSweeps, SweepNone, SweepCopies,
     SweepUnlocks, SweepEnds
<1>11. ASSUME NEW r \in Requests, Refuse(t, r) \/ Submit(t, r) PROVE SourceOK'
  BY <1>1, <1>11 DEF Refuse, Submit
<1> HIDE DEF SourceOK
<1> QED
  BY <1>2, <1>3, <1>4, <1>5, <1>6, <1>7, <1>8, <1>9, <1>10, <1>11 DEF Begin, Continue

\* What source says, it says of machines in a transition.
LEMMA SourceInvariant == Spec => []SourceOK
<1>1. Init => SourceOK
  BY DEF Init, SourceOK, Machines
<1>2. PlaceOK /\ SourceOK /\ [Next]_vars => SourceOK'
  <2> SUFFICES ASSUME PlaceOK, SourceOK, [Next]_vars PROVE SourceOK'
    OBVIOUS
  <2>1. CASE UNCHANGED vars
    BY <2>1 DEF vars, shared, machineVars, linkVars, SourceOK
  <2> QED
    BY <2>1, SourceStep DEF Next
<1> QED
  BY <1>1, <1>2, PlaceInvariant, PTL DEF Spec

-----------------------------------------------------------------------------
(* The connections that exist.                                             *)

\* The connections in connections_, those about to be put there, and those erased
\* while their handler has not ended.
Between == {t \in Threads : pc[t] \in {"list", "erased"}}
Creating == {t \in Threads : pc[t] = "create"}
Hand(t) == IF pc[t] = "list" THEN target[t] ELSE conn[t]
Open == connections \cup {Hand(t) : t \in Between}

OpenInv ==
  /\ Live \subseteq Open
  /\ IsFiniteSet(Open)
  /\ Cardinality(Open) + Cardinality(Creating) <= PoolSize + Cardinality(Threads) - 1

\* The steps that change neither connections nor who is about to.
PlainStep(t) ==
  /\ connections' = connections /\ Live' \subseteq Live
  /\ pc[t] \notin {"list", "erased"} /\ pc'[t] \notin {"create", "list", "erased"}


\* Nothing that Open and Creating speak of changes.
Still == UNCHANGED <<pc, connections, fsm, target, conn>>

\* get_connection and close, but for the steps that create a connection.
LEMMA PlainUser ==
  ASSUME PlaceOK, NEW t \in Threads,
         \/ \E r \in Requests : Refuse(t, r) \/ Submit(t, r)
         \/ GetIdle(t) \/ NoneIdle(t) \/ PopIdle(t) \/ Execute(t) \/ CreateNone(t) \/ Enqueue(t)
         \/ Close(t) \/ CloseSetsCallback(t) \/ CloseLeaves(t) \/ CloseSweeps(t)
  PROVE  PlainStep(t) \/ Still
<1> USE DEF shared, machineVars, poolVars, PlainStep
<1>0. LocalsOK /\ ThreadOK(t) /\ SharedOK
  BY DEF PlaceOK
<1>1. ASSUME NEW r \in Requests, Refuse(t, r)
      PROVE  Still
  BY <1>1 DEF Refuse, locals, Still
<1>2. ASSUME NEW r \in Requests, Submit(t, r)
      PROVE  PlainStep(t)
  BY <1>0, <1>2 DEF Submit, Call, LocalsOK, Live
<1>3. ASSUME \/ GetIdle(t) \/ NoneIdle(t) \/ CreateNone(t)
      PROVE  PlainStep(t)
  BY <1>0, <1>3 DEF GetIdle, NoneIdle, CreateNone, Branch, Goto, LocalsOK, Live
<1>4. ASSUME PopIdle(t) \/ CloseSetsCallback(t) \/ CloseSweeps(t) PROVE PlainStep(t)
  BY <1>0, <1>4 DEF PopIdle, CloseSetsCallback, CloseSweeps, Goto, LocalsOK, Live
<1>5. ASSUME Enqueue(t) \/ CloseLeaves(t) PROVE PlainStep(t)
  BY <1>0, <1>5 DEF Enqueue, CloseLeaves, Return, Goto, LocalsOK, Live
<1>6. ASSUME Close(t) PROVE PlainStep(t)
  BY <1>0, <1>6 DEF Close, Call, LocalsOK, Live
<1>7. ASSUME Execute(t) PROVE PlainStep(t)
  <2>1. connections' = connections /\ pc[t] = "execute" /\ pc'[t] = ret[t]
    BY <1>0, <1>7 DEF Execute, Return, Goto, LocalsOK
  <2>2. fsm' = fsm \/ (fsm[target[t]] = "idle" /\ fsm' = [fsm EXCEPT ![target[t]] = "query"])
    BY <1>7 DEF Execute
  <2>3. Live' \subseteq Live
    BY <1>0, <2>2 DEF SharedOK, Live
  <2> QED
    BY <1>0, <2>1, <2>3 DEF LocalsOK
<1> HIDE DEF PlainStep, shared, machineVars, poolVars
<1> QED
  BY <1>1, <1>2, <1>3, <1>4, <1>5, <1>6, <1>7

\* close_connections up to a machine that ends, and the handlers.
LEMMA PlainHandler ==
  ASSUME PlaceOK, NEW t \in Threads,
         \/ SweepNone(t) \/ SweepSome(t) \/ SweepCopies(t) \/ SweepUnlocks(t) \/ SweepEnds(t)
         \/ \E c \in Conns : Answer(t, c) \/ Fail(t, c)
         \/ NextEvent(t) \/ NoEvent(t) \/ ReadyClosed(t) \/ ParkClosed(t) \/ PushIdle(t)
         \/ Settle(t) \/ Unwind(t)
         \/ ClearLocks(t) \/ ClearNext(t) \/ CallbackReturns(t) \/ EraseNone(t) \/ CallbackThrows(t)
         \/ ClearEnds(t)
  PROVE  PlainStep(t)
<1> USE DEF shared, machineVars, poolVars, PlainStep
<1>0. LocalsOK /\ ThreadOK(t) /\ SharedOK
  BY DEF PlaceOK
<1>1. CASE SweepNone(t) \/ SweepSome(t) \/ SweepCopies(t) \/ SweepUnlocks(t)
  BY <1>0, <1>1 DEF SweepNone, SweepSome, SweepCopies, SweepUnlocks, Branch, Goto, LocalsOK, Live
<1>2. CASE SweepEnds(t)
  BY <1>0, <1>2 DEF SweepEnds, Return, Goto, LocalsOK, Live
<1>3. ASSUME NEW c \in Conns, Answer(t, c) \/ Fail(t, c) PROVE PlainStep(t)
  BY <1>0, <1>3 DEF Answer, Fail, Start, Goto, LocalsOK, SharedOK, Live
<1>4. CASE NextEvent(t) \/ NoEvent(t) \/ ReadyClosed(t) \/ ParkClosed(t) \/ PushIdle(t)
  BY <1>0, <1>4 DEF NextEvent, NoEvent, ReadyClosed, ParkClosed, PushIdle, Branch, Goto, LocalsOK, Live
<1>5. CASE \/ ClearLocks(t) \/ ClearNext(t) \/ CallbackReturns(t) \/ EraseNone(t)
           \/ CallbackThrows(t) \/ ClearEnds(t)
  BY <1>0, <1>5 DEF ClearLocks, ClearNext, CallbackReturns, EraseNone, CallbackThrows, ClearEnds, Branch, Goto,
     LocalsOK, Live
<1>6. CASE Settle(t) \/ Unwind(t)
  <2>1. /\ pc[t] = "settle" /\ pc'[t] \in {"erase", "loop"} /\ connections' = connections
        /\ \E v : fsm' = [fsm EXCEPT ![conn[t]] = v]
    BY <1>0, <1>6 DEF Settle, Unwind, Goto, LocalsOK
  <2>2. fsm[conn[t]] \in {"entering", "ending"}
    BY <1>0, <2>1 DEF ThreadOK, InHandler, HandlerPlaces
  <2>3. Live' \subseteq Live
    BY <1>0, <2>1, <2>2 DEF SharedOK, Live
  <2> QED
    BY <2>1, <2>3
<1> QED
  BY <1>1, <1>2, <1>3, <1>4, <1>5, <1>6

\* Such a step leaves Open alone.
LEMMA OpenPlain ==
  ASSUME PlaceOK, NEW t \in Threads, Only(t), PlainStep(t)
  PROVE  Open' = Open /\ Creating' \subseteq Creating
<1>1. Between' = Between /\ t \notin Between
  BY DEF Between, Only, PlainStep
<1>2. \A u \in Between : Hand(u)' = Hand(u)
  BY <1>1 DEF Hand, Only, Between
<1>3. Creating' \subseteq Creating
  BY DEF Creating, Only, PlainStep
<1> QED
  BY <1>1, <1>2, <1>3 DEF Open, PlainStep

\* Nothing is added, and nothing is taken away but dead connections.
LEMMA OpenShrinks ==
  ASSUME OpenInv, Open' \subseteq Open, Live' \subseteq Open', Creating' \subseteq Creating
  PROVE  OpenInv'
<1>1. IsFiniteSet(Open') /\ Cardinality(Open') <= Cardinality(Open)
  BY FS_Subset DEF OpenInv
<1>2. IsFiniteSet(Creating) /\ IsFiniteSet(Creating')
  BY ThreadsAssumption, FS_Subset DEF Creating
<1>3. Cardinality(Creating') <= Cardinality(Creating)
  BY <1>2, FS_Subset
<1>4. /\ Cardinality(Open') \in Nat /\ Cardinality(Open) \in Nat
      /\ Cardinality(Creating') \in Nat /\ Cardinality(Creating) \in Nat
      /\ Cardinality(Threads) \in Nat /\ PoolSize \in Nat
  BY <1>1, <1>2, ThreadsAssumption, PoolSizeAssumption, FS_CardinalityType DEF OpenInv
<1> QED
  BY <1>1, <1>3, <1>4 DEF OpenInv

\* The threads that looked at connections_.size() while it was too small are few:
\* each has one connection in hand at most, and t itself has none.
LEMMA OpenGrow ==
  ASSUME PlaceOK, OpenInv, NEW t \in Threads, Grow(t), pc'[t] = "create"
  PROVE  OpenInv'
<1>0. LocalsOK
  BY DEF PlaceOK
<1>1. /\ Cardinality(connections) < PoolSize /\ pc[t] = "grow" /\ pc' = [pc EXCEPT ![t] = "create"]
      /\ UNCHANGED <<connections, fsm, target, conn>>
  BY <1>0 DEF Grow, Branch, Goto, LocalsOK, shared, poolVars, machineVars, locals
<1>2. /\ Between' = Between /\ t \notin Between /\ t \notin Creating
      /\ Between \cap Creating = {} /\ Creating' = Creating \cup {t}
  BY <1>0, <1>1 DEF Between, Creating, LocalsOK
<1>3. Open' = Open /\ Live' = Live
  BY <1>0, <1>1, <1>2 DEF Open, Hand, Between, Live, LocalsOK
<1> DEFINE f == [u \in Between |-> Hand(u)]
           hands == {Hand(u) : u \in Between}
<1>4. IsFiniteSet(Between) /\ IsFiniteSet(Creating) /\ IsFiniteSet(connections)
  BY ThreadsAssumption, FS_Subset DEF Between, Creating, OpenInv, Open
<1>5. f \in Surjection(Between, hands)
  BY DEF Surjection
<1>6. IsFiniteSet(hands) /\ Cardinality(hands) <= Cardinality(Between)
  <2> HIDE DEF f, hands
  <2> QED
    BY <1>4, <1>5, FS_Surjection
<1>7. Open = connections \cup hands
  BY DEF Open
<1> HIDE DEF f, hands
<1>8. Cardinality(Open) <= Cardinality(connections) + Cardinality(hands)
  <2>1. Cardinality(Open) = Cardinality(connections) + Cardinality(hands)
                              - Cardinality(connections \cap hands)
    BY <1>4, <1>6, <1>7, FS_Union
  <2>2. Cardinality(connections \cap hands) \in Nat
    BY <1>4, FS_Subset, FS_CardinalityType
  <2>3. Cardinality(connections) \in Nat /\ Cardinality(hands) \in Nat
    BY <1>4, <1>6, FS_CardinalityType
  <2> QED
    BY <2>1, <2>2, <2>3
<1>9. Cardinality(Between) + Cardinality(Creating) <= Cardinality(Threads) - 1
  <2>1. IsFiniteSet(Threads \ {t}) /\ Cardinality(Threads \ {t}) = Cardinality(Threads) - 1
    BY ThreadsAssumption, FS_RemoveElement
  <2>2. Between \cup Creating \subseteq Threads \ {t}
    BY <1>2 DEF Between, Creating
  <2>3. Cardinality(Between \cup Creating) <= Cardinality(Threads) - 1
    BY <2>1, <2>2, FS_Subset
  <2>4. Cardinality({}) = 0
    BY FS_EmptySet
  <2>5. Cardinality(Between \cup Creating) = Cardinality(Between) + Cardinality(Creating) - 0
    BY <1>2, <1>4, <2>4, FS_Union
  <2>6. Cardinality(Between) \in Nat /\ Cardinality(Creating) \in Nat
    BY <1>4, FS_CardinalityType
  <2> QED
    BY <2>3, <2>5, <2>6
<1>10. IsFiniteSet(Creating') /\ Cardinality(Creating') = Cardinality(Creating) + 1
  BY <1>2, <1>4, FS_AddElement
<1>11. /\ Cardinality(Open) \in Nat /\ Cardinality(connections) \in Nat /\ Cardinality(hands) \in Nat
       /\ Cardinality(Between) \in Nat /\ Cardinality(Creating) \in Nat
       /\ Cardinality(Threads) \in Nat /\ PoolSize \in Nat
  BY <1>4, <1>6, ThreadsAssumption, PoolSizeAssumption, FS_CardinalityType DEF OpenInv
<1>12. Cardinality(Open) + (Cardinality(Creating) + 1) <= PoolSize + Cardinality(Threads) - 1
  BY <1>1, <1>6, <1>8, <1>9, <1>11
<1> QED
  BY <1>3, <1>10, <1>12 DEF OpenInv

\* Whoever creates a connection was counted before.
LEMMA OpenCreate ==
  ASSUME PlaceOK, OpenInv, NEW t \in Threads, Create(t)
  PROVE  OpenInv' /\ Open \subseteq Open'
<1>0. LocalsOK /\ SharedOK
  BY DEF PlaceOK
<1>1. PICK c \in Conns : fsm' = [fsm EXCEPT ![c] = "connecting"] /\ target' = [target EXCEPT ![t] = c]
  BY DEF Create
<1>2. pc[t] = "create" /\ pc' = [pc EXCEPT ![t] = "list"] /\ UNCHANGED <<connections, conn>>
  BY DEF Create, Goto, poolVars
<1>3. Between' = Between \cup {t} /\ t \notin Between /\ Creating' = Creating \ {t} /\ t \in Creating
  BY <1>0, <1>2 DEF Between, Creating, LocalsOK
<1>4. Hand(t)' = c /\ \A u \in Between : Hand(u)' = Hand(u)
  BY <1>0, <1>1, <1>2, <1>3 DEF Hand, Between, LocalsOK
<1>5. Open' = Open \cup {c}
  BY <1>2, <1>3, <1>4 DEF Open
<1>6. Live' \subseteq Live \cup {c}
  BY <1>0, <1>1 DEF Live, SharedOK
<1>7. IsFiniteSet(Open') /\ Cardinality(Open') <= Cardinality(Open) + 1 /\ Cardinality(Open) \in Nat
  <2>1. IsFiniteSet(Open)
    BY DEF OpenInv
  <2>2. Cardinality(Open) \in Nat
    BY <2>1, FS_CardinalityType
  <2>3. /\ IsFiniteSet(Open')
        /\ Cardinality(Open') = Cardinality(Open) \/ Cardinality(Open') = Cardinality(Open) + 1
    BY <1>5, <2>1, FS_AddElement
  <2> QED
    BY <2>2, <2>3
<1>8. IsFiniteSet(Creating) /\ Cardinality(Creating') = Cardinality(Creating) - 1
  BY <1>3, ThreadsAssumption, FS_Subset, FS_RemoveElement DEF Creating
<1>9. /\ Cardinality(Open') \in Nat /\ Cardinality(Creating) \in Nat
      /\ Cardinality(Threads) \in Nat /\ PoolSize \in Nat
  <2>1. Cardinality(Open') \in Nat
    BY <1>7, FS_CardinalityType
  <2>2. Cardinality(Creating) \in Nat
    BY <1>8, FS_CardinalityType
  <2>3. Cardinality(Threads) \in Nat
    BY ThreadsAssumption, FS_CardinalityType
  <2> QED
    BY <2>1, <2>2, <2>3, PoolSizeAssumption
<1>10. Cardinality(Open') + Cardinality(Creating') <= PoolSize + Cardinality(Threads) - 1
  BY <1>7, <1>8, <1>9 DEF OpenInv
<1> QED
  BY <1>5, <1>6, <1>7, <1>10 DEF OpenInv

\* A connection that is listed was in hand.  One that is erased is in hand until
\* its handler has ended, and then it is dead.
LEMMA OpenMoves ==
  ASSUME PlaceOK, OpenInv, NEW t \in Threads, Only(t), List(t) \/ Erase(t)
  PROVE  OpenInv' /\ Open' = Open
<1>0. LocalsOK /\ SharedOK /\ ThreadOK(t)
  BY DEF PlaceOK
<1>1. fsm' = fsm /\ Live' = Live
  BY DEF List, Erase, machineVars, Live
<1>2. Creating' \subseteq Creating
  BY <1>0 DEF Creating, Only, List, Erase, Goto, LocalsOK
<1>3. \A u \in Threads \ {t} : (u \in Between' <=> u \in Between) /\ Hand(u)' = Hand(u)
  BY DEF Between, Hand, Only
<1>4. CASE List(t)
  <2>1. /\ t \in Between /\ t \notin Between' /\ Hand(t) = target[t]
        /\ connections' = connections \cup {target[t]}
    BY <1>0, <1>4 DEF Between, Hand, List, Goto, LocalsOK
  <2>2. Open' = Open
    BY <1>3, <2>1 DEF Open, Between
  <2> QED
    BY <1>1, <1>2, <2>2, OpenShrinks DEF OpenInv
<1>5. CASE Erase(t)
  <2>1. /\ t \notin Between /\ t \in Between' /\ Hand(t)' = conn[t]
        /\ connections' = connections \ {conn[t]}
    BY <1>0, <1>5 DEF Between, Hand, Erase, Goto, LocalsOK, locals
  <2>2. conn[t] \in Live
    BY <1>0, <1>5 DEF Erase, Goto, LocalsOK, ThreadOK, InHandler, HandlerPlaces, EndPlaces, Live
  <2>3. conn[t] \in Open
    BY <2>2 DEF OpenInv
  <2>4. Open' = Open
    BY <1>3, <2>1, <2>3 DEF Open, Between
  <2> QED
    BY <1>1, <1>2, <2>4, OpenShrinks DEF OpenInv
<1> QED
  BY <1>4, <1>5

\* A machine that terminates may go.
LEMMA OpenEnds ==
  ASSUME PlaceOK, OpenInv, NEW t \in Threads, Only(t), Terminated(t) \/ SweepOne(t)
  PROVE  OpenInv' /\ Open' \subseteq Open
<1>0. LocalsOK /\ SharedOK /\ ThreadOK(t)
  BY DEF PlaceOK
<1>1. Creating' \subseteq Creating
  BY <1>0 DEF Creating, Only, Terminated, SweepOne, Goto, LocalsOK
<1>2. \A u \in Threads \ {t} : (u \in Between' <=> u \in Between) /\ Hand(u)' = Hand(u)
  BY DEF Between, Hand, Only
<1>3. CASE Terminated(t)
  <2>1. /\ connections' = connections /\ t \in Between /\ t \notin Between' /\ Hand(t) = conn[t]
        /\ fsm' = [fsm EXCEPT ![conn[t]] = "terminated"]
    BY <1>0, <1>3 DEF Between, Hand, Terminated, Goto, LocalsOK, poolVars
  <2>2. Open' \subseteq Open /\ Open \ {conn[t]} \subseteq Open'
    BY <1>2, <2>1 DEF Open, Between
  <2>3. Live' \subseteq Live \ {conn[t]}
    BY <1>0, <2>1 DEF Live, SharedOK
  <2> QED
    BY <1>1, <2>2, <2>3, OpenShrinks DEF OpenInv
<1>4. CASE SweepOne(t)
  <2>1. PICK c \in todo[t] :
          \/ UNCHANGED <<fsm, connections>>
          \/ /\ fsm[c] = "idle" /\ fsm' = [fsm EXCEPT ![c] = "terminated"]
             /\ connections' = connections \ {c}
    BY <1>4 DEF SweepOne
  <2>2. t \notin Between /\ t \notin Between'
    BY <1>4 DEF SweepOne, Between
  <2>3. Between' = Between /\ \A u \in Between : Hand(u)' = Hand(u)
    BY <1>2, <2>2 DEF Between
  <2>4. Open' \subseteq Open /\ Open \ (connections \ connections') \subseteq Open'
    BY <2>1, <2>3 DEF Open
  <2>5. Live' \subseteq Live \ (connections \ connections')
    BY <1>0, <2>1 DEF Live, SharedOK
  <2> QED
    BY <1>1, <2>4, <2>5, OpenShrinks DEF OpenInv
<1> QED
  BY <1>3, <1>4

\* The first connection is created by the constructor.
LEMMA OpenInit == Init => OpenInv
<1> SUFFICES ASSUME Init PROVE OpenInv
  OBVIOUS
<1>1. PICK c \in Conns : connections = {c} /\ fsm = [d \in Conns |-> IF d = c THEN "connecting" ELSE "unplugged"]
  BY DEF Init
<1>2. Between = {} /\ Creating = {}
  BY DEF Init, Between, Creating
<1>3. Open = {c} /\ Live = {c}
  BY <1>1, <1>2 DEF Open, Live
<1>4. IsFiniteSet(Open) /\ Cardinality(Open) = 1 /\ Cardinality(Creating) = 0
  BY <1>2, <1>3, FS_Singleton, FS_EmptySet
<1>5. Cardinality(Threads) \in Nat /\ Cardinality(Threads) # 0
  BY ThreadsAssumption, FS_CardinalityType, FS_EmptySet
<1> QED
  BY <1>3, <1>4, <1>5, PoolSizeAssumption DEF OpenInv

\* What becomes of the connections that exist in one step.
LEMMA OpenStep ==
  ASSUME PlaceOK, OpenInv, NEW t \in Threads, Begin(t) \/ Continue(t)
  PROVE  /\ OpenInv'
         /\ Open \subseteq Open' \/ Terminated(t) \/ SweepOne(t)
<1>0. Only(t)
  BY PlaceStep
<1>1. CASE PlainStep(t)
  <2>1. Open' = Open /\ Creating' \subseteq Creating
    BY <1>0, <1>1, OpenPlain
  <2>2. Live' \subseteq Open'
    BY <1>1, <2>1 DEF PlainStep, OpenInv
  <2> QED
    BY <2>1, <2>2, OpenShrinks
<1>2. CASE Still
  BY <1>2 DEF Still, OpenInv, Open, Live, Between, Creating, Hand
<1>3. CASE Grow(t)
  <2>1. /\ UNCHANGED <<connections, fsm, target, conn>> /\ pc[t] = "grow"
        /\ pc'[t] \in {"create", "enqueue"}
    BY <1>3 DEF PlaceOK, LocalsOK, Grow, Branch, Goto, shared, poolVars, machineVars, locals
  <2>2. CASE pc'[t] = "create"
    <3>1. Open' = Open
      BY <1>0, <2>1, <2>2 DEF Open, Between, Hand, Only
    <3> QED
      BY <1>3, <2>2, <3>1, OpenGrow
  <2>3. CASE pc'[t] = "enqueue"
    BY <1>1, <2>1, <2>3 DEF PlainStep, Live
  <2> QED
    BY <2>1, <2>2, <2>3
<1>4. CASE Create(t)
  BY <1>4, OpenCreate
<1>5. CASE List(t) \/ Erase(t)
  BY <1>0, <1>5, OpenMoves
<1>6. CASE Terminated(t) \/ SweepOne(t)
  BY <1>0, <1>6, OpenEnds
<1> QED
  BY <1>1, <1>2, <1>3, <1>4, <1>5, <1>6, PlainUser, PlainHandler DEF Begin, Continue

\* OpenInv is inductive relative to PlaceOK.
LEMMA OpenNext == PlaceOK /\ OpenInv /\ [Next]_vars => OpenInv'
<1> SUFFICES ASSUME PlaceOK, OpenInv, [Next]_vars PROVE OpenInv'
  OBVIOUS
<1>1. CASE UNCHANGED vars
  BY <1>1 DEF vars, shared, poolVars, machineVars, locals, OpenInv, Open, Live, Between, Creating, Hand
<1> QED
  BY <1>1, OpenStep DEF Next

\* There are never more connections than the pool may have and the threads add.
LEMMA OpenInvariant == Spec => []OpenInv
  BY OpenInit, OpenNext, PlaceInvariant, PTL DEF Spec

\* pool_size_ is exceeded by one connection at most for each thread but the last
\* that looked at connections_.size().
THEOREM OvershootCorrect == Spec => []Overshoot
<1>1. OpenInv => Overshoot
  <2> SUFFICES ASSUME OpenInv PROVE Overshoot
    OBVIOUS
  <2>1. Cardinality(Live) <= Cardinality(Open) /\ Cardinality(Live) \in Nat /\ Cardinality(Open) \in Nat
    BY FS_Subset, FS_CardinalityType DEF OpenInv
  <2>2. Cardinality(Creating) \in Nat /\ Cardinality(Threads) \in Nat
    BY ThreadsAssumption, FS_Subset, FS_CardinalityType DEF Creating
  <2> QED
    BY <2>1, <2>2, PoolSizeAssumption DEF OpenInv, Overshoot
<1> QED
  BY <1>1, OpenInvariant, PTL

-----------------------------------------------------------------------------
(* The end of the pool.                                                    *)

Closers == {t \in Threads : pc[t] \in ClosePlaces \cup SweepPlaces}

\* Who closed the pool has set the callback or is about to; whoever sweeps, does so
\* in a closed pool; and as long as nobody is told, something is left that will tell.
ToldInv ==
  /\ closed \in BOOLEAN /\ callback \in BOOLEAN /\ told \in BOOLEAN
  /\ closed /\ ~callback => \E t \in Threads : pc[t] = "close"
  /\ Closers # {} => closed
  /\ \A t \in Threads : pc[t] = "close_lock" => callback
  /\ closed /\ ~told => queue # <<>> \/ Open # {} \/ Closers # {}

\* The steps that neither close the pool nor take a request from queue_, and after
\* which t still closes it if it did.
CalmStep(t) ==
  /\ closed' = closed /\ callback' = callback
  /\ told' \in BOOLEAN /\ (told => told')
  /\ pc'[t] \in ClosePlaces \cup SweepPlaces => closed \/ t \in Closers
  /\ pc[t] # "close" /\ pc'[t] # "close_lock"
  /\ t \in Closers => pc'[t] \in SweepPlaces
  /\ queue # <<>> => queue' # <<>>

\* get_connection, and close once it has seen that queue_ is empty.
LEMMA CalmUser ==
  ASSUME PlaceOK, ToldInv, NEW t \in Threads,
         \/ \E r \in Requests : Refuse(t, r) \/ Submit(t, r)
         \/ GetIdle(t) \/ NoneIdle(t) \/ PopIdle(t) \/ Execute(t) \/ Grow(t)
         \/ CreateNone(t) \/ Create(t) \/ List(t) \/ Enqueue(t) \/ CloseSweeps(t)
  PROVE  CalmStep(t)
<1> USE DEF shared, poolVars, closeVars, CalmStep, Closers, ClosePlaces, SweepPlaces, ToldInv
<1>0. LocalsOK /\ SharedOK
  BY DEF PlaceOK
<1>1. ASSUME NEW r \in Requests, Refuse(t, r) PROVE CalmStep(t)
  BY <1>0, <1>1 DEF Refuse
<1>2. ASSUME NEW r \in Requests, Submit(t, r) PROVE CalmStep(t)
  BY <1>0, <1>2 DEF Submit, Call, LocalsOK
<1>3. ASSUME GetIdle(t) \/ NoneIdle(t) \/ Grow(t) \/ CreateNone(t) PROVE CalmStep(t)
  BY <1>0, <1>3 DEF GetIdle, NoneIdle, Grow, CreateNone, Branch, Goto, LocalsOK
<1>4. ASSUME PopIdle(t) \/ Create(t) \/ List(t) \/ CloseSweeps(t) PROVE CalmStep(t)
  BY <1>0, <1>4 DEF PopIdle, Create, List, CloseSweeps, Goto, LocalsOK
<1>5. ASSUME Execute(t) PROVE CalmStep(t)
  BY <1>0, <1>5 DEF Execute, Return, Goto, LocalsOK
<1>6. ASSUME Enqueue(t) PROVE CalmStep(t)
  <2>1. queue' = Append(queue, req[t]) /\ queue \in Seq(Requests)
    BY <1>0, <1>6 DEF Enqueue, SharedOK
  <2>2. queue' # <<>>
    BY <2>1
  <2>3. /\ pc[t] = "enqueue" /\ pc'[t] = ret[t] /\ ret[t] \in {"loop", "callback"}
        /\ UNCHANGED <<closed, callback, told>>
    BY <1>0, <1>6 DEF Enqueue, Return, Goto, LocalsOK
  <2> QED
    BY <2>2, <2>3
<1> HIDE DEF CalmStep
<1> QED
  BY <1>1, <1>2, <1>3, <1>4, <1>5, <1>6

\* close_connections until it ends, and the handlers that take nothing from queue_.
LEMMA CalmHandler ==
  ASSUME PlaceOK, ToldInv, NEW t \in Threads,
         \/ SweepNone(t) \/ SweepSome(t) \/ SweepCopies(t) \/ SweepOne(t) \/ SweepUnlocks(t)
         \/ \E c \in Conns : Answer(t, c) \/ Fail(t, c)
         \/ NoEvent(t) \/ ReadyClosed(t) \/ ParkClosed(t) \/ PushIdle(t)
         \/ Settle(t) \/ Unwind(t)
         \/ ClearLocks(t) \/ CallbackReturns(t) \/ EraseNone(t) \/ CallbackThrows(t) \/ ClearEnds(t)
         \/ Erase(t) \/ Terminated(t)
  PROVE  CalmStep(t)
<1> USE DEF shared, poolVars, closeVars, CalmStep, Closers, ClosePlaces, SweepPlaces, ToldInv
<1>0. LocalsOK /\ SharedOK
  BY DEF PlaceOK
<1>1. ASSUME SweepNone(t) \/ SweepSome(t) \/ SweepCopies(t) \/ SweepUnlocks(t) PROVE CalmStep(t)
  BY <1>0, <1>1 DEF SweepNone, SweepSome, SweepCopies, SweepUnlocks, Branch, Goto, LocalsOK
<1>2. ASSUME SweepOne(t) PROVE CalmStep(t)
  BY <1>0, <1>2 DEF SweepOne, TellIfLast
<1>3. ASSUME NEW c \in Conns, Answer(t, c) \/ Fail(t, c) PROVE CalmStep(t)
  BY <1>0, <1>3 DEF Answer, Fail, Start, Goto, LocalsOK
<1>4. ASSUME NoEvent(t) \/ ReadyClosed(t) \/ ParkClosed(t) \/ PushIdle(t) PROVE CalmStep(t)
  BY <1>0, <1>4 DEF NoEvent, ReadyClosed, ParkClosed, PushIdle, Branch, Goto, LocalsOK
<1>5. ASSUME Settle(t) \/ Unwind(t) PROVE CalmStep(t)
  BY <1>0, <1>5 DEF Settle, Unwind, Goto, LocalsOK
<1>6. ASSUME ClearLocks(t) \/ CallbackReturns(t) \/ EraseNone(t) \/ CallbackThrows(t) \/ ClearEnds(t) PROVE CalmStep(t)
  BY <1>0, <1>6 DEF ClearLocks, CallbackReturns, EraseNone, CallbackThrows, ClearEnds, Branch, Goto, LocalsOK
<1>7. ASSUME Erase(t) \/ Terminated(t) PROVE CalmStep(t)
  BY <1>0, <1>7 DEF Erase, Terminated, TellIfLast, Goto, LocalsOK
<1> HIDE DEF CalmStep
<1> QED
  BY <1>1, <1>2, <1>3, <1>4, <1>5, <1>6, <1>7

\* At first the pool is open.
LEMMA ToldInit == Init => ToldInv
  BY DEF Init, ToldInv, Closers, ClosePlaces, SweepPlaces

\* The last connection that goes tells, unless the callback is not set yet; then
\* whoever is about to set it will find out.
LEMMA ToldStep ==
  ASSUME PlaceOK, OpenInv, ToldInv, NEW t \in Threads, Begin(t) \/ Continue(t)
  PROVE  ToldInv'
<1>0. LocalsOK /\ ThreadOK(t) /\ Only(t) /\ OpenInv'
  BY PlaceStep, OpenStep DEF PlaceOK
<1>1. \A u \in Threads \ {t} : pc'[u] = pc[u] /\ (u \in Closers' <=> u \in Closers)
  BY <1>0 DEF Only, Closers
<1> DEFINE Left == queue' # <<>> \/ Open' # {} \/ Closers' # {}
<1>2. CASE CalmStep(t)
  <2>1. ASSUME closed, ~told' PROVE Left
    <3>1. queue # <<>> \/ Open # {} \/ Closers # {}
      BY <1>2, <2>1 DEF ToldInv, CalmStep
    <3>2. Closers # {} => Closers' # {}
      BY <1>1, <1>2 DEF CalmStep, Closers
    <3>3. CASE Open \subseteq Open'
      BY <1>2, <3>1, <3>2, <3>3 DEF CalmStep
    <3>4. CASE SweepOne(t)
      BY <3>2, <3>4 DEF SweepOne, Closers, SweepPlaces
    <3>5. CASE Terminated(t)
      <4>1. told' = (told \/ (closed /\ callback /\ connections = {})) /\ connections' = connections
        BY <3>5 DEF Terminated, TellIfLast, poolVars
      <4>2. CASE connections # {}
        BY <4>1, <4>2 DEF Open
      <4>3. CASE ~callback
        BY <2>1, <3>2, <4>3 DEF ToldInv, Closers, ClosePlaces
      <4> QED
        BY <2>1, <4>1, <4>2, <4>3 DEF ToldInv
    <3> QED
      BY <3>3, <3>4, <3>5, OpenStep
  <2>2. closed /\ ~callback => \E u \in Threads : pc'[u] = "close"
    BY <1>1, <1>2 DEF ToldInv, CalmStep
  <2>3. Closers' # {} => closed
    BY <1>1, <1>2 DEF ToldInv, CalmStep, Closers
  <2>4. \A u \in Threads : pc'[u] = "close_lock" => callback
    BY <1>1, <1>2 DEF ToldInv, CalmStep
  <2> QED
    BY <1>2, <2>1, <2>2, <2>3, <2>4 DEF ToldInv, CalmStep
<1>3. CASE Close(t)
  <2>1. closed' = TRUE /\ pc'[t] = "close" /\ UNCHANGED <<callback, told>>
    BY <1>0, <1>3 DEF Close, Call, LocalsOK
  <2>2. t \in Closers'
    BY <2>1 DEF Closers, ClosePlaces
  <2> QED
    BY <1>1, <2>1, <2>2 DEF ToldInv
<1>4. CASE CloseSetsCallback(t)
  <2>1. /\ callback' = TRUE /\ pc[t] = "close" /\ pc'[t] = "close_lock"
        /\ UNCHANGED <<closed, told>>
    BY <1>0, <1>4 DEF CloseSetsCallback, Goto, LocalsOK
  <2>2. t \in Closers' /\ t \in Closers
    BY <2>1 DEF Closers, ClosePlaces
  <2> QED
    BY <1>1, <2>1, <2>2 DEF ToldInv
<1>5. CASE CloseLeaves(t)
  <2>1. /\ pc[t] = "close_lock" /\ pc'[t] \in {"loop", "callback"}
        /\ queue # <<>> /\ UNCHANGED <<closed, callback, told, queue>>
    BY <1>0, <1>5 DEF CloseLeaves, Return, Goto, LocalsOK, shared, closeVars, poolVars
  <2>2. t \notin Closers' /\ t \in Closers
    BY <2>1 DEF Closers, ClosePlaces, SweepPlaces
  <2> QED
    BY <1>1, <2>1, <2>2 DEF ToldInv
<1>6. CASE SweepEnds(t)
  <2>1. /\ pc[t] = "sweep_end" /\ pc'[t] \in {"loop", "callback", "settle"}
        /\ told' = (told \/ callback) /\ UNCHANGED <<closed, callback, queue>>
    BY <1>0, <1>6 DEF SweepEnds, Return, Goto, LocalsOK, poolVars
  <2>2. t \notin Closers' /\ t \in Closers
    BY <2>1 DEF Closers, ClosePlaces, SweepPlaces
  <2>3. ~callback => \E u \in Threads : u # t /\ pc'[u] = "close" /\ u \in Closers'
    BY <1>1, <2>1, <2>2 DEF ToldInv, Closers, ClosePlaces
  <2> QED
    BY <1>1, <2>1, <2>2, <2>3 DEF ToldInv
<1>7. CASE NextEvent(t) \/ ClearNext(t)
  <2>1. /\ pc[t] \in {"next_event", "clear"} /\ pc'[t] \in {"settle", "callback"}
        /\ UNCHANGED <<closed, callback, told, fsm>>
    BY <1>0, <1>7 DEF NextEvent, ClearNext, Goto, LocalsOK, closeVars, machineVars
  <2>2. conn[t] \in Live
    BY <1>0, <2>1 DEF LocalsOK, ThreadOK, InHandler, HandlerPlaces, ReadyPlaces, EndPlaces, Live
  <2>3. Open' # {}
    <3>1. Live' = Live
      BY <2>1 DEF Live
    <3> QED
      BY <1>0, <2>2, <3>1 DEF OpenInv
  <2>4. t \notin Closers' /\ t \notin Closers
    BY <2>1 DEF Closers, ClosePlaces, SweepPlaces
  <2>5. Closers' = Closers
    BY <1>1, <2>4 DEF Closers
  <2>6. \A u \in Threads : (pc'[u] = "close" <=> pc[u] = "close")
                          /\ (pc'[u] = "close_lock" <=> pc[u] = "close_lock")
    BY <1>1, <2>1
  <2> QED
    BY <2>1, <2>3, <2>5, <2>6 DEF ToldInv
<1> QED
  BY <1>2, <1>3, <1>4, <1>5, <1>6, <1>7, CalmUser, CalmHandler DEF Begin, Continue

\* ToldInv is inductive relative to PlaceOK and OpenInv.
LEMMA ToldNext == PlaceOK /\ OpenInv /\ ToldInv /\ [Next]_vars => ToldInv'
<1> SUFFICES ASSUME PlaceOK, OpenInv, ToldInv, [Next]_vars PROVE ToldInv'
  OBVIOUS
<1>1. CASE UNCHANGED vars
  BY <1>1 DEF vars, shared, poolVars, closeVars, locals, ToldInv, Closers, Open, Between, Hand
<1> QED
  BY <1>1, ToldStep DEF Next

\* A pool that is closed is on its way to tell so, or has done it.
LEMMA ToldInvariant == Spec => []ToldInv
  BY ToldInit, ToldNext, PlaceInvariant, OpenInvariant, PTL DEF Spec

\* A closed pool without a connection or a waiting request has called its close
\* callback, in whatever order close, its callback and the last handler ran.
THEOREM ClosedIsToldCorrect == Spec => []ClosedIsTold
<1>1. PlaceOK /\ ToldInv => ClosedIsTold
  <2> SUFFICES ASSUME ToldInv, Quiet, closed, queue = <<>>, connections = {} PROVE told
    BY DEF ClosedIsTold
  <2>1. Closers = {} /\ Between = {}
    BY DEF Quiet, Closers, ClosePlaces, SweepPlaces, Between
  <2>2. Open = {}
    BY <2>1 DEF Open
  <2> QED
    BY <2>1, <2>2 DEF ToldInv
<1> QED
  BY <1>1, PlaceInvariant, ToldInvariant, PTL

-----------------------------------------------------------------------------
(* The connections that go astray.                                         *)

\* connections_ holds what lives, and what create_new_connection has in hand is new,
\* but for the connections whose handler was early.
ListedOK ==
  /\ early \subseteq Conns /\ \A c \in early : fsm[c] # "unplugged"
  /\ connections \subseteq Live \cup early
  /\ \A t \in Threads : pc[t] = "list" =>
       /\ fsm[target[t]] # "unplugged"
       /\ target[t] \in early \/ (fsm[target[t]] = "connecting" /\ target[t] \notin connections)
  /\ \A t, u \in Threads : pc[t] = "list" /\ pc[u] = "list" /\ target[t] = target[u] => t = u
  /\ \A t \in Threads : pc[t] = "erased" => conn[t] \notin connections \/ conn[t] \in early

\* A machine that terminates as soon as it is in idle.
Doomed(c) == c \in deferred \/ mail[c] # <<>>
IdleOK == \A c \in Conns : fsm[c] = "idle" => ~Doomed(c)

\* Places of a handler that is still to find that the pool is closed, or that ends
\* its machine anyway.
Learning == {"next_event", "ready_closed", "sweep", "sweep_lock", "erase", "erased"}

\* A closed pool will not keep the machine of c in idle.
Covered(c) ==
  \/ Doomed(c)
  \/ fsm[c] \notin {"entering", "idle", "ending"}
  \/ fsm[c] = "ending" /\ source[c] # "idle"
  \/ \E t \in Threads : conn[t] = c /\ pc[t] \in Learning
  \/ \E t \in Threads : pc[t] = "sweeping" /\ c \in todo[t]

SweptOK ==
  /\ swept => closed
  /\ swept => \A c \in Conns \ early : Covered(c)
  /\ \A t \in Threads : pc[t] = "sweeping" => \A c \in Conns \ early : c \in todo[t] \/ Covered(c)

StrayInv == ListedOK /\ IdleOK /\ SweptOK

\* t goes on, and nothing that StrayInv speaks of changes.
SteadyStep(t) ==
  /\ UNCHANGED <<connections, fsm, source, deferred, mail, early, swept, conn, todo>>
  /\ closed => closed'
  /\ pc[t] \notin {"list", "erased", "sweeping"} /\ pc'[t] \notin {"list", "erased", "sweeping"}
  /\ closed /\ pc[t] \in Learning => pc'[t] \in Learning

\* get_connection and close.
LEMMA SteadyUser ==
  ASSUME PlaceOK, NEW t \in Threads,
         \/ \E r \in Requests : Refuse(t, r) \/ Submit(t, r)
         \/ GetIdle(t) \/ NoneIdle(t) \/ PopIdle(t) \/ Grow(t) \/ CreateNone(t) \/ Enqueue(t)
         \/ Close(t) \/ CloseSetsCallback(t) \/ CloseLeaves(t) \/ CloseSweeps(t)
  PROVE  SteadyStep(t)
<1> USE DEF shared, poolVars, closeVars, machineVars, linkVars, locals, history, SteadyStep, Learning
<1>0. LocalsOK
  BY DEF PlaceOK
<1>1. ASSUME NEW r \in Requests, Refuse(t, r) PROVE SteadyStep(t)
  BY <1>0, <1>1 DEF Refuse
<1>2. ASSUME NEW r \in Requests, Submit(t, r) PROVE SteadyStep(t)
  BY <1>0, <1>2 DEF Submit, Call, LocalsOK
<1>3. ASSUME GetIdle(t) \/ NoneIdle(t) \/ Grow(t) \/ CreateNone(t) PROVE SteadyStep(t)
  BY <1>0, <1>3 DEF GetIdle, NoneIdle, Grow, CreateNone, Branch, Goto, LocalsOK
<1>4. ASSUME PopIdle(t) \/ CloseSetsCallback(t) \/ CloseSweeps(t) PROVE SteadyStep(t)
  BY <1>0, <1>4 DEF PopIdle, CloseSetsCallback, CloseSweeps, Goto, LocalsOK
<1>5. ASSUME Enqueue(t) \/ CloseLeaves(t) PROVE SteadyStep(t)
  BY <1>0, <1>5 DEF Enqueue, CloseLeaves, Return, Goto, LocalsOK
<1>6. ASSUME Close(t) PROVE SteadyStep(t)
  BY <1>0, <1>6 DEF Close, Call, LocalsOK
<1> HIDE DEF SteadyStep
<1> QED
  BY <1>1, <1>2, <1>3, <1>4, <1>5, <1>6

\* close_connections around its loop, and the handlers on their way.
LEMMA SteadyHandler ==
  ASSUME PlaceOK, NEW t \in Threads,
         \/ SweepSome(t) \/ SweepEnds(t)
         \/ NoEvent(t) \/ ReadyClosed(t) \/ ParkClosed(t) \/ PushIdle(t)
         \/ ClearLocks(t) \/ ClearNext(t) \/ CallbackReturns(t) \/ EraseNone(t) \/ CallbackThrows(t) \/ ClearEnds(t)
  PROVE  SteadyStep(t)
<1> USE DEF shared, poolVars, closeVars, machineVars, linkVars, locals, history, SteadyStep, Learning
<1>0. LocalsOK
  BY DEF PlaceOK
<1>1. CASE SweepSome(t)
  BY <1>0, <1>1 DEF SweepSome, Branch, Goto, LocalsOK
<1>2. CASE SweepEnds(t)
  BY <1>0, <1>2 DEF SweepEnds, Return, Goto, LocalsOK
<1>3. CASE NoEvent(t) \/ ReadyClosed(t) \/ ParkClosed(t) \/ PushIdle(t)
  BY <1>0, <1>3 DEF NoEvent, ReadyClosed, ParkClosed, PushIdle, Branch, Goto, LocalsOK
<1>4. CASE \/ ClearLocks(t) \/ ClearNext(t) \/ CallbackReturns(t) \/ EraseNone(t)
           \/ CallbackThrows(t) \/ ClearEnds(t)
  BY <1>0, <1>4 DEF ClearLocks, ClearNext, CallbackReturns, EraseNone, CallbackThrows, ClearEnds, Branch, Goto,
     LocalsOK
<1> QED
  BY <1>1, <1>2, <1>3, <1>4

\* What covers c still does, if the step of t leaves c and its way alone.
LEMMA CoveredStays ==
  ASSUME PlaceOK, NEW t \in Threads, Only(t), NEW c \in Conns, Covered(c),
         Doomed(c) => Doomed(c)', fsm'[c] = fsm[c], source'[c] = source[c],
         conn[t] = c /\ pc[t] \in Learning => conn'[t] = c /\ pc'[t] \in Learning,
         pc[t] = "sweeping" /\ c \in todo[t] => pc'[t] = "sweeping" /\ c \in todo'[t]
  PROVE  Covered(c)'
<1>1. ASSUME NEW u \in Threads, conn[u] = c, pc[u] \in Learning PROVE Covered(c)'
  BY <1>1 DEF Covered, Only
<1>2. ASSUME NEW u \in Threads, pc[u] = "sweeping", c \in todo[u] PROVE Covered(c)'
  BY <1>2 DEF Covered, Only
<1> QED
  BY <1>1, <1>2 DEF Covered

\* Whoever is covered stays so, and nobody begins to sweep.
LEMMA SweptKeeps ==
  ASSUME ToldInv, SweptOK, NEW t \in Threads, Only(t),
         closed => closed', swept' = swept, early \subseteq early',
         pc'[t] = "sweeping" => pc[t] = "sweeping" /\ todo'[t] = todo[t],
         closed => \A c \in Conns \ early' : Covered(c) => Covered(c)'
  PROVE  SweptOK'
<1>1. swept => closed
  BY DEF SweptOK
<1>2. ASSUME NEW u \in Threads, pc'[u] = "sweeping" PROVE pc[u] = "sweeping" /\ todo'[u] = todo[u] /\ closed
  BY <1>2 DEF Only, ToldInv, Closers, SweepPlaces
<1> QED
  BY <1>1, <1>2 DEF SweptOK

\* A steady step changes nothing.
LEMMA StraySteady ==
  ASSUME PlaceOK, ToldInv, StrayInv, NEW t \in Threads, Only(t), SteadyStep(t)
  PROVE  StrayInv'
<1>1. ListedOK'
  BY DEF StrayInv, ListedOK, SteadyStep, Only, Live
<1>2. IdleOK'
  BY DEF StrayInv, IdleOK, SteadyStep, Doomed
<1>3. ASSUME closed, NEW c \in Conns, Covered(c) PROVE Covered(c)'
  BY <1>3, CoveredStays DEF SteadyStep, Doomed
<1>4. SweptOK'
  BY <1>3, SweptKeeps DEF StrayInv, SteadyStep
<1> QED
  BY <1>1, <1>2, <1>4 DEF StrayInv

\* A machine goes from one state to another while it lives.
LEMMA ListedMoves ==
  ASSUME PlaceOK, ListedOK, NEW t \in Threads, Only(t), connections' = connections,
         early \subseteq early', early' \subseteq Conns,
         pc[t] \notin {"list", "erased"}, pc'[t] \notin {"list", "erased"},
         \A c \in Conns :
           \/ fsm'[c] = fsm[c]
           \/ /\ {fsm[c], fsm'[c]} \cap {"unplugged", "terminated"} = {}
              /\ fsm[c] = "connecting" => c \in early' \cup connections,
         \A c \in early' \ early : fsm'[c] # "unplugged"
  PROVE  ListedOK'
<1>1. \A c \in early' : fsm'[c] # "unplugged"
  BY DEF ListedOK
<1>2. connections' \subseteq Live' \cup early'
  BY DEF ListedOK, Live
<1>3. ASSUME NEW u \in Threads, pc'[u] = "list"
      PROVE  /\ u # t /\ pc[u] = "list" /\ target'[u] = target[u]
             /\ fsm'[target[u]] # "unplugged"
             /\ target[u] \in early' \/ (fsm'[target[u]] = "connecting" /\ target[u] \notin connections)
  <2>1. u # t /\ pc[u] = "list" /\ target'[u] = target[u]
    BY <1>3 DEF Only
  <2>2. target[u] \in Conns
    BY <2>1 DEF PlaceOK, LocalsOK, ThreadOK
  <2> QED
    BY <2>1, <2>2 DEF ListedOK
<1>4. ASSUME NEW u \in Threads, pc'[u] = "erased"
      PROVE  pc[u] = "erased" /\ conn'[u] = conn[u]
  BY <1>4 DEF Only
<1> QED
  BY <1>1, <1>2, <1>3, <1>4 DEF ListedOK

\* connections_ and the early connections account for every step that is not steady.
LEMMA ListedStep ==
  ASSUME PlaceOK, ListedOK, NEW t \in Threads, Only(t),
         \/ Execute(t) \/ Create(t) \/ List(t)
         \/ SweepNone(t) \/ SweepCopies(t) \/ SweepOne(t) \/ SweepUnlocks(t)
         \/ \E c \in Conns : Answer(t, c) \/ Fail(t, c)
         \/ NextEvent(t) \/ Settle(t) \/ Unwind(t) \/ Erase(t) \/ Terminated(t)
  PROVE  ListedOK'
<1>0. LocalsOK /\ SharedOK /\ ThreadOK(t)
  BY DEF PlaceOK
<1>1. CASE SweepNone(t) \/ SweepCopies(t) \/ SweepUnlocks(t) \/ NextEvent(t)
  <2>1. /\ UNCHANGED <<fsm, connections, early>>
        /\ pc[t] \notin {"list", "erased"} /\ pc'[t] \notin {"list", "erased"}
    BY <1>0, <1>1 DEF SweepNone, SweepCopies, SweepUnlocks, NextEvent, Goto, LocalsOK, shared, poolVars,
       machineVars, history
  <2> QED
    BY <2>1, ListedMoves DEF ListedOK
<1>2. CASE Execute(t)
  <2>1. /\ UNCHANGED <<connections, early>>
        /\ pc[t] \notin {"list", "erased"} /\ pc'[t] \notin {"list", "erased"}
    BY <1>0, <1>2 DEF Execute, Return, Goto, LocalsOK, poolVars
  <2>2. fsm' = fsm \/ (fsm[target[t]] = "idle" /\ fsm' = [fsm EXCEPT ![target[t]] = "query"])
    BY <1>2 DEF Execute
  <2>3. \A c \in Conns : fsm'[c] = fsm[c] \/ (fsm[c] = "idle" /\ fsm'[c] = "query")
    BY <1>0, <2>2 DEF SharedOK
  <2> QED
    BY <2>1, <2>3, ListedMoves DEF ListedOK
<1>3. ASSUME NEW c \in Conns, Answer(t, c) \/ Fail(t, c) PROVE ListedOK'
  <2>1. /\ fsm[c] \in {"connecting", "idle", "query"} /\ early' = early \cup ({c} \ connections)
        /\ \E v \in {"entering", "ending"} : fsm' = [fsm EXCEPT ![c] = v]
        /\ connections' = connections
        /\ pc[t] \notin {"list", "erased"} /\ pc'[t] \notin {"list", "erased"}
    BY <1>0, <1>3 DEF Answer, Fail, Start, Goto, LocalsOK, poolVars
  <2>2. /\ \A d \in Conns \ {c} : fsm'[d] = fsm[d]
        /\ fsm'[c] \in {"entering", "ending"}
    BY <1>0, <2>1 DEF SharedOK
  <2> QED
    BY <2>1, <2>2, ListedMoves DEF ListedOK
<1>4. CASE Settle(t) \/ Unwind(t)
  <2>1. PICK c \in Conns : c = conn[t]
    BY <1>0, <1>4 DEF Settle, Unwind, Goto, LocalsOK, ThreadOK, InHandler, HandlerPlaces
  <2>2. /\ UNCHANGED <<connections, early>>
        /\ pc[t] \notin {"list", "erased"} /\ pc'[t] \notin {"list", "erased"}
    BY <1>0, <1>4 DEF Settle, Unwind, Goto, LocalsOK, poolVars, history
  <2>3. \E v \in {"connecting", "idle", "query", "ending"} : fsm' = [fsm EXCEPT ![c] = v]
    BY <1>4, <2>1 DEF Settle, Unwind
  <2>4. fsm[c] \in {"entering", "ending"}
    BY <1>0, <2>1, NoneAssumption DEF ThreadOK
  <2>5. /\ \A d \in Conns \ {c} : fsm'[d] = fsm[d]
        /\ fsm'[c] \in {"connecting", "idle", "query", "ending"}
    BY <1>0, <2>3 DEF SharedOK
  <2> QED
    BY <2>2, <2>4, <2>5, ListedMoves DEF ListedOK
<1>5. CASE Create(t)
  <2>1. PICK c \in Conns : /\ fsm[c] = "unplugged" /\ fsm' = [fsm EXCEPT ![c] = "connecting"]
                           /\ target' = [target EXCEPT ![t] = c]
    BY <1>5 DEF Create
  <2>2. UNCHANGED <<connections, early, conn>> /\ pc[t] = "create" /\ pc'[t] = "list"
    BY <1>0, <1>5 DEF Create, Goto, LocalsOK, poolVars, history
  <2>3. /\ fsm'[c] = "connecting" /\ \A d \in Conns \ {c} : fsm'[d] = fsm[d]
        /\ target'[t] = c /\ c \notin early /\ c \notin connections
    BY <1>0, <2>1 DEF SharedOK, LocalsOK, ListedOK, Live
  <2>4. connections' \subseteq Live' \cup early'
    BY <2>2, <2>3 DEF ListedOK, Live
  <2>5. ASSUME NEW u \in Threads, u # t, pc'[u] = "list"
        PROVE  pc[u] = "list" /\ target'[u] = target[u] /\ target[u] \in Conns \ {c}
    <3>1. pc[u] = "list" /\ target'[u] = target[u]
      BY <2>5 DEF Only
    <3>2. target[u] \in Conns
      BY <3>1 DEF PlaceOK, LocalsOK, ThreadOK
    <3> QED
      BY <2>1, <3>1, <3>2 DEF ListedOK
  <2>6. \A u \in Threads : pc'[u] = "list" =>
          /\ fsm'[target'[u]] # "unplugged"
          /\ target'[u] \in early' \/ (fsm'[target'[u]] = "connecting" /\ target'[u] \notin connections')
    BY <2>2, <2>3, <2>5 DEF ListedOK
  <2>7. \A u, w \in Threads : pc'[u] = "list" /\ pc'[w] = "list" /\ target'[u] = target'[w] => u = w
    BY <2>3, <2>5 DEF ListedOK
  <2>8. \A u \in Threads : pc'[u] = "erased" => conn'[u] \notin connections' \/ conn'[u] \in early'
    BY <2>2 DEF Only, ListedOK
  <2>9. early' \subseteq Conns /\ \A d \in early' : fsm'[d] # "unplugged"
    BY <2>2, <2>3 DEF ListedOK
  <2> QED
    BY <2>4, <2>6, <2>7, <2>8, <2>9 DEF ListedOK
<1>6. CASE List(t)
  <2>1. /\ pc[t] = "list" /\ pc'[t] = "enqueue" /\ UNCHANGED <<early, fsm, conn>>
        /\ connections' = connections \cup {target[t]}
    BY <1>0, <1>6 DEF List, Goto, LocalsOK, machineVars, history
  <2>2. /\ target[t] \in Conns /\ fsm[target[t]] # "unplugged"
        /\ target[t] \in early \/ fsm[target[t]] = "connecting"
    BY <1>0, <2>1 DEF LocalsOK, ThreadOK, ListedOK
  <2>3. connections' \subseteq Live' \cup early'
    BY <2>1, <2>2 DEF ListedOK, Live
  <2>4. ASSUME NEW u \in Threads, pc'[u] = "list"
        PROVE  u # t /\ pc[u] = "list" /\ target'[u] = target[u] /\ target[u] # target[t]
    BY <2>1, <2>4 DEF Only, ListedOK
  <2>5. ASSUME NEW u \in Threads, pc'[u] = "erased"
        PROVE  conn'[u] \notin connections' \/ conn'[u] \in early'
    <3>1. pc[u] = "erased" /\ conn'[u] = conn[u]
      BY <2>1, <2>5 DEF Only
    <3>2. fsm[conn[u]] = "ending"
      BY <3>1 DEF PlaceOK, ThreadOK, EndPlaces
    <3> QED
      BY <2>1, <2>2, <3>1, <3>2 DEF ListedOK
  <2> QED
    BY <2>1, <2>3, <2>4, <2>5 DEF ListedOK
<1>7. CASE Erase(t)
  <2>1. /\ pc[t] = "erase" /\ pc'[t] = "erased" /\ UNCHANGED <<early, fsm, conn, target>>
        /\ connections' = connections \ {conn[t]}
    BY <1>0, <1>7 DEF Erase, Goto, LocalsOK, machineVars, locals, history
  <2>2. \A u \in Threads \ {t} : pc'[u] = pc[u]
    BY DEF Only
  <2>3. connections' \subseteq Live' \cup early'
    BY <2>1 DEF ListedOK, Live
  <2> QED
    BY <2>1, <2>2, <2>3 DEF ListedOK
<1>8. CASE Terminated(t)
  <2>1. PICK c \in Conns : c = conn[t]
    BY <1>0, <1>8 DEF Terminated, Goto, LocalsOK, ThreadOK, InHandler, HandlerPlaces, EndPlaces
  <2>2. /\ pc[t] = "erased" /\ pc'[t] = "loop" /\ UNCHANGED <<early, connections, target>>
        /\ fsm' = [fsm EXCEPT ![c] = "terminated"]
    BY <1>0, <1>8, <2>1 DEF Terminated, Goto, LocalsOK, poolVars, history
  <2>3. /\ fsm[c] = "ending" /\ fsm'[c] = "terminated" /\ \A d \in Conns \ {c} : fsm'[d] = fsm[d]
        /\ c \notin connections \/ c \in early
    BY <1>0, <2>1, <2>2 DEF ThreadOK, EndPlaces, SharedOK, ListedOK
  <2>4. connections' \subseteq Live' \cup early'
    BY <2>2, <2>3 DEF ListedOK, Live
  <2>5. ASSUME NEW u \in Threads, pc'[u] = "list"
        PROVE  /\ pc[u] = "list" /\ target[u] \in Conns
               /\ target[u] \in early \/ target[u] # c
    <3>1. pc[u] = "list"
      BY <2>2, <2>5 DEF Only
    <3> QED
      BY <2>3, <3>1 DEF PlaceOK, LocalsOK, ThreadOK, ListedOK
  <2>6. \A u \in Threads : pc'[u] = "erased" => pc[u] = "erased" /\ conn'[u] = conn[u]
    BY <2>2 DEF Only
  <2>7. \A d \in early' : fsm'[d] # "unplugged"
    BY <2>2, <2>3 DEF ListedOK
  <2> QED
    BY <2>2, <2>3, <2>4, <2>5, <2>6, <2>7 DEF ListedOK
<1>9. CASE SweepOne(t)
  <2>1. PICK c \in todo[t] :
          \/ UNCHANGED <<fsm, connections>>
          \/ /\ fsm[c] = "idle" /\ fsm' = [fsm EXCEPT ![c] = "terminated"]
             /\ connections' = connections \ {c}
    BY <1>9 DEF SweepOne
  <2>2. UNCHANGED <<pc, target, conn, early>> /\ c \in Conns
    BY <1>0, <1>9 DEF SweepOne, LocalsOK, history
  <2>3. CASE UNCHANGED <<fsm, connections>>
    BY <2>2, <2>3 DEF ListedOK, Live
  <2>4. CASE /\ fsm[c] = "idle" /\ fsm' = [fsm EXCEPT ![c] = "terminated"]
             /\ connections' = connections \ {c}
    <3>1. fsm'[c] = "terminated" /\ \A d \in Conns \ {c} : fsm'[d] = fsm[d]
      BY <1>0, <2>2, <2>4 DEF SharedOK
    <3>2. connections' \subseteq Live' \cup early'
      BY <2>2, <2>4, <3>1 DEF ListedOK, Live
    <3>3. ASSUME NEW u \in Threads, pc[u] = "list"
          PROVE  target[u] \in Conns /\ (target[u] \in early \/ target[u] # c)
      BY <2>4, <3>3 DEF PlaceOK, LocalsOK, ThreadOK, ListedOK
    <3>4. \A d \in early' : fsm'[d] # "unplugged"
      BY <2>2, <3>1 DEF ListedOK
    <3> QED
      BY <2>2, <2>4, <3>1, <3>2, <3>3, <3>4 DEF ListedOK
  <2> QED
    BY <2>1, <2>3, <2>4
<1> QED
  BY <1>1, <1>2, <1>3, <1>4, <1>5, <1>6, <1>7, <1>8, <1>9

\* A machine comes to idle with nothing to do, and is told nothing there.
LEMMA IdleStep ==
  ASSUME PlaceOK, IdleOK, NEW t \in Threads,
         \/ Execute(t) \/ Create(t) \/ List(t)
         \/ SweepNone(t) \/ SweepCopies(t) \/ SweepOne(t) \/ SweepUnlocks(t)
         \/ \E c \in Conns : Answer(t, c) \/ Fail(t, c)
         \/ NextEvent(t) \/ Settle(t) \/ Unwind(t) \/ Erase(t) \/ Terminated(t)
  PROVE  IdleOK'
<1>0. LocalsOK /\ SharedOK /\ ThreadOK(t)
  BY DEF PlaceOK
<1>1. SUFFICES ASSUME NEW c \in Conns, fsm'[c] = "idle" PROVE ~Doomed(c)'
  BY DEF IdleOK
<1>2. ASSUME fsm[c] = "idle", deferred' = deferred \/ c \notin deferred', mail'[c] = mail[c]
      PROVE  ~Doomed(c)'
  BY <1>2 DEF IdleOK, Doomed
<1>3. CASE \/ SweepNone(t) \/ SweepCopies(t) \/ SweepUnlocks(t) \/ List(t) \/ Erase(t)
           \/ Create(t) \/ \E d \in Conns : Answer(t, d) \/ Fail(t, d)
  <2>1. UNCHANGED <<mail, deferred>>
    BY <1>3 DEF SweepNone, SweepCopies, SweepUnlocks, List, Erase, Create, Answer, Fail, Start, shared,
       machineVars
  <2>2. fsm[c] = "idle"
    <3>1. CASE SweepNone(t) \/ SweepCopies(t) \/ SweepUnlocks(t) \/ List(t) \/ Erase(t)
      BY <1>1, <3>1 DEF SweepNone, SweepCopies, SweepUnlocks, List, Erase, shared, machineVars
    <3>2. CASE Create(t) \/ \E d \in Conns : Answer(t, d) \/ Fail(t, d)
      <4>1. PICK d \in Conns, v \in {"connecting", "entering", "ending"} : fsm' = [fsm EXCEPT ![d] = v]
        BY <3>2 DEF Create, Answer, Fail, Start
      <4> QED
        BY <1>0, <1>1, <4>1 DEF SharedOK
    <3> QED
      BY <1>3, <3>1, <3>2
  <2> QED
    BY <1>2, <2>1, <2>2
<1>4. CASE Execute(t)
  <2>1. /\ fsm' = fsm \/ fsm' = [fsm EXCEPT ![target[t]] = "query"]
        /\ \/ mail' = mail
           \/ /\ fsm[target[t]] \in {"entering", "ending"} /\ fsm' = fsm
              /\ mail' = [mail EXCEPT ![target[t]] = Append(@, req[t])]
        /\ deferred' = deferred
    BY <1>4 DEF Execute
  <2>2. fsm[c] = "idle"
    BY <1>0, <1>1, <2>1 DEF SharedOK
  <2>3. mail'[c] = mail[c]
    BY <1>0, <2>1, <2>2 DEF SharedOK
  <2> QED
    BY <1>2, <2>1, <2>2, <2>3
<1>5. CASE SweepOne(t)
  <2>1. PICK d \in todo[t] :
          /\ fsm' = fsm \/ fsm' = [fsm EXCEPT ![d] = "terminated"]
          /\ deferred' = deferred \cup {e \in {d} : fsm[e] \in {"connecting", "query"}}
          /\ mail' = IF fsm[d] \in {"entering", "ending"} THEN [mail EXCEPT ![d] = Append(@, None)] ELSE mail
    BY <1>5 DEF SweepOne
  <2>2. fsm[c] = "idle"
    BY <1>0, <1>1, <2>1 DEF SharedOK
  <2>3. mail'[c] = mail[c]
    BY <1>0, <2>1, <2>2 DEF SharedOK
  <2>4. c \notin deferred'
    BY <2>1, <2>2 DEF IdleOK, Doomed
  <2> QED
    BY <1>2, <2>2, <2>3, <2>4
<1>6. CASE NextEvent(t)
  <2>1. /\ fsm' = fsm /\ deferred' = deferred
        /\ mail' = [mail EXCEPT ![conn[t]] = Append(@, Head(queue))] /\ pc[t] = "next_event"
    BY <1>6 DEF NextEvent, Goto
  <2>2. fsm[conn[t]] = "entering"
    BY <1>0, <2>1 DEF ThreadOK, ReadyPlaces
  <2>3. mail'[c] = mail[c]
    BY <1>0, <1>1, <2>1, <2>2 DEF SharedOK
  <2> QED
    BY <1>1, <1>2, <2>1, <2>3
<1>7. CASE Settle(t)
  <2>1. PICK d \in Conns : d = conn[t]
    BY <1>0, <1>7 DEF Settle, Goto, LocalsOK, ThreadOK, InHandler, HandlerPlaces
  <2>2. /\ deferred' = deferred
        /\ \/ /\ UNCHANGED mail /\ d \notin deferred /\ mail[d] = <<>>
              /\ fsm' = [fsm EXCEPT ![d] = "idle"]
           \/ /\ \E v \in {"query", "ending"} : fsm' = [fsm EXCEPT ![d] = v]
              /\ mail' = mail \/ mail' = [mail EXCEPT ![d] = Tail(@)]
    BY <1>7, <2>1 DEF Settle, Terminating
  <2>3. CASE c = d
    BY <1>0, <1>1, <2>2, <2>3 DEF SharedOK, Doomed
  <2>4. CASE c # d
    <3>1. fsm[c] = "idle" /\ mail'[c] = mail[c]
      BY <1>0, <1>1, <2>2, <2>4 DEF SharedOK
    <3> QED
      BY <1>2, <2>2, <3>1
  <2> QED
    BY <2>3, <2>4
<1>8. CASE Unwind(t) \/ Terminated(t)
  <2>1. PICK d \in Conns : d = conn[t]
    BY <1>0, <1>8 DEF Unwind, Terminated, Goto, LocalsOK, ThreadOK, InHandler, HandlerPlaces, EndPlaces
  <2>2. /\ \E v \in {"connecting", "query", "terminated"} : fsm' = [fsm EXCEPT ![d] = v]
        /\ mail' = [mail EXCEPT ![d] = <<>>]
        /\ deferred' \subseteq deferred \cup {d}
    BY <1>8, <2>1 DEF Unwind, Terminated
  <2>3. fsm[c] = "idle" /\ c # d
    BY <1>0, <1>1, <2>2 DEF SharedOK
  <2>4. mail'[c] = mail[c] /\ c \notin deferred'
    BY <1>0, <2>2, <2>3 DEF SharedOK, IdleOK, Doomed
  <2> QED
    BY <1>2, <2>3, <2>4
<1> QED
  BY <1>3, <1>4, <1>5, <1>6, <1>7, <1>8

\* close_connections finds every machine that it has to end, or its handler does.
LEMMA WithinReach ==
  ASSUME PlaceOK, OpenInv, ListedOK, NEW c \in Conns \ early, fsm[c] \in {"entering", "idle", "ending"}
  PROVE  c \in connections \/ \E u \in Threads : pc[u] = "erased" /\ conn[u] = c
<1>1. c \in Open
  BY DEF OpenInv, Live
<1>2. ASSUME NEW u \in Between, c = Hand(u), c \notin connections
      PROVE  pc[u] = "erased" /\ conn[u] = c
  BY <1>2 DEF Between, Hand, ListedOK
<1> QED
  BY <1>1, <1>2 DEF Open, Between

\* The sweep itself.
LEMMA SweptSweeps ==
  ASSUME PlaceOK, OpenInv, ToldInv, ListedOK, SweptOK, NEW t \in Threads, Only(t),
         SweepNone(t) \/ SweepCopies(t) \/ SweepOne(t) \/ SweepUnlocks(t)
  PROVE  SweptOK'
<1>0. LocalsOK /\ SharedOK
  BY DEF PlaceOK
<1>1. closed /\ closed' = closed /\ early' = early
  BY <1>0 DEF ToldInv, Closers, SweepPlaces, SweepNone, SweepCopies, SweepOne, SweepUnlocks, Goto,
     LocalsOK, shared, closeVars, history
<1>2. ASSUME \A c \in Conns \ early : Covered(c)' PROVE SweptOK'
  BY <1>1, <1>2 DEF SweptOK
<1>3. CASE SweepNone(t) \/ SweepCopies(t)
  <2>1. /\ UNCHANGED <<fsm, conn>> /\ pc[t] # "erased"
        /\ connections = {} \/ (pc'[t] = "sweeping" /\ todo'[t] = connections)
    BY <1>0, <1>3 DEF SweepNone, SweepCopies, Goto, LocalsOK, shared, machineVars, locals
  <2>2. ASSUME NEW c \in Conns \ early PROVE Covered(c)'
    <3>1. CASE fsm[c] \notin {"entering", "idle", "ending"}
      BY <2>1, <3>1 DEF Covered
    <3>2. CASE c \in connections
      BY <2>1, <3>2 DEF Covered
    <3>3. ASSUME NEW u \in Threads, pc[u] = "erased", conn[u] = c PROVE Covered(c)'
      BY <2>1, <3>3 DEF Covered, Only, Learning
    <3> QED
      BY <3>1, <3>2, <3>3, WithinReach
  <2> QED
    BY <1>2, <2>2
<1>4. CASE SweepUnlocks(t)
  <2>1. /\ UNCHANGED <<fsm, source, deferred, mail, conn, todo>>
        /\ pc[t] = "sweeping" /\ todo[t] = {}
    BY <1>4 DEF SweepUnlocks, Goto, shared, machineVars, linkVars, locals
  <2>2. ASSUME NEW c \in Conns \ early PROVE Covered(c)'
    <3>1. Covered(c)
      BY <2>1 DEF SweptOK
    <3> QED
      BY <2>1, <3>1, CoveredStays DEF Doomed, Learning
  <2> QED
    BY <1>2, <2>2
<1>5. CASE SweepOne(t)
  <2>1. PICK d \in todo[t] :
          /\ todo' = [todo EXCEPT ![t] = @ \ {d}]
          /\ \/ fsm[d] = "idle" /\ fsm' = [fsm EXCEPT ![d] = "terminated"]
             \/ fsm[d] # "idle" /\ fsm' = fsm
          /\ deferred \subseteq deferred'
          /\ mail' = IF fsm[d] \in {"entering", "ending"} THEN [mail EXCEPT ![d] = Append(@, None)] ELSE mail
    BY <1>5 DEF SweepOne
  <2>2. UNCHANGED <<pc, conn, source, swept>> /\ pc[t] = "sweeping" /\ d \in Conns
    BY <1>0, <1>5 DEF SweepOne, linkVars, history, LocalsOK
  <2>3. Covered(d)'
    <3>1. CASE fsm[d] \in {"entering", "ending"}
      <4>1. PICK s \in Seq(Requests \cup {None}) : s = mail[d]
        BY <1>0, <2>2 DEF SharedOK
      <4>2. PICK u : u = Append(s, None)
        OBVIOUS
      <4>3. u # <<>>
        BY <4>1, <4>2
      <4>4. mail' = [mail EXCEPT ![d] = u]
        BY <2>1, <3>1, <4>1, <4>2, Zenon
      <4>5. mail'[d] # <<>>
        BY <1>0, <2>2, <4>3, <4>4 DEF SharedOK
      <4> QED
        BY <4>5 DEF Covered, Doomed
    <3>2. CASE fsm[d] \notin {"entering", "ending"}
      <4>1. fsm'[d] \notin {"entering", "idle", "ending"}
        BY <1>0, <2>1, <2>2, <3>2 DEF SharedOK
      <4> QED
        BY <4>1 DEF Covered
    <3> QED
      BY <3>1, <3>2
  <2>4. ASSUME NEW c \in Conns, c # d, Covered(c) PROVE Covered(c)'
    <3>1. fsm'[c] = fsm[c] /\ mail'[c] = mail[c]
      BY <1>0, <2>1, <2>4 DEF SharedOK
    <3>2. c \in todo[t] => c \in todo'[t]
      BY <1>0, <2>1, <2>4 DEF LocalsOK
    <3> QED
      BY <2>1, <2>2, <2>4, <3>1, <3>2, CoveredStays DEF Doomed
  <2>5. \A u \in Threads : todo'[u] = IF u = t THEN todo[u] \ {d} ELSE todo[u]
    BY <1>0, <2>1 DEF LocalsOK
  <2> QED
    BY <1>1, <2>2, <2>3, <2>4, <2>5 DEF SweptOK
<1> QED
  BY <1>3, <1>4, <1>5

\* The rest of the pool at work while it is closed.
LEMMA SweptStep ==
  ASSUME PlaceOK, SourceOK, ToldInv, IdleOK, SweptOK, NEW t \in Threads, Only(t),
         \/ Execute(t) \/ Create(t) \/ List(t)
         \/ \E c \in Conns : Answer(t, c) \/ Fail(t, c)
         \/ NextEvent(t) \/ Settle(t) \/ Unwind(t) \/ Erase(t) \/ Terminated(t)
  PROVE  SweptOK'
<1>0. LocalsOK /\ SharedOK /\ ThreadOK(t)
  BY DEF PlaceOK
<1>1. /\ closed' = closed /\ swept' = swept /\ early \subseteq early'
      /\ pc[t] # "sweeping" /\ pc'[t] # "sweeping"
  <2>1. CASE Execute(t) \/ Create(t) \/ List(t) \/ Erase(t)
    BY <1>0, <2>1 DEF Execute, Create, List, Erase, Goto, Return, LocalsOK, closeVars, history
  <2>2. CASE \E c \in Conns : Answer(t, c) \/ Fail(t, c)
    BY <1>0, <2>2 DEF Answer, Fail, Start, Goto, LocalsOK, closeVars
  <2>3. CASE NextEvent(t) \/ Settle(t) \/ Unwind(t) \/ Terminated(t)
    BY <1>0, <2>3 DEF NextEvent, Settle, Unwind, Terminated, Goto, LocalsOK, closeVars, history
  <2> QED
    BY <2>1, <2>2, <2>3
<1>2. SUFFICES ASSUME NEW c \in Conns \ early', Covered(c) PROVE Covered(c)'
  BY <1>1, SweptKeeps
<1>3. ASSUME Doomed(c) => Doomed(c)', fsm'[c] = fsm[c], source'[c] = source[c],
             conn[t] = c /\ pc[t] \in Learning => conn'[t] = c /\ pc'[t] \in Learning
      PROVE  Covered(c)'
  BY <1>1, <1>2, <1>3, CoveredStays
<1>4. ASSUME fsm'[c] \notin {"entering", "idle", "ending"} PROVE Covered(c)'
  BY <1>4 DEF Covered
<1>5. CASE List(t) \/ Erase(t)
  BY <1>0, <1>3, <1>5 DEF List, Erase, Goto, LocalsOK, locals, machineVars, linkVars, Doomed, Learning
<1>6. CASE Create(t)
  <2>1. PICK d \in Conns : fsm' = [fsm EXCEPT ![d] = "connecting"]
    BY <1>6 DEF Create
  <2>2. UNCHANGED <<source, deferred, mail>> /\ pc[t] \notin Learning
    BY <1>6 DEF Create, Goto, linkVars, Learning
  <2> QED
    BY <1>0, <1>3, <1>4, <2>1, <2>2 DEF SharedOK, Doomed
<1>7. CASE Execute(t)
  <2>1. PICK d \in Conns : d = target[t]
    BY <1>0, <1>7 DEF Execute, Return, Goto, LocalsOK, ThreadOK
  <2>2. UNCHANGED <<source, deferred>> /\ pc[t] \notin Learning
    BY <1>7 DEF Execute, Return, Goto, linkVars, Learning
  <2>3. CASE UNCHANGED mail /\ (fsm' = fsm \/ fsm' = [fsm EXCEPT ![d] = "query"])
    BY <1>0, <1>3, <1>4, <2>2, <2>3 DEF SharedOK, Doomed
  <2>4. CASE fsm' = fsm /\ mail' = [mail EXCEPT ![d] = Append(@, req[t])]
    <3>1. PICK s \in Seq(Requests \cup {None}) : s = mail[d]
      BY <1>0 DEF SharedOK
    <3>2. PICK u : u = Append(s, req[t])
      OBVIOUS
    <3>3. u # <<>>
      BY <1>0, <3>1, <3>2 DEF LocalsOK
    <3>4. mail' = [mail EXCEPT ![d] = u]
      BY <2>4, <3>1, <3>2, Zenon
    <3>5. mail'[c] # <<>> \/ mail'[c] = mail[c]
      BY <1>0, <3>3, <3>4 DEF SharedOK
    <3> QED
      BY <1>3, <2>2, <2>4, <3>5 DEF Doomed
  <2> QED
    BY <1>7, <2>1, <2>3, <2>4 DEF Execute
<1>8. ASSUME NEW d \in Conns, Answer(t, d) \/ Fail(t, d) PROVE Covered(c)'
  <2>1. UNCHANGED <<mail, deferred>> /\ conn' = [conn EXCEPT ![t] = d] /\ pc[t] = "loop"
    BY <1>8 DEF Answer, Fail, Start, Goto
  <2>2. \/ /\ fsm' = [fsm EXCEPT ![d] = "entering"] /\ source' = source /\ pc'[t] = "next_event"
        \/ /\ fsm' = [fsm EXCEPT ![d] = "ending"] /\ source' = [source EXCEPT ![d] = fsm[d]]
           /\ fsm[d] \in {"connecting", "idle", "query"}
    BY <1>0, <1>8 DEF Answer, Fail, Start, Goto, linkVars, LocalsOK
  <2>3. CASE c # d
    <3>1. fsm'[c] = fsm[c] /\ source'[c] = source[c] /\ pc[t] \notin Learning
      BY <1>0, <2>1, <2>2, <2>3 DEF SharedOK, SourceOK, Learning
    <3> QED
      BY <1>3, <2>1, <3>1 DEF Doomed
  <2>4. CASE c = d
    <3>1. conn'[t] = c
      BY <1>0, <2>1, <2>4 DEF LocalsOK
    <3>2. CASE pc'[t] = "next_event"
      BY <3>1, <3>2 DEF Covered, Learning
    <3>3. CASE /\ fsm' = [fsm EXCEPT ![d] = "ending"] /\ source' = [source EXCEPT ![d] = fsm[d]]
               /\ fsm[d] \in {"connecting", "idle", "query"}
      <4>1. fsm'[c] = "ending" /\ source'[c] = fsm[c]
        BY <1>0, <2>4, <3>3 DEF SharedOK, SourceOK
      <4>2. CASE fsm[c] # "idle"
        BY <4>1, <4>2 DEF Covered
      <4>3. CASE fsm[c] = "idle"
        <5>1. ~Doomed(c)
          BY <4>3 DEF IdleOK
        <5>2. \A u \in Threads : conn[u] # c
          BY <4>3, NoneAssumption DEF PlaceOK, ThreadOK
        <5>3. PICK u \in Threads : pc[u] = "sweeping" /\ c \in todo[u]
          BY <1>2, <4>3, <5>1, <5>2 DEF Covered
        <5>4. pc'[u] = "sweeping" /\ c \in todo'[u]
          BY <2>1, <5>3 DEF Only
        <5> QED
          BY <5>4 DEF Covered
      <4> QED
        BY <4>2, <4>3
    <3> QED
      BY <2>2, <3>2, <3>3
  <2> QED
    BY <2>3, <2>4
<1>9. CASE NextEvent(t)
  <2>1. PICK d \in Conns : d = conn[t]
    BY <1>0, <1>9 DEF NextEvent, Goto, LocalsOK, ThreadOK, InHandler, HandlerPlaces, ReadyPlaces
  <2>2. /\ UNCHANGED <<fsm, source, deferred>> /\ mail' = [mail EXCEPT ![d] = Append(@, Head(queue))]
        /\ queue # <<>>
    BY <1>9, <2>1 DEF NextEvent, linkVars
  <2>3. PICK r \in Requests : r = Head(queue)
    BY <1>0, <2>2 DEF SharedOK
  <2>4. PICK s \in Seq(Requests \cup {None}) : s = mail[d]
    BY <1>0 DEF SharedOK
  <2>5. PICK u : u = Append(s, r)
    OBVIOUS
  <2>6. u # <<>>
    BY <2>3, <2>4, <2>5
  <2>7. mail' = [mail EXCEPT ![d] = u]
    BY <2>2, <2>3, <2>4, <2>5, Zenon
  <2>8. IF c = d THEN mail'[c] # <<>> ELSE mail'[c] = mail[c]
    BY <1>0, <2>6, <2>7 DEF SharedOK
  <2>9. CASE c = d
    BY <2>8, <2>9 DEF Covered, Doomed
  <2>10. CASE c # d
    BY <1>3, <2>1, <2>2, <2>8, <2>10 DEF Doomed
  <2> QED
    BY <2>9, <2>10
<1>10. CASE Settle(t) \/ Unwind(t) \/ Terminated(t)
  <2>1. PICK d \in Conns : d = conn[t]
    BY <1>0, <1>10 DEF Settle, Unwind, Terminated, Goto, LocalsOK, ThreadOK, InHandler, HandlerPlaces,
       EndPlaces
  <2>2. /\ \E v : fsm' = [fsm EXCEPT ![d] = v]
        /\ source' = [source EXCEPT ![d] = "unplugged"]
        /\ mail' = mail \/ \E v : mail' = [mail EXCEPT ![d] = v]
        /\ deferred \ {d} \subseteq deferred'
    BY <1>10, <2>1 DEF Settle, Unwind, Terminated
  <2>3. CASE c # d
    <3>1. fsm'[c] = fsm[c] /\ source'[c] = source[c] /\ mail'[c] = mail[c]
          /\ (c \in deferred => c \in deferred')
      BY <1>0, <2>2, <2>3 DEF SharedOK, SourceOK
    <3> QED
      BY <1>3, <2>1, <2>3, <3>1 DEF Doomed
  <2>4. CASE c = d /\ ~Settle(t)
    <3>1. \E v \in {"connecting", "query", "terminated"} : fsm' = [fsm EXCEPT ![d] = v]
      BY <1>10, <2>1, <2>4 DEF Unwind, Terminated
    <3> QED
      BY <1>0, <1>4, <2>4, <3>1 DEF SharedOK
  <2>5. CASE c = d /\ Settle(t)
    <3>1. /\ \/ /\ pc'[t] = "erase" /\ conn'[t] = c
             \/ fsm' = [fsm EXCEPT ![d] = "query"]
             \/ ~Doomed(c)
          /\ pc[t] = "settle"
          /\ fsm[c] = "entering" \/ source[c] = "idle"
      BY <1>0, <2>1, <2>5 DEF Settle, Goto, Terminating, Doomed, LocalsOK
    <3>2. CASE pc'[t] = "erase" /\ conn'[t] = c
      BY <3>2 DEF Covered, Learning
    <3>3. CASE fsm' = [fsm EXCEPT ![d] = "query"]
      BY <1>0, <1>4, <2>5, <3>3 DEF SharedOK
    <3>4. CASE ~Doomed(c)
      <4>1. fsm[c] \in {"entering", "ending"}
        BY <1>0, <2>1, <2>5, NoneAssumption DEF ThreadOK
      <4>2. \A u \in Threads : conn[u] = c => pc[u] \notin Learning
        BY <2>1, <2>5, <3>1, NoneAssumption DEF PlaceOK, OwnedOK, Learning
      <4>3. PICK u \in Threads : pc[u] = "sweeping" /\ c \in todo[u]
        BY <1>2, <3>1, <3>4, <4>1, <4>2 DEF Covered
      <4>4. pc'[u] = "sweeping" /\ c \in todo'[u]
        BY <1>1, <4>3 DEF Only
      <4> QED
        BY <4>4 DEF Covered
    <3> QED
      BY <3>1, <3>2, <3>3, <3>4
  <2> QED
    BY <2>3, <2>4, <2>5
<1> QED
  BY <1>5, <1>6, <1>7, <1>8, <1>9, <1>10

\* Every step keeps the early connections the only ones that can go astray.
LEMMA StrayStep ==
  ASSUME PlaceOK, SourceOK, OpenInv, ToldInv, StrayInv, NEW t \in Threads, Begin(t) \/ Continue(t)
  PROVE  StrayInv'
<1>1. Only(t)
  BY PlaceStep
<1> DEFINE Busy ==
  \/ Execute(t) \/ Create(t) \/ List(t)
  \/ SweepNone(t) \/ SweepCopies(t) \/ SweepOne(t) \/ SweepUnlocks(t)
  \/ \E c \in Conns : Answer(t, c) \/ Fail(t, c)
  \/ NextEvent(t) \/ Settle(t) \/ Unwind(t) \/ Erase(t) \/ Terminated(t)
<1>2. CASE Busy
  BY <1>1, <1>2, ListedStep, IdleStep, SweptSweeps, SweptStep DEF StrayInv
<1>3. SteadyStep(t) \/ Busy
  BY SteadyUser, SteadyHandler DEF Begin, Continue
<1> HIDE DEF Busy
<1> QED
  BY <1>1, <1>2, <1>3, StraySteady

\* At first there is one connection, which is listed and connects.
LEMMA StrayInit == Init => StrayInv
<1> SUFFICES ASSUME Init PROVE StrayInv
  OBVIOUS
<1>1. ListedOK
  BY DEF Init, ListedOK, Live
<1>2. IdleOK /\ SweptOK
  BY DEF Init, IdleOK, SweptOK
<1> QED
  BY <1>1, <1>2 DEF StrayInv

\* StrayInv is inductive relative to what is known of the places and of the pool's end.
LEMMA StrayNext == PlaceOK /\ SourceOK /\ OpenInv /\ ToldInv /\ StrayInv /\ [Next]_vars => StrayInv'
<1> SUFFICES ASSUME PlaceOK, SourceOK, OpenInv, ToldInv, StrayInv, [Next]_vars PROVE StrayInv'
  OBVIOUS
<1>1. CASE UNCHANGED vars
  <2>1. UNCHANGED <<connections, closed, fsm, deferred, mail, source, pc, conn, target, todo, early, swept>>
    BY <1>1 DEF vars, shared, poolVars, closeVars, machineVars, linkVars, locals, history
  <2>2. ListedOK' /\ IdleOK'
    BY <2>1 DEF StrayInv, ListedOK, Live, IdleOK, Doomed
  <2>3. \A c : Covered(c) => Covered(c)'
    BY <2>1 DEF Covered, Doomed
  <2>4. SweptOK'
    BY <2>1, <2>3 DEF StrayInv, SweptOK
  <2> QED
    BY <2>2, <2>4 DEF StrayInv
<1> QED
  BY <1>1, StrayStep DEF Next

\* Only a connection whose handler began before create_new_connection had put it in
\* connections_ can stay there when it is dead, live on without being there, or be
\* left idle in a closed pool that close_connections has gone through.
THEOREM OnlyEarlyStrayCorrect == Spec => []OnlyEarlyStray
<1>1. PlaceOK /\ OpenInv /\ StrayInv => OnlyEarlyStray
  <2> SUFFICES ASSUME PlaceOK, OpenInv, StrayInv, Quiet, NEW c \in Conns \ early
               PROVE  /\ c \in connections <=> c \in Live
                      /\ swept /\ closed => fsm[c] # "idle"
    BY DEF OnlyEarlyStray
  <2>1. c \in connections => c \in Live
    BY DEF StrayInv, ListedOK
  <2>2. c \in Live => c \in connections
    BY DEF OpenInv, Open, Between, Quiet
  <2>3. ASSUME swept, closed, fsm[c] = "idle" PROVE FALSE
    <3>1. Covered(c) /\ ~Doomed(c)
      BY <2>3 DEF StrayInv, SweptOK, IdleOK
    <3> QED
      BY <2>3, <3>1 DEF Covered, Quiet, Learning
  <2> QED
    BY <2>1, <2>2, <2>3
<1> QED
  BY <1>1, StrayInit, StrayNext, PlaceInvariant, SourceInvariant, OpenInvariant, ToldInvariant, PTL DEF Spec

-----------------------------------------------------------------------------
(* Where the requests are.                                                 *)

\* Every place that can hold a request is a pocket, of a kind and an owner.
Kinds == {"queue", "mail", "inflight", "req", "over"}
Owners(k) ==
  IF k = "req" THEN Threads ELSE IF k \in {"mail", "inflight"} THEN Conns ELSE {None}
Pocket(k, x) ==
  IF k = "queue" THEN Elements(queue) \ {None}
  ELSE IF k = "mail" THEN Elements(mail[x]) \ {None}
  ELSE IF k = "inflight" THEN {inflight[x]} \ {None}
  ELSE IF k = "req" THEN {req[x]} \ {None}
  ELSE over

\* No sequence holds a request twice, and no two pockets hold the same one.
Distinct(s) == \A i, j \in 1..Len(s) : s[i] = s[j] /\ s[i] # None => i = j
Apart ==
  \A k, l \in Kinds : \A x \in Owners(k), y \in Owners(l) :
    k # l \/ x # y => Pocket(k, x) \cap Pocket(l, y) = {}

OnceInv ==
  /\ Apart
  /\ Distinct(queue)
  /\ \A c \in Conns : Distinct(mail[c])

\* Something is appended to a sequence that does not hold it.
LEMMA DistinctAppend ==
  ASSUME NEW S, NEW s \in Seq(S), NEW x \in S, Distinct(s), x = None \/ x \notin Elements(s)
  PROVE  /\ Distinct(Append(s, x))
         /\ Elements(Append(s, x)) \subseteq Elements(s) \cup {x}
<1>1. /\ Len(s) \in Nat
      /\ Len(Append(s, x)) = Len(s) + 1
      /\ \A i \in 1..Len(s) : Append(s, x)[i] = s[i]
      /\ Append(s, x)[Len(s) + 1] = x
  OBVIOUS
<1>2. \A i \in 1..Len(s) + 1 : i \in 1..Len(s) \/ i = Len(s) + 1
  BY <1>1
<1>3. PICK a : a = Append(s, x)
  OBVIOUS
<1>4. Elements(a) \subseteq Elements(s) \cup {x}
  BY <1>1, <1>2, <1>3 DEF Elements
<1>5. Distinct(a)
  <2>1. \A i \in 1..Len(s) : s[i] = x => x = None
    BY DEF Elements
  <2> QED
    BY <1>1, <1>2, <1>3, <2>1 DEF Distinct
<1> QED
  BY <1>3, <1>4, <1>5

\* The first element is taken from a sequence.
LEMMA DistinctTail ==
  ASSUME NEW S, NEW s \in Seq(S), s # <<>>, Distinct(s)
  PROVE  /\ Distinct(Tail(s)) /\ Head(s) \in Elements(s)
         /\ Elements(Tail(s)) \ {None} \subseteq Elements(s) \ {Head(s)}
<1>1. /\ Len(s) \in Nat \ {0}
      /\ Len(Tail(s)) = Len(s) - 1
      /\ \A i \in 1..Len(Tail(s)) : Tail(s)[i] = s[i + 1]
      /\ Head(s) = s[1]
  OBVIOUS
<1>2. \A i \in 1..Len(s) - 1 : i + 1 \in 1..Len(s) /\ i + 1 # 1
  BY <1>1
<1>3. PICK a : a = Tail(s)
  OBVIOUS
<1>4. Elements(a) \ {None} \subseteq Elements(s) \ {Head(s)}
  BY <1>1, <1>2, <1>3 DEF Elements, Distinct
<1>5. Distinct(a)
  BY <1>1, <1>2, <1>3 DEF Distinct
<1>6. Head(s) \in Elements(s)
  BY <1>1 DEF Elements
<1> QED
  BY <1>3, <1>4, <1>5, <1>6

\* What X holds leaves every pocket but one.
LEMMA Move ==
  ASSUME Apart, NEW X, NEW k \in Kinds, NEW x \in Owners(k),
         Pocket(k, x)' \subseteq Pocket(k, x) \cup X,
         \A l \in Kinds : \A y \in Owners(l) :
           l # k \/ y # x => Pocket(l, y)' \subseteq Pocket(l, y) \ X
  PROVE  Apart'
<1> SUFFICES ASSUME NEW l \in Kinds, NEW m \in Kinds, NEW y \in Owners(l), NEW z \in Owners(m),
                    l # m \/ y # z
             PROVE  Pocket(l, y)' \cap Pocket(m, z)' = {}
  BY DEF Apart, Owners
<1>1. Pocket(l, y) \cap Pocket(m, z) = {}
  BY DEF Apart
<1> QED
  BY <1>1

\* X, or part of it, goes from the pocket of y to that of x, and nothing comes to the others.
Moves(X, k, x, l, y) ==
  /\ X \subseteq Pocket(l, y)
  /\ k # l \/ x # y
  /\ Pocket(k, x)' \subseteq Pocket(k, x) \cup X
  /\ Pocket(l, y)' \subseteq Pocket(l, y) \ X
  /\ \A m \in Kinds : \A z \in Owners(m) :
       (m # k \/ z # x) /\ (m # l \/ z # y) => Pocket(m, z)' \subseteq Pocket(m, z)

\* ... which it comes from, if it was in any.
LEMMA Moved ==
  ASSUME Apart, NEW X, NEW k \in Kinds, NEW x \in Owners(k), NEW l \in Kinds, NEW y \in Owners(l),
         Moves(X, k, x, l, y)
  PROVE  Apart'
<1> USE DEF Moves
<1>1. ASSUME NEW m \in Kinds, NEW z \in Owners(m), m # k \/ z # x
      PROVE  Pocket(m, z)' \subseteq Pocket(m, z) \ X
  <2>1. CASE m = l /\ z = y
    BY <2>1
  <2>2. CASE m # l \/ z # y
    BY <1>1, <2>2 DEF Apart
  <2> QED
    BY <2>1, <2>2
<1> SUFFICES ASSUME NEW m \in Kinds, NEW n \in Kinds, NEW z \in Owners(m), NEW w \in Owners(n),
                    m # n \/ z # w
             PROVE  Pocket(m, z)' \cap Pocket(n, w)' = {}
  BY DEF Apart, Owners
<1>2. Pocket(m, z) \cap Pocket(n, w) = {}
  BY DEF Apart
<1>3. CASE m = k /\ z = x
  <2>1. Pocket(n, w)' \subseteq Pocket(n, w) \ X
    BY <1>1, <1>3
  <2> QED
    BY <1>2, <1>3, <2>1
<1>4. CASE n = k /\ w = x
  <2>1. Pocket(m, z)' \subseteq Pocket(m, z) \ X
    BY <1>1, <1>4
  <2> QED
    BY <1>2, <1>4, <2>1
<1>5. CASE (m # k \/ z # x) /\ (n # k \/ w # x)
  <2>1. Pocket(m, z)' \subseteq Pocket(m, z) /\ Pocket(n, w)' \subseteq Pocket(n, w)
    BY <1>1, <1>5
  <2> QED
    BY <1>2, <2>1
<1> QED
  BY <1>3, <1>4, <1>5

LEMMA MoveFrom ==
  ASSUME Apart, NEW X, NEW k \in Kinds, NEW x \in Owners(k), NEW l \in Kinds, NEW y \in Owners(l),
         X \subseteq Pocket(l, y),
         k # l \/ x # y,
         Pocket(k, x)' \subseteq Pocket(k, x) \cup X,
         Pocket(l, y)' \subseteq Pocket(l, y) \ X,
         \A m \in Kinds : \A z \in Owners(m) :
           (m # k \/ z # x) /\ (m # l \/ z # y) => Pocket(m, z)' \subseteq Pocket(m, z)
  PROVE  Apart'
<1>1. Moves(X, k, x, l, y)
  BY DEF Moves
<1> QED
  BY <1>1, Moved, Zenon

\* What the pockets of kind k hold stays.
Kept(k) == \A x \in Owners(k) : Pocket(k, x)' = Pocket(k, x)

\* A variable that does not change keeps its pockets as they are.
LEMMA Keeping ==
  /\ UNCHANGED queue => Kept("queue") /\ (Distinct(queue) => Distinct(queue)')
  /\ UNCHANGED mail => Kept("mail")
                       /\ \A c \in Conns : Distinct(mail[c]) => Distinct(mail[c])'
  /\ UNCHANGED inflight => Kept("inflight")
  /\ UNCHANGED req => Kept("req")
  /\ UNCHANGED over => Kept("over")
<1>1. ASSUME UNCHANGED queue PROVE Kept("queue") /\ (Distinct(queue) => Distinct(queue)')
  BY <1>1 DEF Kept, Pocket, Owners, Elements, Distinct
<1>2. ASSUME UNCHANGED mail
      PROVE  Kept("mail") /\ \A c \in Conns : Distinct(mail[c]) => Distinct(mail[c])'
  BY <1>2 DEF Kept, Pocket, Owners, Elements, Distinct
<1>3. ASSUME UNCHANGED inflight PROVE Kept("inflight")
  BY <1>3 DEF Kept, Pocket, Owners
<1>4. ASSUME UNCHANGED req PROVE Kept("req")
  BY <1>4 DEF Kept, Pocket, Owners
<1>5. ASSUME UNCHANGED over PROVE Kept("over")
  BY <1>5 DEF Kept, Pocket, Owners
<1> QED
  BY <1>1, <1>2, <1>3, <1>4, <1>5

\* A thread takes a request in hand, or gives it away.
LEMMA SetReq ==
  ASSUME LocalsOK, NEW t \in Threads, NEW v, req' = [req EXCEPT ![t] = v]
  PROVE  /\ Pocket("req", t)' = {v} \ {None}
         /\ \A u \in Owners("req") : u # t => Pocket("req", u)' = Pocket("req", u)
  BY DEF LocalsOK, Pocket, Owners

\* A machine is at work with a request, or no more.
LEMMA SetInflight ==
  ASSUME SharedOK, NEW c \in Conns, NEW v, inflight' = [inflight EXCEPT ![c] = v]
  PROVE  /\ Pocket("inflight", c)' = {v} \ {None}
         /\ \A d \in Owners("inflight") : d # c => Pocket("inflight", d)' = Pocket("inflight", d)
  BY DEF SharedOK, Pocket, Owners

\* The mail of one machine changes.
LEMMA SetMail ==
  ASSUME SharedOK, NEW c \in Conns, NEW s, mail' = [mail EXCEPT ![c] = s],
         \A d \in Conns : Distinct(mail[d]), Distinct(s)
  PROVE  /\ Pocket("mail", c)' = Elements(s) \ {None}
         /\ \A d \in Owners("mail") : d # c => Pocket("mail", d)' = Pocket("mail", d)
         /\ \A d \in Conns : Distinct(mail[d])'
<1>1. mail'[c] = s /\ \A d \in Conns \ {c} : mail'[d] = mail[d]
  BY DEF SharedOK
<1>2. Pocket("mail", c)' = Elements(s) \ {None}
  BY <1>1, Zenon DEF Pocket, Elements
<1>3. \A d \in Owners("mail") : d # c => Pocket("mail", d)' = Pocket("mail", d)
  BY <1>1 DEF Pocket, Owners, Elements
<1>4. \A d \in Conns : Distinct(mail[d])'
  BY <1>1 DEF Distinct
<1> QED
  BY <1>2, <1>3, <1>4

\* A machine is mailed a request that no other machine has.
LEMMA AppendMail ==
  ASSUME SharedOK, OnceInv, NEW c \in Conns, NEW r \in Requests \cup {None},
         r = None \/ r \notin Pocket("mail", c),
         mail' = [mail EXCEPT ![c] = Append(@, r)]
  PROVE  /\ Pocket("mail", c)' \subseteq Pocket("mail", c) \cup ({r} \ {None})
         /\ \A d \in Owners("mail") : d # c => Pocket("mail", d)' = Pocket("mail", d)
         /\ \A d \in Conns : Distinct(mail[d])'
<1>1. mail[c] \in Seq(Requests \cup {None}) /\ Distinct(mail[c])
  BY DEF SharedOK, OnceInv
<1>2. r = None \/ r \notin Elements(mail[c])
  BY DEF Pocket
<1>3. PICK s : s = Append(mail[c], r)
  OBVIOUS
<1>4. Distinct(s) /\ Elements(s) \subseteq Elements(mail[c]) \cup {r}
  BY <1>1, <1>2, <1>3, DistinctAppend
<1>5. mail' = [mail EXCEPT ![c] = s]
  BY <1>3, Zenon
<1>6. /\ Pocket("mail", c)' = Elements(s) \ {None}
      /\ \A d \in Owners("mail") : d # c => Pocket("mail", d)' = Pocket("mail", d)
      /\ \A d \in Conns : Distinct(mail[d])'
  BY <1>4, <1>5, SetMail DEF OnceInv
<1>7. Pocket("mail", c) = Elements(mail[c]) \ {None}
  BY DEF Pocket
<1> QED
  BY <1>4, <1>6, <1>7

\* get_connection takes a new request in hand, and hands it on.
LEMMA OnceGets ==
  ASSUME PlaceOK, OnceInv, NEW t \in Threads,
         \/ \E r \in Requests : Refuse(t, r) \/ Submit(t, r)
         \/ Execute(t) \/ Enqueue(t)
  PROVE  OnceInv'
<1>0. LocalsOK /\ SharedOK /\ ThreadOK(t)
  BY DEF PlaceOK
<1> USE DEF Kinds
<1>1. ASSUME NEW r \in Requests, Refuse(t, r) \/ Submit(t, r)
      PROVE  OnceInv'
  <2>1. \A l \in Kinds : \A y \in Owners(l) : r \notin Pocket(l, y)
    <3>1. r \notin over /\ r \notin Elements(queue) /\ (\A c \in Conns : r \notin Elements(mail[c]))
          /\ (\A c \in Conns : r # inflight[c]) /\ (\A u \in Threads : r # req[u])
      BY <1>1 DEF Refuse, Submit, Submitted
    <3> QED
      BY <3>1 DEF Pocket, Owners
  <2>2. r # None /\ UNCHANGED <<queue, mail, inflight>>
    BY <1>1, NoneAssumption DEF Refuse, Submit, shared, poolVars, machineVars
  <2>3. CASE Refuse(t, r)
    <3>1. over' = over \cup {r} /\ UNCHANGED req
      BY <2>3 DEF Refuse, locals
    <3>2. Pocket("over", None)' \subseteq Pocket("over", None) \cup {r}
      BY <3>1 DEF Pocket
    <3>3. \A l \in Kinds : \A y \in Owners(l) :
            l # "over" \/ y # None => Pocket(l, y)' \subseteq Pocket(l, y) \ {r}
      BY <2>1, <2>2, <3>1, Keeping DEF Kept, Owners
    <3>4. Apart'
      BY <3>2, <3>3, Move DEF OnceInv, Owners
    <3> QED
      BY <2>2, <3>4, Keeping DEF OnceInv
  <2>4. CASE Submit(t, r)
    <3>1. req' = [req EXCEPT ![t] = r] /\ UNCHANGED over
      BY <2>4 DEF Submit, history
    <3>2. /\ Pocket("req", t)' = {r} \ {None}
          /\ \A u \in Owners("req") : u # t => Pocket("req", u)' = Pocket("req", u)
      BY <1>0, <3>1, SetReq, Zenon
    <3>3. \A l \in Kinds : \A y \in Owners(l) :
            l # "req" \/ y # t => Pocket(l, y)' \subseteq Pocket(l, y) \ {r}
      BY <2>1, <2>2, <3>1, <3>2, Keeping DEF Kept
    <3>4. Pocket("req", t)' \subseteq Pocket("req", t) \cup {r} /\ t \in Owners("req") /\ Apart
      BY <3>2 DEF OnceInv, Owners
    <3>5. Apart'
      BY <3>3, <3>4, Move
    <3> QED
      BY <2>2, <3>5, Keeping DEF OnceInv
  <2> QED
    BY <1>1, <2>3, <2>4
<1>2. ASSUME Execute(t) \/ Enqueue(t)
      PROVE  /\ req' = [req EXCEPT ![t] = None] /\ req[t] \in Requests /\ req[t] # None
             /\ {req[t]} \subseteq Pocket("req", t)
             /\ Pocket("req", t)' \subseteq Pocket("req", t) \ {req[t]}
             /\ \A u \in Owners("req") : u # t => Pocket("req", u)' = Pocket("req", u)
             /\ t \in Owners("req")
             /\ \A l \in Kinds : \A y \in Owners(l) : l # "req" => req[t] \notin Pocket(l, y)
  <2>1. req' = [req EXCEPT ![t] = None] /\ pc[t] \in GetPlaces
    BY <1>2 DEF Execute, Enqueue, Return, Goto, GetPlaces
  <2>2. req[t] \in Requests /\ req[t] # None /\ {req[t]} \subseteq Pocket("req", t)
    BY <1>0, <2>1 DEF LocalsOK, ThreadOK, Pocket
  <2>3. /\ Pocket("req", t)' \subseteq Pocket("req", t) \ {req[t]}
        /\ \A u \in Owners("req") : u # t => Pocket("req", u)' = Pocket("req", u)
    BY <1>0, <2>1, SetReq
  <2>4. \A l \in Kinds : \A y \in Owners(l) : l # "req" => req[t] \notin Pocket(l, y)
    BY <2>2 DEF OnceInv, Apart, Owners
  <2> QED
    BY <2>1, <2>2, <2>3, <2>4 DEF Owners
<1>3. CASE Enqueue(t)
  <2>1. queue' = Append(queue, req[t]) /\ UNCHANGED <<mail, inflight, over>>
    BY <1>3 DEF Enqueue, machineVars, history
  <2>2. req[t] \notin Elements(queue) /\ queue \in Seq(Requests) /\ req[t] \in Requests
    BY <1>0, <1>2, <1>3 DEF Owners, Pocket, SharedOK
  <2>3. Distinct(queue)' /\ Elements(queue)' \subseteq Elements(queue) \cup {req[t]}
    <3>1. PICK s : s = Append(queue, req[t])
      OBVIOUS
    <3>2. Distinct(s) /\ Elements(s) \subseteq Elements(queue) \cup {req[t]}
      BY <2>2, <3>1, DistinctAppend DEF OnceInv
    <3>3. queue' = s
      BY <2>1, <3>1
    <3> QED
      BY <3>2, <3>3 DEF Distinct, Elements
  <2>4. Pocket("queue", None)' \subseteq Pocket("queue", None) \cup {req[t]}
    BY <2>3 DEF Pocket
  <2>5. \A l \in Kinds : \A y \in Owners(l) :
          (l # "queue" \/ y # None) /\ (l # "req" \/ y # t) => Pocket(l, y)' \subseteq Pocket(l, y)
    BY <1>2, <1>3, <2>1, Keeping DEF Kept, Owners
  <2>6. Apart'
    BY <1>2, <1>3, <2>4, <2>5, MoveFrom DEF OnceInv, Owners
  <2> QED
    BY <2>1, <2>3, <2>6, Keeping DEF OnceInv
<1>4. CASE Execute(t)
  <2>1. PICK c \in Conns : c = target[t]
    BY <1>0, <1>4 DEF Execute, Return, Goto, LocalsOK, ThreadOK
  <2>2. PICK r \in Requests : r = req[t]
    BY <1>2, <1>4
  <2>3. /\ r # None /\ {r} \subseteq Pocket("req", t)
        /\ Pocket("req", t)' \subseteq Pocket("req", t) \ {r}
        /\ \A u \in Owners("req") : u # t => Pocket("req", u)' = Pocket("req", u)
        /\ t \in Owners("req") /\ Apart
        /\ \A l \in Kinds : \A y \in Owners(l) : l # "req" => r \notin Pocket(l, y)
    BY <1>2, <1>4, <2>2 DEF OnceInv
  <2>4. UNCHANGED queue
    BY <1>4 DEF Execute, poolVars
  <2>5. CASE inflight' = [inflight EXCEPT ![c] = r] /\ UNCHANGED <<mail, over>>
    <3>1. /\ Pocket("inflight", c)' = {r} \ {None}
          /\ \A d \in Owners("inflight") : d # c => Pocket("inflight", d)' = Pocket("inflight", d)
      BY <1>0, <2>5, SetInflight, Zenon
    <3>2. \A l \in Kinds : \A y \in Owners(l) :
            (l # "inflight" \/ y # c) /\ (l # "req" \/ y # t) => Pocket(l, y)' \subseteq Pocket(l, y)
      BY <2>3, <2>4, <2>5, <3>1, Keeping DEF Kept
    <3>3. Apart'
      <4>1. c \in Owners("inflight") /\ "inflight" \in Kinds /\ "req" \in Kinds /\ "inflight" # "req"
        BY DEF Owners, Kinds
      <4>2. Pocket("inflight", c)' \subseteq Pocket("inflight", c) \cup {r}
        BY <3>1
      <4>3. Moves({r}, "inflight", c, "req", t)
        BY <2>3, <3>2, <4>1, <4>2 DEF Moves
      <4> QED
        BY <2>3, <4>1, <4>3, Moved, Zenon
    <3> QED
      BY <2>4, <2>5, <3>3, Keeping DEF OnceInv
  <2>6. CASE mail' = [mail EXCEPT ![c] = Append(@, r)] /\ UNCHANGED <<inflight, over>>
    <3>1. r \notin Pocket("mail", c)
      <4>1. "mail" \in Kinds /\ c \in Owners("mail") /\ "mail" # "req"
        BY DEF Owners
      <4>2. \A l \in Kinds : \A y \in Owners(l) : l # "req" => r \notin Pocket(l, y)
        BY <2>3
      <4> HIDE DEF Kinds
      <4> QED
        BY ONLY <4>1, <4>2
    <3>2. /\ Pocket("mail", c)' \subseteq Pocket("mail", c) \cup {r}
          /\ \A d \in Owners("mail") : d # c => Pocket("mail", d)' = Pocket("mail", d)
          /\ \A d \in Conns : Distinct(mail[d])'
      <4>1. r \in Requests \cup {None}
        OBVIOUS
      <4>2. PICK x \in Requests \cup {None} : x = r
        BY <4>1
      <4>3. /\ Pocket("mail", c)' \subseteq Pocket("mail", c) \cup ({x} \ {None})
            /\ \A d \in Owners("mail") : d # c => Pocket("mail", d)' = Pocket("mail", d)
            /\ \A d \in Conns : Distinct(mail[d])'
        BY <1>0, <2>6, <3>1, <4>2, AppendMail
      <4> QED
        BY <4>2, <4>3
    <3>3. \A l \in Kinds : \A y \in Owners(l) :
            (l # "mail" \/ y # c) /\ (l # "req" \/ y # t) => Pocket(l, y)' \subseteq Pocket(l, y)
      BY <2>3, <2>4, <2>6, <3>2, Keeping DEF Kept
    <3>4. Apart'
      <4>1. c \in Owners("mail") /\ "mail" \in Kinds /\ "req" \in Kinds /\ "mail" # "req"
        BY DEF Owners, Kinds
      <4>2. Moves({r}, "mail", c, "req", t)
        BY <2>3, <3>2, <3>3, <4>1 DEF Moves
      <4> QED
        BY <2>3, <4>1, <4>2, Moved, Zenon
    <3> QED
      BY <2>4, <3>2, <3>4, Keeping DEF OnceInv
  <2>7. CASE over' = over \cup {r} /\ UNCHANGED <<inflight, mail>>
    <3>1. Pocket("over", None)' \subseteq Pocket("over", None) \cup {r}
      BY <2>7 DEF Pocket
    <3>2. \A l \in Kinds : \A y \in Owners(l) :
            (l # "over" \/ y # None) /\ (l # "req" \/ y # t) => Pocket(l, y)' \subseteq Pocket(l, y)
      BY <2>3, <2>4, <2>7, Keeping DEF Kept, Owners
    <3>3. Apart'
      BY <2>3, <3>1, <3>2, MoveFrom DEF OnceInv, Owners
    <3> QED
      BY <2>4, <2>7, <3>3, Keeping DEF OnceInv
  <2> QED
    BY <1>4, <2>1, <2>2, <2>5, <2>6, <2>7 DEF Execute
<1> QED
  BY <1>1, <1>3, <1>4

\* A waiting request leaves queue_.
LEMMA TakeNext ==
  ASSUME PlaceOK, OnceInv, queue # <<>>, queue' = Tail(queue)
  PROVE  /\ Head(queue) \in Requests /\ Head(queue) # None
         /\ {Head(queue)} \subseteq Pocket("queue", None)
         /\ Pocket("queue", None)' \subseteq Pocket("queue", None) \ {Head(queue)}
         /\ Distinct(queue)'
<1>1. queue \in Seq(Requests) /\ Distinct(queue)
  BY DEF PlaceOK, SharedOK, OnceInv
<1>2. PICK s : s = Tail(queue)
  OBVIOUS
<1>3. /\ Distinct(s) /\ Head(queue) \in Elements(queue)
      /\ Elements(s) \ {None} \subseteq Elements(queue) \ {Head(queue)}
  BY <1>1, <1>2, DistinctTail
<1>4. queue' = s
  BY <1>2
<1>5. Head(queue) \in Requests
  BY <1>1
<1>6. Head(queue) # None
  BY <1>5, NoneAssumption
<1>7. Distinct(queue)'
  BY <1>3, <1>4 DEF Distinct
<1>8. /\ {Head(queue)} \subseteq Pocket("queue", None)
      /\ Pocket("queue", None)' \subseteq Pocket("queue", None) \ {Head(queue)}
  BY <1>3, <1>4, <1>6 DEF Pocket, Elements
<1> QED
  BY <1>5, <1>6, <1>7, <1>8

\* next_event and clear_queue.
LEMMA OnceTakes ==
  ASSUME PlaceOK, OnceInv, NEW t \in Threads, NextEvent(t) \/ ClearNext(t)
  PROVE  OnceInv'
<1>0. LocalsOK /\ SharedOK /\ ThreadOK(t) /\ Apart /\ "queue" \in Kinds /\ None \in Owners("queue")
  BY DEF PlaceOK, OnceInv, Kinds, Owners
<1> USE DEF Kinds
<1>1. queue # <<>> /\ queue' = Tail(queue) /\ UNCHANGED <<inflight, req>>
  BY DEF NextEvent, ClearNext, machineVars, locals
<1>2. PICK r \in Requests : r = Head(queue)
  BY <1>1, TakeNext
<1>3. /\ r # None /\ {r} \subseteq Pocket("queue", None)
      /\ Pocket("queue", None)' \subseteq Pocket("queue", None) \ {r}
      /\ Distinct(queue)'
  BY <1>1, <1>2, TakeNext
<1>4. CASE ClearNext(t)
  <2>1. over' = over \cup {r} /\ UNCHANGED mail
    BY <1>2, <1>4 DEF ClearNext, machineVars
  <2>2. Pocket("over", None)' \subseteq Pocket("over", None) \cup {r}
    BY <2>1 DEF Pocket
  <2>3. \A l \in Kinds : \A y \in Owners(l) :
          (l # "over" \/ y # None) /\ (l # "queue" \/ y # None) => Pocket(l, y)' \subseteq Pocket(l, y)
    BY <1>1, <2>1, Keeping DEF Kept, Owners
  <2>4. None \in Owners("over")
    BY DEF Owners
  <2>5. Apart'
    BY <1>0, <1>3, <2>2, <2>3, <2>4, MoveFrom
  <2> QED
    BY <1>3, <2>1, <2>5, Keeping DEF OnceInv
<1>5. CASE NextEvent(t)
  <2>1. PICK c \in Conns : c = conn[t]
    BY <1>0, <1>5 DEF NextEvent, Goto, LocalsOK, ThreadOK, InHandler, HandlerPlaces, ReadyPlaces
  <2>2. mail' = [mail EXCEPT ![c] = Append(@, r)] /\ UNCHANGED over
    BY <1>2, <1>5, <2>1 DEF NextEvent, history
  <2>3. c \in Owners("mail") /\ r \notin Pocket("mail", c) /\ r \in Requests \cup {None}
    BY <1>0, <1>3 DEF Apart, Owners
  <2>4. /\ Pocket("mail", c)' \subseteq Pocket("mail", c) \cup ({r} \ {None})
        /\ \A d \in Owners("mail") : d # c => Pocket("mail", d)' = Pocket("mail", d)
        /\ \A d \in Conns : Distinct(mail[d])'
    BY <1>0, <2>2, <2>3, AppendMail
  <2>5. \A l \in Kinds : \A y \in Owners(l) :
          (l # "mail" \/ y # c) /\ (l # "queue" \/ y # None) => Pocket(l, y)' \subseteq Pocket(l, y)
    BY <1>1, <2>2, <2>4, Keeping DEF Kept, Owners
  <2>6. Pocket("mail", c)' \subseteq Pocket("mail", c) \cup {r}
    BY <2>4
  <2>7. Apart'
    BY <1>0, <1>3, <2>3, <2>5, <2>6, MoveFrom
  <2> QED
    BY <1>3, <2>4, <2>7 DEF OnceInv
<1> QED
  BY <1>4, <1>5

\* A handler ends what its machine was at work with.
LEMMA OnceStarts ==
  ASSUME PlaceOK, OnceInv, NEW t \in Threads, NEW c \in Conns, Answer(t, c) \/ Fail(t, c)
  PROVE  OnceInv'
<1>0. SharedOK /\ Apart
  BY DEF PlaceOK, OnceInv
<1> USE DEF Kinds
<1> DEFINE X == {inflight[c]} \ {None}
<1>1. /\ over' = over \cup X /\ inflight' = [inflight EXCEPT ![c] = None]
      /\ UNCHANGED <<queue, mail, req>>
  BY DEF Answer, Fail, Start, poolVars
<1>2. Pocket("over", None)' \subseteq Pocket("over", None) \cup X /\ X \subseteq Pocket("inflight", c)
  BY <1>1 DEF Pocket
<1>3. /\ Pocket("inflight", c)' = {None} \ {None}
      /\ \A d \in Owners("inflight") : d # c => Pocket("inflight", d)' = Pocket("inflight", d)
  BY <1>0, <1>1, SetInflight, Zenon
<1> HIDE DEF X
<1>4. \A l \in Kinds : \A y \in Owners(l) :
        (l # "over" \/ y # None) /\ (l # "inflight" \/ y # c) => Pocket(l, y)' \subseteq Pocket(l, y)
  BY <1>1, <1>3, Keeping DEF Kept, Owners
<1>5. /\ None \in Owners("over") /\ c \in Owners("inflight")
      /\ Pocket("inflight", c)' \subseteq Pocket("inflight", c) \ X
  BY <1>3 DEF Owners
<1>6. Apart'
  BY <1>0, <1>2, <1>4, <1>5, MoveFrom
<1> QED
  BY <1>1, <1>6, Keeping DEF OnceInv

\* What was mailed to a machine that stays or ends is lost.
LEMMA OnceEnds ==
  ASSUME PlaceOK, OnceInv, NEW t \in Threads, Unwind(t) \/ Terminated(t)
  PROVE  OnceInv'
<1>0. SharedOK /\ LocalsOK /\ ThreadOK(t) /\ Apart
  BY DEF PlaceOK, OnceInv
<1> USE DEF Kinds
<1>1. PICK c \in Conns : c = conn[t]
  BY <1>0 DEF Unwind, Terminated, Goto, LocalsOK, ThreadOK, InHandler, HandlerPlaces, EndPlaces
<1> DEFINE X == Elements(mail[c]) \ {None}
<1>2. /\ over' = over \cup X /\ mail' = [mail EXCEPT ![c] = <<>>]
      /\ UNCHANGED <<queue, inflight, req>>
  BY <1>1 DEF Unwind, Terminated, poolVars
<1>3. Pocket("over", None)' \subseteq Pocket("over", None) \cup X /\ X \subseteq Pocket("mail", c)
  BY <1>2 DEF Pocket
<1>4. PICK e : e = <<>>
  OBVIOUS
<1>5. Distinct(e) /\ Elements(e) = {}
  BY <1>4 DEF Distinct, Elements
<1>6. mail' = [mail EXCEPT ![c] = e]
  BY <1>2, <1>4, Zenon
<1>7. /\ Pocket("mail", c)' = Elements(e) \ {None}
      /\ \A d \in Owners("mail") : d # c => Pocket("mail", d)' = Pocket("mail", d)
      /\ \A d \in Conns : Distinct(mail[d])'
  BY <1>0, <1>5, <1>6, SetMail DEF OnceInv
<1> HIDE DEF X
<1>8. \A l \in Kinds : \A y \in Owners(l) :
        (l # "over" \/ y # None) /\ (l # "mail" \/ y # c) => Pocket(l, y)' \subseteq Pocket(l, y)
  BY <1>2, <1>7, Keeping DEF Kept, Owners
<1>9. None \in Owners("over") /\ c \in Owners("mail") /\ Pocket("mail", c)' = {}
  BY <1>5, <1>7 DEF Owners
<1>10. Apart'
  BY <1>0, <1>3, <1>8, <1>9, MoveFrom
<1> QED
  BY <1>2, <1>7, <1>10, Keeping DEF OnceInv

\* The machine goes on: the first of its mail is what it is at work with.
LEMMA OnceSettles ==
  ASSUME PlaceOK, OnceInv, NEW t \in Threads, Settle(t)
  PROVE  OnceInv'
<1>0. SharedOK /\ LocalsOK /\ ThreadOK(t) /\ Apart
  BY DEF PlaceOK, OnceInv
<1> USE DEF Kinds
<1>1. PICK c \in Conns : c = conn[t]
  BY <1>0 DEF Settle, Goto, LocalsOK, ThreadOK, InHandler, HandlerPlaces
<1>2. UNCHANGED <<queue, req, over>>
  BY DEF Settle, poolVars, history
<1>3. CASE UNCHANGED <<mail, inflight>>
  <2>1. \A l \in Kinds : \A y \in Owners(l) : Pocket(l, y)' = Pocket(l, y)
    BY <1>2, <1>3, Keeping DEF Kept
  <2>2. Apart'
    BY <1>0, <2>1 DEF Apart, Owners
  <2> QED
    BY <1>2, <1>3, <2>2, Keeping DEF OnceInv
<1>4. CASE /\ mail[c] # <<>> /\ mail' = [mail EXCEPT ![c] = Tail(@)]
           /\ inflight' = [inflight EXCEPT ![c] = Head(mail[c])]
  <2>1. PICK s \in Seq(Requests \cup {None}) : s = mail[c]
    BY <1>0 DEF SharedOK
  <2>2. PICK u : u = Tail(s)
    OBVIOUS
  <2>3. PICK r : r = Head(s)
    OBVIOUS
  <2>4. s # <<>> /\ Distinct(s)
    BY <1>4, <2>1 DEF OnceInv
  <2>5. Distinct(u) /\ r \in Elements(s) /\ Elements(u) \ {None} \subseteq Elements(s) \ {r}
    BY <2>2, <2>3, <2>4, DistinctTail
  <2>6. mail' = [mail EXCEPT ![c] = u] /\ inflight' = [inflight EXCEPT ![c] = r]
    BY <1>4, <2>1, <2>2, <2>3, Zenon
  <2>7. /\ Pocket("mail", c)' = Elements(u) \ {None}
        /\ \A d \in Owners("mail") : d # c => Pocket("mail", d)' = Pocket("mail", d)
        /\ \A d \in Conns : Distinct(mail[d])'
    BY <1>0, <2>5, <2>6, SetMail DEF OnceInv
  <2>8. /\ Pocket("inflight", c)' = {r} \ {None}
        /\ \A d \in Owners("inflight") : d # c => Pocket("inflight", d)' = Pocket("inflight", d)
    BY <1>0, <2>6, SetInflight, Zenon
  <2>9. PICK X : X = {r} \ {None}
    OBVIOUS
  <2>10. /\ X \subseteq Pocket("mail", c)
         /\ Pocket("mail", c)' \subseteq Pocket("mail", c) \ X
         /\ Pocket("inflight", c)' \subseteq Pocket("inflight", c) \cup X
    BY <2>1, <2>5, <2>7, <2>8, <2>9 DEF Pocket
  <2>11. \A l \in Kinds : \A y \in Owners(l) :
           (l # "inflight" \/ y # c) /\ (l # "mail" \/ y # c) => Pocket(l, y)' \subseteq Pocket(l, y)
    BY <1>2, <2>7, <2>8, Keeping DEF Kept
  <2>12. c \in Owners("inflight") /\ c \in Owners("mail")
    BY DEF Owners
  <2>13. Apart'
    BY <1>0, <2>10, <2>11, <2>12, MoveFrom
  <2> QED
    BY <1>2, <2>7, <2>13, Keeping DEF OnceInv
<1> QED
  BY <1>1, <1>3, <1>4 DEF Settle

\* A terminate is mailed, which is no request.
LEMMA OnceSweeps ==
  ASSUME PlaceOK, OnceInv, NEW t \in Threads, SweepOne(t)
  PROVE  OnceInv'
<1>0. SharedOK /\ LocalsOK /\ Apart
  BY DEF PlaceOK, OnceInv
<1> USE DEF Kinds
<1>1. PICK c \in todo[t] : mail' = mail \/ mail' = [mail EXCEPT ![c] = Append(@, None)]
  BY DEF SweepOne
<1>2. UNCHANGED <<queue, inflight, req, over>>
  BY DEF SweepOne, history
<1>3. c \in Conns
  BY <1>0 DEF LocalsOK
<1>4. /\ \A d \in Owners("mail") : Pocket("mail", d)' \subseteq Pocket("mail", d)
      /\ \A d \in Conns : Distinct(mail[d])'
  <2>1. CASE mail' = mail
    BY <2>1, Keeping DEF OnceInv, Kept
  <2>2. CASE mail' = [mail EXCEPT ![c] = Append(@, None)]
    <3>1. PICK x \in Requests \cup {None} : x = None
      OBVIOUS
    <3>2. mail' = [mail EXCEPT ![c] = Append(@, x)]
      BY <2>2, <3>1
    <3>3. /\ Pocket("mail", c)' \subseteq Pocket("mail", c) \cup ({x} \ {None})
          /\ \A d \in Owners("mail") : d # c => Pocket("mail", d)' = Pocket("mail", d)
          /\ \A d \in Conns : Distinct(mail[d])'
      BY <1>0, <1>3, <3>1, <3>2, AppendMail
    <3> QED
      BY <3>1, <3>3
  <2> QED
    BY <1>1, <2>1, <2>2
<1>5. \A l \in Kinds : \A y \in Owners(l) : Pocket(l, y)' \subseteq Pocket(l, y)
  BY <1>2, <1>4, Keeping DEF Kept
<1>6. Apart'
  BY <1>0, <1>5 DEF Apart, Owners
<1> QED
  BY <1>2, <1>4, <1>6, Keeping DEF OnceInv

\* The requests are left where they are.
LEMMA OnceSame ==
  ASSUME OnceInv, UNCHANGED <<queue, mail, inflight, req, over>>
  PROVE  OnceInv'
<1>1. \A l \in Kinds : \A y \in Owners(l) : Pocket(l, y)' = Pocket(l, y)
  BY Keeping DEF Kept, Kinds
<1>2. Apart'
  BY <1>1 DEF OnceInv, Apart, Owners
<1> QED
  BY <1>2, Keeping DEF OnceInv

\* All other steps leave the requests where they are.
LEMMA OnceStep ==
  ASSUME PlaceOK, OnceInv, NEW t \in Threads, Begin(t) \/ Continue(t)
  PROVE  OnceInv'
<1>1. UNCHANGED <<queue, mail, inflight, req, over>> => OnceInv'
  BY OnceSame
<1> USE DEF shared, poolVars, machineVars, locals, history
<1>2. CASE \/ GetIdle(t) \/ NoneIdle(t) \/ Grow(t) \/ CreateNone(t) \/ SweepSome(t)
           \/ NoEvent(t) \/ ReadyClosed(t) \/ ParkClosed(t) \/ CallbackReturns(t) \/ EraseNone(t)
  BY <1>1, <1>2 DEF GetIdle, NoneIdle, Grow, CreateNone, SweepSome, NoEvent, ReadyClosed,
     ParkClosed, CallbackReturns, EraseNone, Branch
<1>3. CASE PopIdle(t) \/ Create(t) \/ List(t) \/ PushIdle(t) \/ Erase(t)
  BY <1>1, <1>3 DEF PopIdle, Create, List, PushIdle, Erase
<1>4. CASE \/ Close(t) \/ CloseSetsCallback(t) \/ CloseLeaves(t) \/ CloseSweeps(t)
           \/ SweepNone(t) \/ SweepCopies(t) \/ SweepUnlocks(t) \/ SweepEnds(t)
  BY <1>1, <1>4 DEF Close, CloseSetsCallback, CloseLeaves, CloseSweeps, SweepNone, SweepCopies,
     SweepUnlocks, SweepEnds
<1>5. CASE ClearLocks(t) \/ CallbackThrows(t) \/ ClearEnds(t)
  BY <1>1, <1>5 DEF ClearLocks, CallbackThrows, ClearEnds
<1> QED
  BY <1>2, <1>3, <1>4, <1>5, OnceGets, OnceTakes, OnceStarts, OnceEnds, OnceSettles, OnceSweeps
  DEF Begin, Continue

\* At first there is no request.
LEMMA OnceInit == Init => OnceInv
<1> SUFFICES ASSUME Init PROVE OnceInv
  OBVIOUS
<1>1. queue = <<>> /\ (\A c \in Conns : mail[c] = <<>>)
  BY DEF Init
<1>2. Elements(queue) = {} /\ Distinct(queue)
  BY <1>1 DEF Elements, Distinct
<1>3. \A c \in Conns : Elements(mail[c]) = {} /\ Distinct(mail[c])
  BY <1>1 DEF Elements, Distinct
<1>4. \A l \in Kinds : \A y \in Owners(l) : Pocket(l, y) = {}
  BY <1>2, <1>3 DEF Init, Nobody, Kinds, Owners, Pocket
<1> QED
  BY <1>2, <1>3, <1>4 DEF OnceInv, Apart

\* OnceInv is inductive relative to PlaceOK.
LEMMA OnceNext == PlaceOK /\ OnceInv /\ [Next]_vars => OnceInv'
<1> SUFFICES ASSUME PlaceOK, OnceInv, [Next]_vars PROVE OnceInv'
  OBVIOUS
<1>1. CASE UNCHANGED vars
  BY <1>1, OnceSame DEF vars, shared, poolVars, machineVars, locals, history
<1> QED
  BY <1>1, OnceStep DEF Next

\* A set whose elements are all the same has one at most.
LEMMA AtMostOne ==
  ASSUME NEW S, \A x, y \in S : x = y
  PROVE  Cardinality(S) = IF S = {} THEN 0 ELSE 1
<1>1. CASE S = {}
  BY <1>1, FS_EmptySet
<1>2. CASE S # {}
  <2>1. PICK x : x \in S
    BY <1>2
  <2>2. S = {x}
    BY <2>1
  <2> QED
    BY <1>2, <2>2, FS_Singleton
<1> QED
  BY <1>1, <1>2

\* Whatever the threads do, a request is in one place: in queue_ once, queued to or
\* executed by one machine, in the hands of one thread, or over.
THEOREM RequestOnceCorrect == Spec => []RequestOnce
<1>1. PlaceOK /\ OnceInv => RequestOnce
  <2> SUFFICES ASSUME PlaceOK, OnceInv, NEW r \in Requests
               PROVE  Occurrences(queue, r) + Mailed(r) + Holders(inflight, r) + Holders(req, r)
                        + (IF r \in over THEN 1 ELSE 0) <= 1
    BY DEF RequestOnce
  <2>1. r # None /\ LocalsOK /\ SharedOK
    BY NoneAssumption DEF PlaceOK
  <2> DEFINE In(k) == \E x \in Owners(k) : r \in Pocket(k, x)
             Q == {i \in 1..Len(queue) : queue[i] = r}
             M == UNION {{<<c, i>> : i \in {j \in 1..Len(mail[c]) : mail[c][j] = r}} : c \in Conns}
             F == {c \in DOMAIN inflight : inflight[c] = r}
             H == {t \in DOMAIN req : req[t] = r}
  <2>2. Cardinality(Q) = IF Q = {} THEN 0 ELSE 1
    <3>1. \A i, j \in Q : i = j
      BY <2>1 DEF OnceInv, Distinct
    <3> QED
      BY <3>1, AtMostOne
  <2>3. Q # {} => In("queue")
    BY <2>1 DEF Pocket, Owners, Elements
  <2>4. Cardinality(M) = IF M = {} THEN 0 ELSE 1
    <3>1. ASSUME NEW p \in M, NEW q \in M PROVE p = q
      <4>1. /\ p[1] \in Conns /\ q[1] \in Conns
            /\ p[2] \in 1..Len(mail[p[1]]) /\ q[2] \in 1..Len(mail[q[1]])
            /\ mail[p[1]][p[2]] = r /\ mail[q[1]][q[2]] = r
            /\ p = <<p[1], p[2]>> /\ q = <<q[1], q[2]>>
        BY <2>1 DEF SharedOK
      <4>2. r \in Pocket("mail", p[1]) /\ r \in Pocket("mail", q[1])
        BY <2>1, <4>1 DEF Pocket, Elements
      <4>3. p[1] = q[1]
        BY <4>1, <4>2 DEF OnceInv, Apart, Owners, Kinds
      <4>4. p[2] = q[2]
        BY <2>1, <4>1, <4>3 DEF OnceInv, Distinct
      <4> QED
        BY <4>1, <4>3, <4>4
    <3> HIDE DEF M
    <3> QED
      BY <3>1, AtMostOne
  <2>5. M # {} => In("mail")
    <3> SUFFICES ASSUME NEW p \in M PROVE In("mail")
      OBVIOUS
    <3>1. p[1] \in Conns /\ p[2] \in 1..Len(mail[p[1]]) /\ mail[p[1]][p[2]] = r
      BY <2>1 DEF SharedOK
    <3> QED
      BY <2>1, <3>1 DEF Pocket, Owners, Elements
  <2>6. Cardinality(F) = IF F = {} THEN 0 ELSE 1
    <3>1. \A c, d \in F : c = d
      <4>1. ASSUME NEW c \in F, NEW d \in F PROVE c = d
        <5>1. c \in Owners("inflight") /\ d \in Owners("inflight")
              /\ r \in Pocket("inflight", c) \cap Pocket("inflight", d)
          BY <2>1 DEF SharedOK, Owners, Pocket
        <5> QED
          BY <5>1 DEF OnceInv, Apart, Kinds
      <4> QED
        BY <4>1
    <3> QED
      BY <3>1, AtMostOne
  <2>7. F # {} => In("inflight")
    BY <2>1 DEF Pocket, Owners, SharedOK
  <2>8. Cardinality(H) = IF H = {} THEN 0 ELSE 1
    <3>1. \A t, u \in H : t = u
      <4>1. ASSUME NEW t \in H, NEW u \in H PROVE t = u
        <5>1. t \in Owners("req") /\ u \in Owners("req")
              /\ r \in Pocket("req", t) \cap Pocket("req", u)
          BY <2>1 DEF LocalsOK, Owners, Pocket
        <5> QED
          BY <5>1 DEF OnceInv, Apart, Kinds
      <4> QED
        BY <4>1
    <3> QED
      BY <3>1, AtMostOne
  <2>9. H # {} => In("req")
    BY <2>1 DEF Pocket, Owners, LocalsOK
  <2>10. r \in over => In("over")
    BY DEF Pocket, Owners
  <2>11. \A k, l \in Kinds : In(k) /\ In(l) => k = l
    BY DEF OnceInv, Apart
  <2> HIDE DEF In
  <2>12. /\ ~(In("queue") /\ In("mail")) /\ ~(In("queue") /\ In("inflight"))
         /\ ~(In("queue") /\ In("req")) /\ ~(In("queue") /\ In("over"))
         /\ ~(In("mail") /\ In("inflight")) /\ ~(In("mail") /\ In("req"))
         /\ ~(In("mail") /\ In("over")) /\ ~(In("inflight") /\ In("req"))
         /\ ~(In("inflight") /\ In("over")) /\ ~(In("req") /\ In("over"))
    BY <2>11 DEF Kinds
  <2>13. /\ Occurrences(queue, r) = Cardinality(Q) /\ Mailed(r) = Cardinality(M)
         /\ Holders(inflight, r) = Cardinality(F) /\ Holders(req, r) = Cardinality(H)
    BY DEF Occurrences, Mailed, Holders
  <2> HIDE DEF Q, M, F, H
  <2> QED
    BY <2>2, <2>3, <2>4, <2>5, <2>6, <2>7, <2>8, <2>9, <2>10, <2>12, <2>13
<1> QED
  BY <1>1, OnceInit, OnceNext, PlaceInvariant, PTL DEF Spec

-----------------------------------------------------------------------------
(* Who can give a connection its next request.                             *)

\* A machine waits for an answer (also while it finds out that none will come).
Busy(c) == fsm[c] = "query" \/ (fsm[c] = "ending" /\ source[c] = "query")

\* It was never idle.
Fresh(c) ==
  \/ fsm[c] \in {"unplugged", "connecting"}
  \/ fsm[c] = "ending" /\ source[c] = "connecting"

\* Requests that were mailed to a machine: their places in its mail.
Letters(s) == {i \in 1..Len(s) : s[i] # None}
Single(s) == \A i, j \in Letters(s) : i = j

\* The connections that each place offers.
Offerers == {"ready", "thread", "mail", "busy"}
At(k) == IF k = "ready" THEN {None} ELSE IF k = "thread" THEN Threads ELSE Conns
Offer(k, x) ==
  IF k = "ready" THEN Elements(ready)
  ELSE IF k = "thread" THEN IF pc[x] = "execute" THEN {target[x]}
                            ELSE IF pc[x] \in ReadyPlaces THEN {conn[x]} ELSE {}
  ELSE IF k = "mail" THEN IF Letters(mail[x]) # {} THEN {x} ELSE {}
  ELSE IF Busy(x) THEN {x} ELSE {}

Alone ==
  \A k, l \in Offerers : \A x \in At(k), y \in At(l) :
    k # l \/ x # y => Offer(k, x) \cap Offer(l, y) = {}

Unoffered == \A c \in Conns : Fresh(c) => \A k \in Offerers : \A x \in At(k) : c \notin Offer(k, x)

Unrepeated(s) == \A i, j \in 1..Len(s) : s[i] = s[j] => i = j

OfferInv ==
  /\ Alone /\ Unoffered /\ SourceOK
  /\ Unrepeated(ready)
  /\ \A c \in Conns : Single(mail[c])

\* A connection is pushed to ready_connections_, and popped.
LEMMA ReadyAppend ==
  ASSUME NEW S, NEW s \in Seq(S), NEW x \in S, Unrepeated(s), x \notin Elements(s)
  PROVE  /\ Unrepeated(Append(s, x))
         /\ Elements(Append(s, x)) \subseteq Elements(s) \cup {x}
<1>1. /\ Len(s) \in Nat
      /\ Len(Append(s, x)) = Len(s) + 1
      /\ \A i \in 1..Len(s) : Append(s, x)[i] = s[i]
      /\ Append(s, x)[Len(s) + 1] = x
  OBVIOUS
<1>2. \A i \in 1..Len(s) + 1 : i \in 1..Len(s) \/ i = Len(s) + 1
  BY <1>1
<1>3. PICK a : a = Append(s, x)
  OBVIOUS
<1>4. Elements(a) \subseteq Elements(s) \cup {x}
  BY <1>1, <1>2, <1>3 DEF Elements
<1>5. Unrepeated(a)
  <2>1. \A i \in 1..Len(s) : s[i] # x
    BY DEF Elements
  <2> QED
    BY <1>1, <1>2, <1>3, <2>1 DEF Unrepeated
<1> QED
  BY <1>3, <1>4, <1>5

LEMMA ReadyTail ==
  ASSUME NEW S, NEW s \in Seq(S), s # <<>>, Unrepeated(s)
  PROVE  /\ Unrepeated(Tail(s)) /\ Head(s) \in Elements(s)
         /\ Elements(Tail(s)) \subseteq Elements(s) \ {Head(s)}
<1>1. /\ Len(s) \in Nat \ {0}
      /\ Len(Tail(s)) = Len(s) - 1
      /\ \A i \in 1..Len(Tail(s)) : Tail(s)[i] = s[i + 1]
      /\ Head(s) = s[1]
  OBVIOUS
<1>2. \A i \in 1..Len(s) - 1 : i + 1 \in 1..Len(s) /\ i + 1 # 1
  BY <1>1
<1>3. PICK a : a = Tail(s)
  OBVIOUS
<1>4. Elements(a) \subseteq Elements(s) \ {Head(s)}
  BY <1>1, <1>2, <1>3 DEF Elements, Unrepeated
<1>5. Unrepeated(a)
  BY <1>1, <1>2, <1>3 DEF Unrepeated
<1>6. Head(s) \in Elements(s)
  BY <1>1 DEF Elements
<1> QED
  BY <1>3, <1>4, <1>5, <1>6

\* Mail is added: terminate, which is no letter, or the first letter.
LEMMA LettersAppend ==
  ASSUME NEW S, NEW s \in Seq(S), NEW x \in S, Single(s), x = None \/ Letters(s) = {}
  PROVE  /\ Single(Append(s, x))
         /\ x = None /\ Letters(s) = {} => Letters(Append(s, x)) = {}
<1>1. /\ Len(s) \in Nat
      /\ Len(Append(s, x)) = Len(s) + 1
      /\ \A i \in 1..Len(s) : Append(s, x)[i] = s[i]
      /\ Append(s, x)[Len(s) + 1] = x
  OBVIOUS
<1>2. \A i \in 1..Len(s) + 1 : i \in 1..Len(s) \/ i = Len(s) + 1
  BY <1>1
<1>3. PICK a : a = Append(s, x)
  OBVIOUS
<1>4. CASE x = None
  <2>1. \A i \in Letters(a) : i \in Letters(s)
    BY <1>1, <1>2, <1>3, <1>4 DEF Letters
  <2> QED
    BY <1>3, <2>1 DEF Single
<1>5. CASE Letters(s) = {} /\ x # None
  <2>1. \A i \in Letters(a) : i = Len(s) + 1
    BY <1>1, <1>2, <1>3, <1>5 DEF Letters
  <2> QED
    BY <1>3, <1>5, <2>1 DEF Single
<1> QED
  BY <1>4, <1>5

\* The first letter is taken out.
LEMMA LettersTail ==
  ASSUME NEW S, NEW s \in Seq(S), s # <<>>, Single(s)
  PROVE  /\ Single(Tail(s))
         /\ Head(s) # None => Letters(s) # {} /\ Letters(Tail(s)) = {}
         /\ Letters(s) = {} => Letters(Tail(s)) = {}
<1>1. /\ Len(s) \in Nat \ {0}
      /\ Len(Tail(s)) = Len(s) - 1
      /\ \A i \in 1..Len(Tail(s)) : Tail(s)[i] = s[i + 1]
      /\ Head(s) = s[1]
  OBVIOUS
<1>2. \A i \in 1..Len(s) - 1 : i + 1 \in 1..Len(s) /\ i + 1 # 1
  BY <1>1
<1>3. PICK a : a = Tail(s)
  OBVIOUS
<1>4. \A i \in Letters(a) : i \in Nat /\ i + 1 \in Letters(s) /\ i + 1 # 1
  BY <1>1, <1>2, <1>3 DEF Letters
<1>5. Head(s) # None => 1 \in Letters(s)
  BY <1>1 DEF Letters
<1>6. Single(a)
  BY <1>4 DEF Single
<1>7. Head(s) # None => Letters(s) # {} /\ Letters(a) = {}
  BY <1>4, <1>5 DEF Single
<1>8. Letters(s) = {} => Letters(a) = {}
  BY <1>4
<1> QED
  BY <1>3, <1>6, <1>7, <1>8

\* The place of x gets part of X, which no other place keeps.
Offers(X, k, x) ==
  /\ Offer(k, x)' \subseteq Offer(k, x) \cup X
  /\ \A m \in Offerers : \A z \in At(m) : m # k \/ z # x => Offer(m, z)' \subseteq Offer(m, z) \ X

LEMMA Offered ==
  ASSUME Alone, NEW X, NEW k \in Offerers, NEW x \in At(k), Offers(X, k, x)
  PROVE  Alone'
<1> USE DEF Offers
<1> SUFFICES ASSUME NEW m \in Offerers, NEW n \in Offerers, NEW z \in At(m), NEW w \in At(n),
                    m # n \/ z # w
             PROVE  Offer(m, z)' \cap Offer(n, w)' = {}
  BY DEF Alone, At
<1>1. Offer(m, z) \cap Offer(n, w) = {}
  BY DEF Alone
<1> QED
  BY <1>1

\* What X holds is offered in no other place any more.
LEMMA OfferTo ==
  ASSUME Alone, NEW X, NEW k \in Offerers, NEW x \in At(k),
         Offer(k, x)' \subseteq Offer(k, x) \cup X,
         \A m \in Offerers : \A z \in At(m) :
           m # k \/ z # x => Offer(m, z)' \subseteq Offer(m, z) \ X
  PROVE  Alone'
<1>1. Offers(X, k, x)
  BY DEF Offers
<1> QED
  BY <1>1, Offered, Zenon

\* A connection goes from one place to another.
LEMMA OfferMove ==
  ASSUME Alone, NEW X, NEW k \in Offerers, NEW x \in At(k), NEW l \in Offerers, NEW y \in At(l),
         X \subseteq Offer(l, y),
         k # l \/ x # y,
         Offer(k, x)' \subseteq Offer(k, x) \cup X,
         Offer(l, y)' \subseteq Offer(l, y) \ X,
         \A m \in Offerers : \A z \in At(m) :
           (m # k \/ z # x) /\ (m # l \/ z # y) => Offer(m, z)' \subseteq Offer(m, z)
  PROVE  Alone'
<1>1. ASSUME NEW m \in Offerers, NEW z \in At(m), m # k \/ z # x
      PROVE  Offer(m, z)' \subseteq Offer(m, z) \ X
  <2>1. CASE m = l /\ z = y
    BY <2>1
  <2>2. CASE m # l \/ z # y
    BY <1>1, <2>2 DEF Alone
  <2> QED
    BY <2>1, <2>2
<1> SUFFICES ASSUME NEW m \in Offerers, NEW n \in Offerers, NEW z \in At(m), NEW w \in At(n),
                    m # n \/ z # w
             PROVE  Offer(m, z)' \cap Offer(n, w)' = {}
  BY DEF Alone, At
<1>2. Offer(m, z) \cap Offer(n, w) = {}
  BY DEF Alone
<1>3. CASE m = k /\ z = x
  <2>1. Offer(n, w)' \subseteq Offer(n, w) \ X
    BY <1>1, <1>3
  <2> QED
    BY <1>2, <1>3, <2>1
<1>4. CASE n = k /\ w = x
  <2>1. Offer(m, z)' \subseteq Offer(m, z) \ X
    BY <1>1, <1>4
  <2> QED
    BY <1>2, <1>4, <2>1
<1>5. CASE (m # k \/ z # x) /\ (n # k \/ w # x)
  <2>1. Offer(m, z)' \subseteq Offer(m, z) /\ Offer(n, w)' \subseteq Offer(n, w)
    BY <1>1, <1>5
  <2> QED
    BY <1>2, <2>1
<1> QED
  BY <1>3, <1>4, <1>5

\* Nobody but the machine itself comes to offer a fresh connection.
LEMMA OfferFresh ==
  ASSUME Unoffered, NEW X,
         \A c \in Conns : Fresh(c)' => Fresh(c) /\ c \notin X,
         \A k \in Offerers : \A x \in At(k) : Offer(k, x)' \subseteq Offer(k, x) \cup X
  PROVE  Unoffered'
  BY DEF Unoffered, At

\* The places that a step leaves alone.
LEMMA OfferKeeping ==
  /\ UNCHANGED ready => /\ \A x \in At("ready") : Offer("ready", x)' = Offer("ready", x)
                        /\ Unrepeated(ready) => Unrepeated(ready)'
  /\ UNCHANGED mail => /\ \A x \in At("mail") : Offer("mail", x)' = Offer("mail", x)
                       /\ \A c \in Conns : Single(mail[c]) => Single(mail[c])'
  /\ UNCHANGED <<fsm, source>> =>
       /\ \A x \in At("busy") : Offer("busy", x)' = Offer("busy", x)
       /\ \A c \in Conns : Fresh(c)' = Fresh(c)
  /\ \A t \in Threads : Only(t) =>
       \A u \in At("thread") : u # t => Offer("thread", u)' = Offer("thread", u)
<1>1. ASSUME UNCHANGED ready
      PROVE  /\ \A x \in At("ready") : Offer("ready", x)' = Offer("ready", x)
             /\ Unrepeated(ready) => Unrepeated(ready)'
  BY <1>1 DEF Offer, Elements, Unrepeated
<1>2. ASSUME UNCHANGED mail
      PROVE  /\ \A x \in At("mail") : Offer("mail", x)' = Offer("mail", x)
             /\ \A c \in Conns : Single(mail[c]) => Single(mail[c])'
  BY <1>2 DEF Offer, Letters, Single
<1>3. ASSUME UNCHANGED <<fsm, source>>
      PROVE  /\ \A x \in At("busy") : Offer("busy", x)' = Offer("busy", x)
             /\ \A c \in Conns : Fresh(c)' = Fresh(c)
  BY <1>3 DEF Offer, Busy, Fresh
<1>4. ASSUME NEW t \in Threads, Only(t)
      PROVE  \A u \in At("thread") : u # t => Offer("thread", u)' = Offer("thread", u)
  BY <1>4 DEF Offer, Only, At
<1> QED
  BY <1>1, <1>2, <1>3, <1>4

\* Nothing is offered that was not offered there before.
LEMMA OfferLess ==
  ASSUME OfferInv, SourceOK', NEW t \in Threads, Only(t), UNCHANGED ready,
         Offer("thread", t)' \subseteq Offer("thread", t),
         \A c \in Conns : /\ Busy(c)' => Busy(c)
                          /\ Fresh(c)' => Fresh(c)
                          /\ Letters(mail[c])' # {} => Letters(mail[c]) # {}
                          /\ Single(mail[c])'
  PROVE  OfferInv'
<1>1. \A k \in Offerers : \A x \in At(k) : Offer(k, x)' \subseteq Offer(k, x)
  <2>1. \A x \in At("mail") : Offer("mail", x)' \subseteq Offer("mail", x)
    BY DEF Offer, At
  <2>2. \A x \in At("busy") : Offer("busy", x)' \subseteq Offer("busy", x)
    BY DEF Offer, At
  <2>3. \A x \in At("ready") : Offer("ready", x)' \subseteq Offer("ready", x)
    BY OfferKeeping
  <2>4. \A x \in At("thread") : Offer("thread", x)' \subseteq Offer("thread", x)
    BY OfferKeeping
  <2> QED
    BY <2>1, <2>2, <2>3, <2>4 DEF Offerers
<1>2. Alone'
  BY <1>1 DEF OfferInv, Alone, At
<1>3. Unoffered'
  BY <1>1 DEF OfferInv, Unoffered, At
<1>4. Unrepeated(ready)'
  BY OfferKeeping DEF OfferInv
<1> QED
  BY <1>2, <1>3, <1>4 DEF OfferInv

\* A step that touches no machine, and after which t offers no more than before.
LEMMA OfferRests ==
  ASSUME PlaceOK, OfferInv, NEW t \in Threads, Only(t), SourceOK',
         \/ \E r \in Requests : Refuse(t, r) \/ Submit(t, r)
         \/ GetIdle(t) \/ NoneIdle(t) \/ Grow(t) \/ CreateNone(t) \/ List(t) \/ Enqueue(t)
         \/ Close(t) \/ CloseSetsCallback(t) \/ CloseLeaves(t) \/ CloseSweeps(t)
         \/ SweepNone(t) \/ SweepSome(t) \/ SweepCopies(t) \/ SweepUnlocks(t) \/ SweepEnds(t)
         \/ NoEvent(t) \/ ReadyClosed(t) \/ ParkClosed(t)
         \/ ClearLocks(t) \/ ClearNext(t) \/ CallbackReturns(t) \/ EraseNone(t) \/ CallbackThrows(t)
         \/ ClearEnds(t) \/ Erase(t)
  PROVE  OfferInv'
<1>0. LocalsOK
  BY DEF PlaceOK
<1> DEFINE Rest == /\ UNCHANGED <<ready, mail, fsm, source>>
                   /\ \/ pc'[t] # "execute" /\ pc'[t] \notin ReadyPlaces
                      \/ pc[t] \in ReadyPlaces /\ pc'[t] \in ReadyPlaces /\ UNCHANGED conn
                      \/ UNCHANGED <<pc, conn, target>>
<1>1. ASSUME Rest PROVE OfferInv'
  <2>1. Offer("thread", t)' \subseteq Offer("thread", t)
    BY <1>1 DEF Offer, ReadyPlaces
  <2>2. \A c \in Conns : /\ Busy(c)' => Busy(c)
                         /\ Fresh(c)' => Fresh(c)
                         /\ Letters(mail[c])' # {} => Letters(mail[c]) # {}
                         /\ Single(mail[c])'
    BY <1>1 DEF Busy, Fresh, Letters, Single, OfferInv
  <2> QED
    BY <1>1, <2>1, <2>2, OfferLess
<1> USE DEF shared, poolVars, machineVars, linkVars, locals, ReadyPlaces
<1>2. ASSUME NEW r \in Requests, Refuse(t, r) PROVE Rest
  BY <1>0, <1>2 DEF Refuse
<1>3. ASSUME NEW r \in Requests, Submit(t, r) PROVE Rest
  BY <1>0, <1>3 DEF Submit, Call, LocalsOK
<1>4. ASSUME GetIdle(t) \/ NoneIdle(t) \/ Grow(t) \/ CreateNone(t) PROVE Rest
  BY <1>0, <1>4 DEF GetIdle, NoneIdle, Grow, CreateNone, Branch, Goto, LocalsOK
<1>5. ASSUME List(t) \/ Erase(t) PROVE Rest
  BY <1>0, <1>5 DEF List, Erase, Goto, LocalsOK
<1>6. ASSUME Enqueue(t) \/ CloseLeaves(t) PROVE Rest
  BY <1>0, <1>6 DEF Enqueue, CloseLeaves, Return, Goto, LocalsOK
<1>7. ASSUME Close(t) \/ CloseSetsCallback(t) \/ CloseSweeps(t) PROVE Rest
  BY <1>0, <1>7 DEF Close, CloseSetsCallback, CloseSweeps, Call, Goto, LocalsOK
<1>8. ASSUME SweepNone(t) \/ SweepSome(t) \/ SweepCopies(t) \/ SweepUnlocks(t) PROVE Rest
  BY <1>0, <1>8 DEF SweepNone, SweepSome, SweepCopies, SweepUnlocks, Branch, Goto, LocalsOK
<1>9. ASSUME SweepEnds(t) PROVE Rest
  BY <1>0, <1>9 DEF SweepEnds, Return, Goto, LocalsOK
<1>10. ASSUME NoEvent(t) \/ ReadyClosed(t) \/ ParkClosed(t) PROVE Rest
  BY <1>0, <1>10 DEF NoEvent, ReadyClosed, ParkClosed, Branch, Goto, LocalsOK
<1>11. ASSUME \/ ClearLocks(t) \/ ClearNext(t) \/ CallbackReturns(t) \/ EraseNone(t)
              \/ CallbackThrows(t) \/ ClearEnds(t)
       PROVE  Rest
  BY <1>0, <1>11 DEF ClearLocks, ClearNext, CallbackReturns, EraseNone, CallbackThrows, ClearEnds, Branch, Goto,
     LocalsOK
<1> HIDE DEF Rest
<1> QED
  BY <1>1, <1>2, <1>3, <1>4, <1>5, <1>6, <1>7, <1>8, <1>9, <1>10, <1>11

\* The mail of c changes, and nobody else's.
LEMMA MailAt ==
  ASSUME SharedOK, \A d \in Conns : Single(mail[d]), NEW c, NEW s,
         mail' = [mail EXCEPT ![c] = s], Single(s), Letters(mail[c]) = {} => Letters(s) = {}
  PROVE  \A d \in Conns : /\ Letters(mail[d])' # {} => Letters(mail[d]) # {}
                          /\ Single(mail[d])'
<1>1. \A d \in Conns : mail'[d] = IF d = c THEN s ELSE mail[d]
  BY DEF SharedOK
<1> QED
  BY <1>1 DEF Letters, Single

\* A machine that is created, swept, fails or ends is offered no more than before.
LEMMA OfferMachines ==
  ASSUME PlaceOK, OfferInv, NEW t \in Threads, Only(t), SourceOK',
         \/ Create(t) \/ SweepOne(t) \/ Unwind(t) \/ Terminated(t)
         \/ \E c \in Conns : Fail(t, c)
  PROVE  OfferInv'
<1>0. LocalsOK /\ SharedOK /\ ThreadOK(t) /\ SourceOK /\ \A d \in Conns : Single(mail[d])
  BY DEF PlaceOK, OfferInv
<1> DEFINE Less == \A c \in Conns : /\ Busy(c)' => Busy(c)
                                    /\ Fresh(c)' => Fresh(c)
           MailLess == \A c \in Conns : /\ Letters(mail[c])' # {} => Letters(mail[c]) # {}
                                        /\ Single(mail[c])'
           Silent == Offer("thread", t)' \subseteq Offer("thread", t)
<1>1. ASSUME Less, MailLess, Silent, UNCHANGED ready PROVE OfferInv'
  BY <1>1, OfferLess
<1>2. ASSUME UNCHANGED mail PROVE MailLess
  BY <1>0, <1>2 DEF Letters, Single
<1>3. ASSUME UNCHANGED pc, UNCHANGED <<conn, target>> PROVE Silent
  BY <1>3 DEF Offer
<1>4. ASSUME pc'[t] \notin {"execute"} \cup ReadyPlaces PROVE Silent
  BY <1>4 DEF Offer
<1>5. CASE Create(t)
  <2>1. PICK c \in Conns : fsm[c] = "unplugged" /\ fsm' = [fsm EXCEPT ![c] = "connecting"]
    BY <1>5 DEF Create
  <2>2. UNCHANGED <<ready, mail, source>> /\ pc'[t] = "list"
    BY <1>0, <1>5 DEF Create, Goto, LocalsOK, poolVars, linkVars
  <2>3. Less
    BY <1>0, <2>1, <2>2 DEF SharedOK, Busy, Fresh
  <2> HIDE DEF Less, MailLess, Silent
  <2> QED
    BY <1>1, <1>2, <1>4, <2>2, <2>3 DEF ReadyPlaces
<1>6. CASE SweepOne(t)
  <2>1. PICK c \in todo[t] :
          /\ fsm' = fsm \/ (fsm[c] = "idle" /\ fsm' = [fsm EXCEPT ![c] = "terminated"])
          /\ mail' = mail \/ mail' = [mail EXCEPT ![c] = Append(@, None)]
    BY <1>6 DEF SweepOne
  <2>2. UNCHANGED <<ready, source, pc, conn, target>> /\ c \in Conns
    BY <1>0, <1>6 DEF SweepOne, linkVars, LocalsOK
  <2>3. Less
    BY <1>0, <2>1, <2>2 DEF SharedOK, Busy, Fresh
  <2>4. MailLess
    <3>1. CASE mail' = mail
      BY <1>2, <3>1
    <3>2. CASE mail' = [mail EXCEPT ![c] = Append(@, None)]
      <4>1. PICK m \in Seq(Requests \cup {None}) : m = mail[c]
        BY <1>0, <2>2 DEF SharedOK
      <4>2. PICK x \in Requests \cup {None} : x = None
        OBVIOUS
      <4>3. PICK s : s = Append(m, x)
        OBVIOUS
      <4>4. Single(s) /\ (Letters(m) = {} => Letters(s) = {})
        BY <1>0, <2>2, <4>1, <4>2, <4>3, LettersAppend
      <4>5. mail' = [mail EXCEPT ![c] = s]
        BY <3>2, <4>1, <4>2, <4>3, Zenon
      <4> QED
        BY <1>0, <4>1, <4>4, <4>5, MailAt
    <3> QED
      BY <2>1, <3>1, <3>2
  <2> HIDE DEF Less, MailLess, Silent
  <2> QED
    BY <1>1, <1>3, <2>2, <2>3, <2>4
<1>7. CASE Unwind(t) \/ Terminated(t)
  <2>1. PICK c \in Conns : c = conn[t]
    BY <1>0, <1>7 DEF Unwind, Terminated, Goto, LocalsOK, ThreadOK, InHandler, HandlerPlaces, EndPlaces
  <2>2. PICK v : /\ fsm' = [fsm EXCEPT ![c] = v]
                 /\ \/ v = "terminated"
                    \/ v = source[c] /\ source[c] \in {"connecting", "query"}
    BY <1>7, <2>1 DEF Unwind, Terminated
  <2>3. /\ source' = [source EXCEPT ![c] = "unplugged"] /\ mail' = [mail EXCEPT ![c] = <<>>]
        /\ UNCHANGED ready /\ pc'[t] = "loop"
    BY <1>0, <1>7, <2>1 DEF Unwind, Terminated, Goto, LocalsOK, poolVars
  <2>4. Less
    BY <1>0, <2>2, <2>3 DEF SharedOK, SourceOK, Busy, Fresh
  <2>5. MailLess
    <3>1. PICK s : s = <<>>
      OBVIOUS
    <3>2. Single(s) /\ Letters(s) = {}
      BY <3>1 DEF Single, Letters
    <3>3. mail' = [mail EXCEPT ![c] = s]
      BY <2>3, <3>1, Zenon
    <3> QED
      BY <1>0, <3>2, <3>3, MailAt
  <2> HIDE DEF Less, MailLess, Silent
  <2> QED
    BY <1>1, <1>4, <2>3, <2>4, <2>5 DEF ReadyPlaces
<1>8. ASSUME NEW c \in Conns, Fail(t, c) PROVE OfferInv'
  <2>1. /\ fsm' = [fsm EXCEPT ![c] = "ending"] /\ source' = [source EXCEPT ![c] = fsm[c]]
        /\ fsm[c] \in {"connecting", "idle", "query"}
        /\ UNCHANGED <<ready, mail>> /\ pc'[t] = "erase_none"
    BY <1>0, <1>8 DEF Fail, Start, Goto, LocalsOK, poolVars
  <2>2. Less
    BY <1>0, <2>1 DEF SharedOK, SourceOK, Busy, Fresh
  <2> HIDE DEF Less, MailLess, Silent
  <2> QED
    BY <1>1, <1>2, <1>4, <2>1, <2>2 DEF ReadyPlaces
<1> QED
  BY <1>5, <1>6, <1>7, <1>8

\* get_idle_connection takes the first idle connection.
LEMMA OfferPops ==
  ASSUME PlaceOK, OfferInv, NEW t \in Threads, Only(t), SourceOK', PopIdle(t)
  PROVE  OfferInv'
<1>0. LocalsOK /\ SharedOK /\ Alone /\ "ready" \in Offerers /\ "thread" \in Offerers
      /\ None \in At("ready") /\ t \in At("thread")
  BY DEF PlaceOK, OfferInv, Offerers, At
<1>1. /\ ready # <<>> /\ ready' = Tail(ready) /\ UNCHANGED <<mail, fsm, source>>
      /\ pc[t] = "pop_idle" /\ pc'[t] = "execute" /\ target'[t] = Head(ready)
  BY <1>0 DEF PopIdle, Goto, LocalsOK, machineVars, linkVars
<1>2. PICK s \in Seq(Conns) : s = ready
  BY <1>0 DEF SharedOK
<1>3. PICK u : u = Tail(s)
  OBVIOUS
<1>4. PICK c : c = Head(s)
  OBVIOUS
<1>5. Unrepeated(u) /\ c \in Elements(s) /\ Elements(u) \subseteq Elements(s) \ {c}
  BY <1>1, <1>2, <1>3, <1>4, ReadyTail DEF OfferInv
<1>6. ready' = u /\ target'[t] = c
  BY <1>1, <1>2, <1>3, <1>4, Zenon
<1>7. PICK X : X = {c}
  OBVIOUS
<1>8. /\ X \subseteq Offer("ready", None) /\ Offer("ready", None)' \subseteq Offer("ready", None) \ X
      /\ Unrepeated(ready)'
  <2>1. Elements(ready)' = Elements(u) /\ (Unrepeated(ready)' <=> Unrepeated(u))
    BY <1>6 DEF Elements, Unrepeated
  <2>2. Offer("ready", None)' = Elements(ready)' /\ Offer("ready", None) = Elements(s)
    BY <1>2 DEF Offer
  <2> QED
    BY <1>5, <1>7, <2>1, <2>2
<1>9. Offer("thread", t)' \subseteq Offer("thread", t) \cup X
  BY <1>1, <1>6, <1>7 DEF Offer
<1>10. \A m \in Offerers : \A z \in At(m) :
         (m # "thread" \/ z # t) /\ (m # "ready" \/ z # None) => Offer(m, z)' \subseteq Offer(m, z)
  BY <1>1, OfferKeeping DEF Offerers, At
<1>11. Alone'
  <2>1. PICK n \in At("ready") : n = None
    BY <1>0
  <2>2. /\ X \subseteq Offer("ready", n)
        /\ Offer("ready", n)' \subseteq Offer("ready", n) \ X
        /\ Offer("thread", t)' \subseteq Offer("thread", t) \cup X
    BY <1>8, <1>9, <2>1
  <2>3. \A m \in Offerers : \A z \in At(m) :
          (m # "thread" \/ z # t) /\ (m # "ready" \/ z # n) => Offer(m, z)' \subseteq Offer(m, z)
    BY <1>10, <2>1
  <2>4. Alone /\ "ready" \in Offerers /\ "thread" \in Offerers
        /\ t \in At("thread") /\ n \in At("ready")
    BY <1>0
  <2>5. \A m \in Offerers : \A z \in At(m) :
          m # "thread" \/ z # t => Offer(m, z)' \subseteq Offer(m, z) \ X
    <3> SUFFICES ASSUME NEW m \in Offerers, NEW z \in At(m), m # "thread" \/ z # t
                 PROVE  Offer(m, z)' \subseteq Offer(m, z) \ X
      OBVIOUS
    <3>1. CASE m = "ready" /\ z = n
      BY <2>2, <3>1
    <3>2. CASE m # "ready" \/ z # n
      <4>1. Offer(m, z) \cap Offer("ready", n) = {}
        BY <2>4, <3>2 DEF Alone
      <4> QED
        BY <2>2, <2>3, <3>2, <4>1
    <3> QED
      BY <3>1, <3>2
  <2> QED
    BY <2>2, <2>4, <2>5, OfferTo
<1>12. Unoffered'
  <2>1. \A d \in Conns : Fresh(d)' => Fresh(d) /\ d \notin X
    BY <1>0, <1>1, <1>8, OfferKeeping DEF OfferInv, Unoffered
  <2>2. \A k \in Offerers : \A x \in At(k) : Offer(k, x)' \subseteq Offer(k, x) \cup X
    BY <1>8, <1>9, <1>10
  <2> QED
    BY <2>1, <2>2, OfferFresh DEF OfferInv
<1>13. \A d \in Conns : Single(mail[d])'
  BY <1>1, OfferKeeping DEF OfferInv
<1> QED
  BY <1>8, <1>11, <1>12, <1>13 DEF OfferInv

\* What is offered by its thread goes where the thread puts it.
LEMMA OfferByThread ==
  ASSUME OfferInv, SourceOK', NEW t \in Threads, Only(t), NEW c, NEW k \in Offerers \ {"thread"},
         NEW x \in At(k),
         Offer("thread", t) = {c}, Offer("thread", t)' = {}, c \in Conns => ~Fresh(c)',
         Offer(k, x)' \subseteq Offer(k, x) \cup {c},
         \A m \in Offerers : \A z \in At(m) :
           (m # k \/ z # x) /\ m # "thread" => Offer(m, z)' \subseteq Offer(m, z),
         \A d \in Conns : Fresh(d)' => Fresh(d),
         Unrepeated(ready)', \A d \in Conns : Single(mail[d])'
  PROVE  OfferInv'
<1>1. PICK X : X = {c}
  OBVIOUS
<1>2. /\ Alone /\ "thread" \in Offerers /\ t \in At("thread") /\ k # "thread"
      /\ X \subseteq Offer("thread", t) /\ Offer("thread", t)' \subseteq Offer("thread", t) \ X
      /\ Offer(k, x)' \subseteq Offer(k, x) \cup X
  BY <1>1 DEF OfferInv, Offerers, At
<1>3. \A m \in Offerers : \A z \in At(m) :
        (m # k \/ z # x) /\ (m # "thread" \/ z # t) => Offer(m, z)' \subseteq Offer(m, z)
  BY OfferKeeping
<1>4. Alone'
  BY <1>2, <1>3, OfferMove
<1>5. Unoffered'
  <2>1. \A d \in Conns : Fresh(d)' => Fresh(d) /\ d \notin X
    BY <1>1
  <2>2. \A m \in Offerers : \A z \in At(m) : Offer(m, z)' \subseteq Offer(m, z) \cup X
    BY <1>2, <1>3
  <2> QED
    BY <2>1, <2>2, OfferFresh DEF OfferInv
<1> QED
  BY <1>4, <1>5 DEF OfferInv

\* add_idle_connection, and next_event with a request.
LEMMA OfferReady ==
  ASSUME PlaceOK, OfferInv, NEW t \in Threads, Only(t), SourceOK', PushIdle(t) \/ NextEvent(t)
  PROVE  OfferInv'
<1>0. LocalsOK /\ SharedOK /\ ThreadOK(t)
  BY DEF PlaceOK
<1>1. PICK c \in Conns : c = conn[t]
  BY <1>0 DEF PushIdle, NextEvent, Goto, LocalsOK, ThreadOK, InHandler, HandlerPlaces, ReadyPlaces
<1>2. /\ pc[t] \in ReadyPlaces /\ pc'[t] = "settle" /\ UNCHANGED <<conn, fsm, source>>
  BY <1>0 DEF PushIdle, NextEvent, Goto, LocalsOK, ReadyPlaces, locals, machineVars, linkVars
<1>3. /\ Offer("thread", t) = {c} /\ Offer("thread", t)' = {}
      /\ ~Fresh(c)' /\ \A d \in Conns : Fresh(d)' => Fresh(d)
  BY <1>0, <1>1, <1>2 DEF Offer, ReadyPlaces, ThreadOK, Fresh
<1>4. \A l \in Offerers : \A y \in At(l) : l # "thread" => c \notin Offer(l, y)
  BY <1>3 DEF OfferInv, Alone, At, Offerers
<1>5. CASE PushIdle(t)
  <2>1. PICK s \in Seq(Conns) : s = ready
    BY <1>0 DEF SharedOK
  <2>2. PICK u : u = Append(s, c)
    OBVIOUS
  <2>3. ready' = u /\ UNCHANGED mail
    BY <1>1, <1>5, <2>1, <2>2 DEF PushIdle, machineVars
  <2>4. None \in At("ready") /\ "ready" \in Offerers \ {"thread"}
    BY DEF At, Offerers
  <2>5. c \notin Elements(s)
    BY <1>4, <2>1, <2>4 DEF Offer
  <2>6. Unrepeated(u) /\ Elements(u) \subseteq Elements(s) \cup {c}
    BY <2>1, <2>2, <2>5, ReadyAppend DEF OfferInv
  <2>7. Unrepeated(ready)' /\ Offer("ready", None)' \subseteq Offer("ready", None) \cup {c}
    BY <2>1, <2>3, <2>6 DEF Offer, Elements, Unrepeated
  <2>8. \A m \in Offerers : \A z \in At(m) :
          (m # "ready" \/ z # None) /\ m # "thread" => Offer(m, z)' \subseteq Offer(m, z)
    BY <1>2, <2>3, OfferKeeping DEF Offerers, At
  <2>9. \A d \in Conns : Single(mail[d])'
    BY <2>3, OfferKeeping DEF OfferInv
  <2> QED
    BY <1>3, <2>4, <2>7, <2>8, <2>9, OfferByThread
<1>6. CASE NextEvent(t)
  <2>1. PICK s \in Seq(Requests \cup {None}) : s = mail[c]
    BY <1>0 DEF SharedOK
  <2>2. queue # <<>> /\ mail' = [mail EXCEPT ![c] = Append(@, Head(queue))] /\ UNCHANGED ready
    BY <1>1, <1>6 DEF NextEvent
  <2>3. Head(queue) \in Requests
    BY <1>0, <2>2 DEF SharedOK
  <2>4. PICK r \in Requests \cup {None} : r = Head(queue)
    BY <2>3
  <2>5. PICK u : u = Append(s, r)
    OBVIOUS
  <2>6. c \in At("mail") /\ "mail" \in Offerers \ {"thread"}
    BY DEF At, Offerers
  <2>7. Letters(s) = {}
    BY <1>4, <2>1, <2>6 DEF Offer
  <2>8. Single(u)
    BY <2>1, <2>4, <2>5, <2>7, LettersAppend DEF OfferInv
  <2>9. mail' = [mail EXCEPT ![c] = u]
    BY <2>1, <2>2, <2>4, <2>5, Zenon
  <2>10. \A d \in Conns : mail'[d] = IF d = c THEN u ELSE mail[d]
    BY <1>0, <2>9 DEF SharedOK
  <2>11. \A d \in Conns : Single(mail[d])'
    BY <2>8, <2>10 DEF OfferInv, Single, Letters
  <2>12. Offer("mail", c)' \subseteq Offer("mail", c) \cup {c}
    BY DEF Offer
  <2>13. \A d \in At("mail") : d # c => Offer("mail", d)' \subseteq Offer("mail", d)
    BY <2>10 DEF Offer, At, Letters
  <2>14. \A m \in Offerers : \A z \in At(m) :
          (m # "mail" \/ z # c) /\ m # "thread" => Offer(m, z)' \subseteq Offer(m, z)
    BY <1>2, <2>2, <2>13, OfferKeeping DEF Offerers
  <2>15. Unrepeated(ready)'
    BY <2>2, OfferKeeping DEF OfferInv
  <2> QED
    BY <1>3, <2>6, <2>11, <2>12, <2>14, <2>15, OfferByThread
<1> QED
  BY <1>5, <1>6

\* conn->execute: the machine is at work with the request, or has it in its mail,
\* or drops it.
LEMMA OfferExecute ==
  ASSUME PlaceOK, OfferInv, NEW t \in Threads, Only(t), SourceOK', Execute(t)
  PROVE  OfferInv'
<1>0. LocalsOK /\ SharedOK /\ ThreadOK(t)
  BY DEF PlaceOK
<1>1. PICK c \in Conns : c = target[t]
  BY <1>0 DEF Execute, Return, Goto, LocalsOK, ThreadOK
<1>2. /\ pc[t] = "execute" /\ pc'[t] \in {"loop", "callback"}
      /\ UNCHANGED <<ready, source>>
  BY <1>0 DEF Execute, Return, Goto, LocalsOK, poolVars, linkVars
<1>3. Offer("thread", t) = {c} /\ Offer("thread", t)' = {}
  BY <1>1, <1>2 DEF Offer, ReadyPlaces
<1>4. ~Fresh(c) /\ "thread" \in Offerers /\ t \in At("thread")
  BY <1>3 DEF OfferInv, Unoffered, Offerers, At
<1>5. Unrepeated(ready)' /\ \A x \in At("ready") : Offer("ready", x)' = Offer("ready", x)
  BY <1>2, OfferKeeping DEF OfferInv
<1>6. CASE fsm[c] = "idle" /\ fsm' = [fsm EXCEPT ![c] = "query"] /\ UNCHANGED mail
  <2>1. c \in At("busy") /\ "busy" \in Offerers \ {"thread"}
    BY DEF At, Offerers
  <2>2. /\ ~Fresh(c)' /\ \A d \in Conns : Fresh(d)' => Fresh(d)
        /\ \A d \in Conns : Busy(d)' => Busy(d) \/ d = c
    BY <1>0, <1>2, <1>6 DEF SharedOK, Fresh, Busy
  <2>3. Offer("busy", c)' \subseteq Offer("busy", c) \cup {c}
    BY DEF Offer
  <2>4. \A d \in At("busy") : d # c => Offer("busy", d)' \subseteq Offer("busy", d)
    BY <2>2 DEF Offer, At
  <2>5. /\ \A d \in Conns : Single(mail[d])'
        /\ \A d \in At("mail") : Offer("mail", d)' = Offer("mail", d)
    BY <1>6, OfferKeeping DEF OfferInv
  <2>6. \A m \in Offerers : \A z \in At(m) :
          (m # "busy" \/ z # c) /\ m # "thread" => Offer(m, z)' \subseteq Offer(m, z)
    BY <1>5, <2>4, <2>5 DEF Offerers
  <2> QED
    BY <1>3, <1>5, <2>1, <2>2, <2>3, <2>5, <2>6, OfferByThread
<1>7. CASE mail' = [mail EXCEPT ![c] = Append(@, req[t])] /\ UNCHANGED fsm
  <2>1. PICK s \in Seq(Requests \cup {None}) : s = mail[c]
    BY <1>0 DEF SharedOK
  <2>2. PICK r \in Requests \cup {None} : r = req[t]
    BY <1>0 DEF LocalsOK
  <2>3. PICK u : u = Append(s, r)
    OBVIOUS
  <2>4. c \in At("mail") /\ "mail" \in Offerers \ {"thread"}
    BY DEF At, Offerers
  <2>5. Letters(s) = {}
    <3>1. c \notin Offer("mail", c)
      BY <1>3, <1>4, <2>4 DEF OfferInv, Alone
    <3> QED
      BY <2>1, <3>1 DEF Offer
  <2>6. Single(u)
    BY <2>1, <2>2, <2>3, <2>5, LettersAppend DEF OfferInv
  <2>7. mail' = [mail EXCEPT ![c] = u]
    BY <1>7, <2>1, <2>2, <2>3, Zenon
  <2>8. \A d \in Conns : mail'[d] = IF d = c THEN u ELSE mail[d]
    BY <1>0, <2>7 DEF SharedOK
  <2>9. \A d \in Conns : Single(mail[d])'
    BY <2>6, <2>8 DEF OfferInv, Single, Letters
  <2>10. Offer("mail", c)' \subseteq Offer("mail", c) \cup {c}
    BY DEF Offer
  <2>11. \A d \in At("mail") : d # c => Offer("mail", d)' \subseteq Offer("mail", d)
    BY <2>8 DEF Offer, At, Letters
  <2>12. /\ \A d \in At("busy") : Offer("busy", d)' = Offer("busy", d)
         /\ \A d \in Conns : Fresh(d)' = Fresh(d)
    BY <1>2, <1>7, OfferKeeping
  <2>13. \A m \in Offerers : \A z \in At(m) :
          (m # "mail" \/ z # c) /\ m # "thread" => Offer(m, z)' \subseteq Offer(m, z)
    BY <1>5, <2>11, <2>12 DEF Offerers
  <2> QED
    BY <1>3, <1>4, <1>5, <2>4, <2>9, <2>10, <2>12, <2>13, OfferByThread
<1>8. CASE UNCHANGED <<fsm, mail>>
  <2>1. \A d \in Conns : /\ Busy(d)' => Busy(d)
                         /\ Fresh(d)' => Fresh(d)
                         /\ Letters(mail[d])' # {} => Letters(mail[d]) # {}
                         /\ Single(mail[d])'
    BY <1>2, <1>8 DEF Busy, Fresh, Letters, Single, OfferInv
  <2> QED
    BY <1>2, <1>3, <2>1, OfferLess
<1> QED
  BY <1>1, <1>6, <1>7, <1>8 DEF Execute

\* A machine that was connected, or answered, is offered by the thread that runs
\* its connection_ready.
LEMMA OfferAnswer ==
  ASSUME PlaceOK, OfferInv, NEW t \in Threads, NEW c \in Conns, Only(t), SourceOK', Answer(t, c)
  PROVE  OfferInv'
<1>0. LocalsOK /\ SharedOK /\ SourceOK /\ Alone /\ Unoffered
  BY DEF PlaceOK, OfferInv
<1>1. /\ fsm[c] \in {"connecting", "query"} /\ fsm' = [fsm EXCEPT ![c] = "entering"]
      /\ pc[t] = "loop" /\ pc'[t] = "next_event" /\ conn'[t] = c
      /\ UNCHANGED <<ready, mail, source>>
  BY <1>0 DEF Answer, Start, Goto, LocalsOK, poolVars, linkVars
<1>2. /\ \A d \in Conns : Fresh(d)' => Fresh(d) /\ d # c
      /\ \A d \in Conns : Busy(d)' => Busy(d) /\ d # c
      /\ Fresh(c) \/ Busy(c)
  BY <1>0, <1>1 DEF SharedOK, SourceOK, Fresh, Busy
<1>3. PICK X : X = {c}
  OBVIOUS
<1>4. /\ Offer("thread", t) = {} /\ Offer("thread", t)' \subseteq Offer("thread", t) \cup X
      /\ "thread" \in Offerers /\ t \in At("thread")
  BY <1>1, <1>3 DEF Offer, ReadyPlaces, Offerers, At
<1>5. \A k \in Offerers : \A x \in At(k) : k # "busy" => c \notin Offer(k, x)
  <2>1. CASE Fresh(c)
    BY <1>0, <2>1 DEF Unoffered
  <2>2. CASE Busy(c)
    <3>1. c \in Offer("busy", c) /\ "busy" \in Offerers /\ c \in At("busy")
      BY <2>2 DEF Offer, Offerers, At
    <3> QED
      BY <1>0, <3>1 DEF Alone
  <2> QED
    BY <1>2, <2>1, <2>2
<1>6. \A d \in At("busy") : Offer("busy", d)' \subseteq Offer("busy", d) \ X
  BY <1>2, <1>3 DEF Offer, At
<1>7. \A m \in Offerers : \A z \in At(m) :
        m # "busy" /\ (m # "thread" \/ z # t) => Offer(m, z)' = Offer(m, z)
  BY <1>1, OfferKeeping DEF Offerers
<1>8. \A m \in Offerers : \A z \in At(m) :
        m # "thread" \/ z # t => Offer(m, z)' \subseteq Offer(m, z) \ X
  BY <1>3, <1>5, <1>6, <1>7
<1>9. Alone'
  BY <1>0, <1>4, <1>8, OfferTo
<1>10. Unoffered'
  <2>1. \A d \in Conns : Fresh(d)' => Fresh(d) /\ d \notin X
    BY <1>2, <1>3
  <2>2. \A k \in Offerers : \A x \in At(k) : Offer(k, x)' \subseteq Offer(k, x) \cup X
    BY <1>4, <1>8
  <2> QED
    BY <1>0, <2>1, <2>2, OfferFresh
<1>11. Unrepeated(ready)' /\ \A d \in Conns : Single(mail[d])'
  BY <1>1, OfferKeeping DEF OfferInv
<1> QED
  BY <1>9, <1>10, <1>11 DEF OfferInv

\* A machine that goes on from idle takes the first of its mail.
LEMMA OfferSettle ==
  ASSUME PlaceOK, OfferInv, NEW t \in Threads, Only(t), SourceOK', Settle(t)
  PROVE  OfferInv'
<1>0. LocalsOK /\ SharedOK /\ ThreadOK(t) /\ SourceOK /\ Alone /\ Unoffered
  BY DEF PlaceOK, OfferInv
<1>1. PICK c \in Conns : c = conn[t]
  BY <1>0 DEF Settle, Goto, LocalsOK, ThreadOK, InHandler, HandlerPlaces
<1>2. /\ pc[t] = "settle" /\ pc'[t] \in {"erase", "loop"} /\ UNCHANGED ready
      /\ source' = [source EXCEPT ![c] = "unplugged"]
      /\ fsm[c] = "entering" \/ (fsm[c] = "ending" /\ source[c] = "idle")
  <2>1. /\ pc[t] = "settle" /\ pc'[t] \in {"erase", "loop"} /\ UNCHANGED ready
        /\ source' = [source EXCEPT ![c] = "unplugged"]
        /\ fsm[c] = "entering" \/ source[c] = "idle"
    BY <1>0, <1>1 DEF Settle, Goto, LocalsOK, poolVars
  <2>2. fsm[c] \in {"entering", "ending"}
    BY <1>0, <1>1, NoneAssumption DEF ThreadOK
  <2> QED
    BY <2>1, <2>2
<1>3. Offer("thread", t)' = {} /\ ~Busy(c) /\ ~Fresh(c)
  BY <1>2 DEF Offer, ReadyPlaces, Busy, Fresh
<1>4. CASE UNCHANGED mail /\ \E v \in {"ending", "idle"} : fsm' = [fsm EXCEPT ![c] = v]
  <2>1. \A d \in Conns : /\ Busy(d)' => Busy(d)
                         /\ Fresh(d)' => Fresh(d)
    BY <1>0, <1>2, <1>4 DEF SharedOK, SourceOK, Busy, Fresh
  <2>2. \A d \in Conns : /\ Letters(mail[d])' # {} => Letters(mail[d]) # {}
                         /\ Single(mail[d])'
    BY <1>4 DEF Letters, Single, OfferInv
  <2> QED
    BY <1>2, <1>3, <2>1, <2>2, OfferLess
<1>5. CASE /\ mail[c] # <<>> /\ Head(mail[c]) # None /\ mail' = [mail EXCEPT ![c] = Tail(@)]
           /\ fsm' = [fsm EXCEPT ![c] = "query"]
  <2>1. PICK s \in Seq(Requests \cup {None}) : s = mail[c]
    BY <1>0 DEF SharedOK
  <2>2. PICK u : u = Tail(s)
    OBVIOUS
  <2>3. s # <<>> /\ Head(s) # None /\ Single(s) /\ mail' = [mail EXCEPT ![c] = u]
    <3>1. Single(s)
      BY <2>1 DEF OfferInv
    <3>2. mail' = [mail EXCEPT ![c] = u]
      BY <1>5, <2>1, <2>2, Zenon
    <3>3. s # <<>> /\ Head(s) # None
      BY <1>5, <2>1
    <3> QED
      BY <3>1, <3>2, <3>3
  <2>4. Single(u) /\ Letters(s) # {} /\ Letters(u) = {}
    BY <2>1, <2>2, <2>3, LettersTail
  <2>5. \A d \in Conns : mail'[d] = IF d = c THEN u ELSE mail[d]
    BY <1>0, <2>3 DEF SharedOK
  <2>6. PICK X : X = {c}
    OBVIOUS
  <2>7. /\ X \subseteq Offer("mail", c) /\ Offer("mail", c)' \subseteq Offer("mail", c) \ X
        /\ \A d \in At("mail") : d # c => Offer("mail", d)' \subseteq Offer("mail", d)
        /\ \A d \in Conns : Single(mail[d])'
    BY <2>1, <2>4, <2>5, <2>6 DEF Offer, Letters, Single, At, OfferInv
  <2>8. /\ \A d \in Conns : Busy(d)' => Busy(d) \/ d = c
        /\ \A d \in Conns : Fresh(d)' => Fresh(d) /\ d # c
    BY <1>0, <1>2, <1>3, <1>5 DEF SharedOK, SourceOK, Busy, Fresh
  <2>9. /\ Offer("busy", c)' \subseteq Offer("busy", c) \cup X
        /\ \A d \in At("busy") : d # c => Offer("busy", d)' \subseteq Offer("busy", d)
    BY <2>6, <2>8 DEF Offer, At
  <2>10. /\ \A u2 \in At("thread") : Offer("thread", u2)' \subseteq Offer("thread", u2)
         /\ \A n \in At("ready") : Offer("ready", n)' \subseteq Offer("ready", n)
         /\ Unrepeated(ready)'
    BY <1>2, <1>3, OfferKeeping DEF OfferInv
  <2>11. /\ "busy" \in Offerers /\ "mail" \in Offerers /\ c \in At("busy") /\ c \in At("mail")
    BY DEF Offerers, At
  <2>12. \A m \in Offerers : \A z \in At(m) :
          (m # "busy" \/ z # c) /\ (m # "mail" \/ z # c) => Offer(m, z)' \subseteq Offer(m, z)
    BY <2>7, <2>9, <2>10 DEF Offerers
  <2>13. Alone'
    <3>1. \A m \in Offerers : \A z \in At(m) :
            m # "busy" \/ z # c => Offer(m, z)' \subseteq Offer(m, z) \ X
      <4> SUFFICES ASSUME NEW m \in Offerers, NEW z \in At(m), m # "busy" \/ z # c
                   PROVE  Offer(m, z)' \subseteq Offer(m, z) \ X
        OBVIOUS
      <4>1. CASE m = "mail" /\ z = c
        BY <2>7, <4>1
      <4>2. CASE m # "mail" \/ z # c
        <5>1. Offer(m, z) \cap Offer("mail", c) = {}
          BY <1>0, <2>11, <4>2 DEF Alone
        <5> QED
          BY <2>7, <2>12, <4>2, <5>1
      <4> QED
        BY <4>1, <4>2
    <3> QED
      <4>1. /\ Alone /\ "busy" \in Offerers /\ c \in At("busy")
            /\ Offer("busy", c)' \subseteq Offer("busy", c) \cup X
        BY <1>0, <2>9, <2>11
      <4>2. Offers(X, "busy", c)
        BY <3>1, <4>1 DEF Offers
      <4> QED
        BY <4>1, <4>2, Offered, Zenon
  <2>14. Unoffered'
    <3>1. \A d \in Conns : Fresh(d)' => Fresh(d) /\ d \notin X
      BY <2>6, <2>8
    <3>2. \A k \in Offerers : \A x \in At(k) : Offer(k, x)' \subseteq Offer(k, x) \cup X
      BY <2>7, <2>9, <2>12
    <3> QED
      BY <1>0, <3>1, <3>2, OfferFresh
  <2> QED
    BY <2>7, <2>10, <2>13, <2>14 DEF OfferInv
<1>6. \/ UNCHANGED mail /\ \E v \in {"ending", "idle"} : fsm' = [fsm EXCEPT ![c] = v]
      \/ /\ mail[c] # <<>> /\ Head(mail[c]) # None /\ mail' = [mail EXCEPT ![c] = Tail(@)]
         /\ fsm' = [fsm EXCEPT ![c] = "query"]
  BY <1>1 DEF Settle, Terminating
<1> QED
  BY <1>4, <1>5, <1>6

\* Every step keeps what is offered apart.
LEMMA OfferStep ==
  ASSUME PlaceOK, OfferInv, NEW t \in Threads, Begin(t) \/ Continue(t)
  PROVE  OfferInv'
<1>1. Only(t)
  BY PlaceStep
<1>2. SourceOK'
  BY SourceStep DEF OfferInv
<1> QED
  BY <1>1, <1>2, OfferRests, OfferMachines, OfferPops, OfferReady, OfferExecute, OfferAnswer,
     OfferSettle DEF Begin, Continue

\* At first nothing is offered.
LEMMA OfferInit == Init => OfferInv
<1> SUFFICES ASSUME Init PROVE OfferInv
  OBVIOUS
<1>1. ready = <<>> /\ (\A c \in Conns : mail[c] = <<>>)
  BY DEF Init
<1>2. Elements(ready) = {} /\ Unrepeated(ready)
  BY <1>1 DEF Elements, Unrepeated
<1>3. \A c \in Conns : Letters(mail[c]) = {} /\ Single(mail[c])
  BY <1>1 DEF Letters, Single
<1>4. /\ SourceOK
      /\ \A c \in Conns : fsm[c] \in {"connecting", "unplugged"}
      /\ \A t \in Threads : pc[t] = "loop"
  BY DEF Init, SourceOK, Machines
<1>5. \A k \in Offerers : \A x \in At(k) : Offer(k, x) = {}
  BY <1>2, <1>3, <1>4 DEF Offerers, At, Offer, Busy, ReadyPlaces
<1> QED
  BY <1>2, <1>3, <1>4, <1>5 DEF OfferInv, Alone, Unoffered, At

\* OfferInv is inductive relative to PlaceOK.
LEMMA OfferNext == PlaceOK /\ OfferInv /\ [Next]_vars => OfferInv'
<1> SUFFICES ASSUME PlaceOK, OfferInv, [Next]_vars PROVE OfferInv'
  OBVIOUS
<1>1. CASE UNCHANGED vars
  <2>1. UNCHANGED <<pc, conn, target, ready, mail, fsm, source>>
    BY <1>1 DEF vars, shared, poolVars, machineVars, linkVars, locals
  <2>2. \A k \in Offerers : \A x \in At(k) : Offer(k, x)' = Offer(k, x)
    BY <2>1 DEF Offer, Elements, Letters, Busy
  <2>3. \A c \in Conns : Fresh(c)' = Fresh(c)
    BY <2>1 DEF Fresh
  <2>4. Alone' /\ Unoffered'
    BY <2>2, <2>3 DEF OfferInv, Alone, Unoffered, At
  <2>5. SourceOK' /\ Unrepeated(ready)' /\ \A c \in Conns : Single(mail[c])'
    BY <2>1 DEF OfferInv, SourceOK, Unrepeated, Letters, Single
  <2> QED
    BY <2>4, <2>5 DEF OfferInv
<1> QED
  BY <1>1, OfferStep DEF Next

\* A connection that lives is offered once, whatever the threads do: it is in
\* ready_connections_, in the hands of one thread in get_connection, mailed one
\* request or at work with one.
THEOREM OfferedOnceCorrect == Spec => []OfferedOnce
<1>1. PlaceOK /\ OfferInv => OfferedOnce
  <2> SUFFICES ASSUME PlaceOK, OfferInv, NEW c \in Conns
               PROVE  Occurrences(ready, c)
                        + Cardinality({t \in Threads : pc[t] = "execute" /\ target[t] = c})
                        + Cardinality({i \in 1..Len(mail[c]) : mail[c][i] # None})
                        + (IF fsm[c] = "query" THEN 1 ELSE 0) <= 1
    BY DEF OfferedOnce, Live
  <2> DEFINE In(k) == \E x \in At(k) : c \in Offer(k, x)
             R == {i \in 1..Len(ready) : ready[i] = c}
             T == {t \in Threads : pc[t] = "execute" /\ target[t] = c}
             M == Letters(mail[c])
  <2>1. Cardinality(R) = IF R = {} THEN 0 ELSE 1
    <3>1. \A i, j \in R : i = j
      BY DEF OfferInv, Unrepeated
    <3> HIDE DEF R
    <3> QED
      BY <3>1, AtMostOne
  <2>2. R # {} => In("ready")
    BY DEF Offer, At, Elements
  <2>3. Cardinality(T) = IF T = {} THEN 0 ELSE 1
    <3>1. \A t, u \in T : t = u
      <4> SUFFICES ASSUME NEW t \in T, NEW u \in T PROVE t = u
        OBVIOUS
      <4>1. /\ t \in At("thread") /\ u \in At("thread") /\ "thread" \in Offerers
            /\ c \in Offer("thread", t) \cap Offer("thread", u)
        BY DEF At, Offer, Offerers
      <4> QED
        BY <4>1 DEF OfferInv, Alone
    <3> HIDE DEF T
    <3> QED
      BY <3>1, AtMostOne
  <2>4. T # {} => In("thread")
    BY DEF Offer, At
  <2>5. Cardinality(M) = IF M = {} THEN 0 ELSE 1
    <3>1. \A i, j \in M : i = j
      BY DEF OfferInv, Single
    <3> HIDE DEF M
    <3> QED
      BY <3>1, AtMostOne
  <2>6. M # {} => In("mail")
    BY DEF Offer, At
  <2>7. fsm[c] = "query" => In("busy")
    BY DEF Offer, At, Busy
  <2>8. \A k, l \in Offerers : In(k) /\ In(l) => k = l
    BY DEF OfferInv, Alone
  <2> HIDE DEF In
  <2>9. /\ ~(In("ready") /\ In("thread")) /\ ~(In("ready") /\ In("mail"))
        /\ ~(In("ready") /\ In("busy")) /\ ~(In("thread") /\ In("mail"))
        /\ ~(In("thread") /\ In("busy")) /\ ~(In("mail") /\ In("busy"))
    BY <2>8 DEF Offerers
  <2>10. /\ Occurrences(ready, c) = Cardinality(R)
         /\ Cardinality({i \in 1..Len(mail[c]) : mail[c][i] # None}) = Cardinality(M)
    BY DEF Occurrences, Letters
  <2> HIDE DEF R, T, M
  <2>11. /\ Cardinality({t \in Threads : pc[t] = "execute" /\ target[t] = c}) = Cardinality(T)
    BY DEF T
  <2> QED
    BY <2>1, <2>2, <2>3, <2>4, <2>5, <2>6, <2>7, <2>9, <2>10, <2>11
<1> QED
  BY <1>1, OfferInit, OfferNext, PlaceInvariant, PTL DEF Spec
=============================================================================
