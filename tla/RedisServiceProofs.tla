------------------------- MODULE RedisServiceProofs -------------------------
(***************************************************************************)
(* Theorems about RedisService for any threads, aliases, pool sizes and    *)
(* numbers of redis_impl: stop closes every pool, and the count of the     *)
(* close callbacks does not miss the last one.                             *)
(***************************************************************************)
EXTENDS RedisService, FiniteSetTheorems, TLAPS

-----------------------------------------------------------------------------
(* What a step does to a pool.                                             *)

\* The two numbers of a pool change.
Counted(p, x, y) == [p EXCEPT !.live = x, !.calls = y]

LEMMA CountedType ==
  ASSUME NEW p \in Pools, NEW x \in 0..PoolSize, NEW y \in Int
  PROVE  /\ Counted(p, x, y) \in Pools
         /\ Counted(p, x, y).closed = p.closed
         /\ Counted(p, x, y).calls = y
<1>1. [p EXCEPT !.live = x, !.calls = y] = [[p EXCEPT !.live = x] EXCEPT !.calls = y]
  BY Zenon
<1>2. PICK r : r = [p EXCEPT !.live = x]
  OBVIOUS
<1>3. r \in Pools /\ r.closed = p.closed
  BY <1>2 DEF Pools
<1>4. PICK q : q = [r EXCEPT !.calls = y]
  OBVIOUS
<1>5. Counted(p, x, y) = q
  BY <1>1, <1>2, <1>4, Zenon DEF Counted
<1> QED
  BY <1>3, <1>4, <1>5 DEF Pools

\* close_connections ends k of the connections and makes a call or two.
LEMMA SweptType ==
  ASSUME NEW p \in Pools, NEW k \in 0..p.live
  PROVE  /\ Swept(p, k) \in Pools
         /\ Swept(p, k).closed = p.closed
         /\ Swept(p, k).calls > p.calls
<1> DEFINE x == p.live - k
           y == p.calls + (IF k > 0 /\ k = p.live THEN 2 ELSE 1)
<1>1. x \in 0..PoolSize /\ y \in Int /\ y > p.calls
  BY PoolSizeAssumption DEF Pools
<1>2. Swept(p, k) = Counted(p, x, y)
  BY Zenon DEF Swept, Counted
<1> HIDE DEF x, y
<1> QED
  BY <1>1, <1>2, CountedType

\* A request leaves an open pool open, and no pool makes a call.
LEMMA AfterRequestType ==
  ASSUME NEW p \in Pools, NEW q \in AfterRequest(p, PoolSize)
  PROVE  q \in Pools /\ q.closed = p.closed /\ q.calls = p.calls
  BY PoolSizeAssumption DEF AfterRequest, Pools

\* close closes.
LEMMA AfterCloseType ==
  ASSUME NEW p \in Pools, NEW q \in AfterClose(p)
  PROVE  q \in Pools /\ q.closed /\ q.calls >= p.calls
<1> DEFINE r == [p EXCEPT !.closed = TRUE]
<1>1. r \in Pools /\ r.live = p.live /\ r.closed /\ r.calls = p.calls
  BY DEF Pools
<1>2. CASE p.closed
  BY <1>2 DEF AfterClose, Pools
<1>3. CASE q = r
  BY <1>1, <1>3 DEF Pools
<1>4. ASSUME NEW k \in 0..r.live, q = Swept(r, k)
      PROVE  q \in Pools /\ q.closed /\ q.calls >= p.calls
  <2> HIDE DEF r
  <2> QED
    BY <1>1, <1>4, SweptType DEF Pools
<1> QED
  BY <1>2, <1>3, <1>4 DEF AfterClose

\* A handler makes calls only of a closed pool.
LEMMA AfterHandlerType ==
  ASSUME NEW p \in Pools, NEW q \in AfterHandler(p)
  PROVE  /\ q \in Pools /\ q.closed = p.closed /\ q.calls >= p.calls
         /\ ~p.closed => q.calls = p.calls
<1>1. CASE p.closed /\ \E k \in 1..p.live : q = Swept(p, k)
  <2>1. PICK k \in 0..p.live : q = Swept(p, k)
    BY <1>1 DEF Pools
  <2>2. q \in Pools /\ q.closed = p.closed /\ q.calls > p.calls
    BY <2>1, SweptType
  <2> QED
    BY <1>1, <2>2 DEF Pools
<1>2. CASE /\ p.live > 0
           /\ q = [p EXCEPT !.live = @ - 1,
                            !.calls = @ + (IF p.closed /\ p.live = 1 THEN 1 ELSE 0)]
  <2> DEFINE x == p.live - 1
             y == p.calls + (IF p.closed /\ p.live = 1 THEN 1 ELSE 0)
  <2>1. /\ x \in 0..PoolSize /\ y \in Int /\ y >= p.calls
        /\ ~p.closed => y = p.calls
    BY <1>2, PoolSizeAssumption DEF Pools
  <2>2. q = Counted(p, x, y)
    BY <1>2, Zenon DEF Counted
  <2> HIDE DEF x, y
  <2> QED
    BY <2>1, <2>2, CountedType
<1> QED
  BY <1>1, <1>2 DEF AfterHandler
-----------------------------------------------------------------------------
(* The invariant.  TypeOK is not inductive: the pointer that stop uses must *)
(* not change under it.  Why no pool stays open: only the redis_impl behind *)
(* the pointer is running, so nobody can add a pool to another.             *)

Made(i) == {a \in Aliases : pool[i][a] # NoPool}

\* The pools whose close callback was not called.
Silent(i) == {a \in Made(i) : pool[i][a].calls = 0}

\* The lock, and the pointer it protects.
LockOK ==
  /\ pimpl \in {0, created}
  /\ stopper = None => toClose = {}
  /\ stopper # None => pimpl # 0 /\ toClose \subseteq connections[pimpl]
  /\ \A t \in Threads : call[t].on <= created

StateOK ==
  \A i \in Ids : state[i] = "closing" <=> i <= created /\ (i = pimpl => stopper # None)

MadeOK ==
  \A i \in Ids :
    /\ connections[i] = IF i = pimpl THEN Made(i) ELSE {}
    /\ i > created => Made(i) = {}
    /\ IsFiniteSet(Made(i))

\* A pool is open exactly as long as stop has not reached it.
OpenOK ==
  \A i \in Ids : \A a \in Made(i) :
    /\ pool[i][a].calls >= 0
    /\ state[i] = "running" => ~pool[i][a].closed
    /\ ~pool[i][a].closed => /\ pool[i][a].calls = 0
                             /\ state[i] = "running" \/ (i = pimpl /\ a \in toClose)

\* The count is at most the number of pools that have not called back, and when
\* it is not positive the io_service is stopped.
CountOK ==
  \A i \in Ids : state[i] = "closing" /\ Made(i) # {} =>
    /\ pool_count[i] <= Cardinality(Silent(i))
    /\ stopped[i] \/ pool_count[i] >= 1

ServiceInv == TypeOK /\ LockOK /\ StateOK /\ MadeOK /\ OpenOK /\ CountOK

\* A pool becomes another.
SetsPool(i, a, p) == pool' = [pool EXCEPT ![i][a] = p]

LEMMA PoolSet ==
  ASSUME TypeOK, NEW i \in Ids, NEW a \in Aliases, NEW p \in Pools, SetsPool(i, a, p)
  PROVE  /\ pool' \in [Ids -> [Aliases -> Pools]]
         /\ \A j \in Ids, b \in Aliases :
              pool'[j][b] = IF j = i /\ b = a THEN p ELSE pool[j][b]
  BY DEF TypeOK, SetsPool

\* The callbacks of a pool that exists are counted.
LEMMA StepCounted ==
  ASSUME ServiceInv, NEW i \in Ids, NEW a \in Made(i), NEW after,
         \A q \in after : /\ q \in Pools /\ q.calls >= pool[i][a].calls
                          /\ q.closed \/ (~pool[i][a].closed /\ q.calls = pool[i][a].calls),
         PoolStep(i, a, after)
  PROVE  /\ pool' \in [Ids -> [Aliases -> Pools]]
         /\ pool_count' \in [Ids -> Int] /\ stopped' \in [Ids -> BOOLEAN]
         /\ pool'[i][a] \in after
         /\ \A j \in Ids, b \in Aliases : ~(j = i /\ b = a) => pool'[j][b] = pool[j][b]
         /\ \A j \in Ids : Made(j)' = Made(j)
         /\ \A j \in Ids : \A b \in Made(j) :
              /\ pool'[j][b].calls >= 0
              /\ ~pool'[j][b].closed => ~pool[j][b].closed /\ pool'[j][b].calls = 0
         /\ \A j \in Ids : state[j] = "closing" /\ Made(j) # {} =>
              /\ pool_count'[j] <= Cardinality(Silent(j)')
              /\ stopped'[j] \/ pool_count'[j] >= 1
<1> USE DEF ServiceInv
<1>1. PICK q \in after :
        pool' = [pool EXCEPT ![i][a] = q] /\ Count(i, q.calls - pool[i][a].calls)
  BY DEF PoolStep
<1> DEFINE n == q.calls - pool[i][a].calls
<1>2. a \in Aliases /\ pool[i][a] \in Pools /\ pool[i][a].calls >= 0
  BY DEF Made, TypeOK, OpenOK
<1>3. /\ q \in Pools /\ q.calls >= pool[i][a].calls
      /\ q.closed \/ (~pool[i][a].closed /\ q.calls = pool[i][a].calls)
  OBVIOUS
<1>4. n \in Nat /\ pool[i][a].calls \in Nat /\ q.calls \in Nat /\ q.calls = pool[i][a].calls + n
  BY <1>2, <1>3 DEF Pools
<1>5. /\ pool' \in [Ids -> [Aliases -> Pools]]
      /\ \A j \in Ids, b \in Aliases :
           pool'[j][b] = IF j = i /\ b = a THEN q ELSE pool[j][b]
  <2>1. SetsPool(i, a, q) /\ TypeOK
    BY <1>1 DEF SetsPool
  <2> QED
    BY <1>2, <1>3, <2>1, PoolSet
<1>6. q # NoPool
  BY <1>4 DEF NoPool
<1>7. \A j \in Ids : Made(j)' = Made(j)
  BY <1>5, <1>6 DEF Made
<1>8. /\ pool_count' = [pool_count EXCEPT ![i] = @ - n]
      /\ stopped' = [stopped EXCEPT ![i] = @ \/ pool_count[i] \in 1..n]
  BY <1>1 DEF Count
<1> HIDE DEF n
<1>9. pool_count' \in [Ids -> Int] /\ stopped' \in [Ids -> BOOLEAN]
  BY <1>4, <1>8 DEF TypeOK
<1>10. ASSUME NEW j \in Ids, NEW b \in Made(j)
       PROVE  /\ pool'[j][b].calls >= 0
              /\ ~pool'[j][b].closed => ~pool[j][b].closed /\ pool'[j][b].calls = 0
  <2>1. /\ b \in Aliases /\ pool[j][b].calls >= 0
        /\ ~pool[j][b].closed => pool[j][b].calls = 0
    BY DEF Made, OpenOK
  <2>2. CASE j = i /\ b = a
    <3>1. pool'[j][b] = q
      BY <1>5, <2>1, <2>2
    <3>2. ~q.closed => ~pool[j][b].closed /\ q.calls = 0
      BY <1>3, <2>1, <2>2
    <3> QED
      BY <1>4, <3>1, <3>2
  <2>3. CASE ~(j = i /\ b = a)
    BY <1>5, <2>1, <2>3
  <2> QED
    BY <2>2, <2>3
<1>11. ASSUME NEW j \in Ids, state[j] = "closing", Made(j) # {}
       PROVE  /\ pool_count'[j] <= Cardinality(Silent(j)')
              /\ stopped'[j] \/ pool_count'[j] >= 1
  <2>1. /\ IsFiniteSet(Silent(j)) /\ Cardinality(Silent(j)) \in Nat
        /\ pool_count[j] \in Int /\ stopped[j] \in BOOLEAN
        /\ pool_count[j] <= Cardinality(Silent(j))
        /\ stopped[j] \/ pool_count[j] >= 1
    <3>1. IsFiniteSet(Silent(j))
      BY FS_Subset DEF MadeOK, Silent
    <3> QED
      BY <1>11, <3>1, FS_CardinalityType DEF CountOK, TypeOK
  <2>2. CASE j # i
    <3>1. Silent(j)' = Silent(j)
      BY <1>5, <1>7, <2>2 DEF Silent, Made
    <3> QED
      BY <1>8, <2>1, <2>2, <3>1 DEF TypeOK
  <2>3. CASE j = i
    <3>1. pool_count'[i] = pool_count[i] - n
      BY <1>8 DEF TypeOK
    <3>2. stopped'[i] \/ pool_count'[i] >= 1
      <4>1. stopped'[i] = (stopped[i] \/ pool_count[i] \in 1..n)
        BY <1>8 DEF TypeOK
      <4>2. CASE stopped[i]
        BY <4>1, <4>2
      <4>3. CASE pool_count[i] >= 1
        <5>1. pool_count[i] \in 1..n \/ pool_count[i] - n >= 1
          BY <1>4, <2>1, <2>3, <4>3
        <5> QED
          BY <3>1, <4>1, <5>1
      <4> QED
        BY <2>1, <2>3, <4>2, <4>3
    <3>3. pool_count'[i] <= Cardinality(Silent(i)')
      <4>1. CASE pool[i][a].calls = 0 /\ n > 0
        <5>1. a \in Silent(i)
          BY <4>1 DEF Silent
        <5>2. Silent(i)' = Silent(i) \ {a}
          BY <1>2, <1>4, <1>5, <1>7, <4>1 DEF Silent, Made
        <5>3. Cardinality(Silent(i)') = Cardinality(Silent(i)) - 1
          BY <2>1, <2>3, <5>1, <5>2, FS_RemoveElement
        <5> QED
          BY <1>4, <2>1, <2>3, <3>1, <4>1, <5>3
      <4>2. CASE pool[i][a].calls # 0 \/ n = 0
        <5>1. q.calls = 0 <=> pool[i][a].calls = 0
          BY <1>4, <4>2
        <5>2. Silent(i)' = Silent(i)
          BY <1>2, <1>5, <1>7, <5>1 DEF Silent, Made
        <5> QED
          BY <1>4, <2>1, <2>3, <3>1, <5>2
      <4> QED
        BY <1>4, <4>1, <4>2
    <3> QED
      BY <2>3, <3>2, <3>3
  <2> QED
    BY <2>2, <2>3
<1>12. pool'[i][a] \in after
  BY <1>2, <1>5
<1>13. \A j \in Ids, b \in Aliases : ~(j = i /\ b = a) => pool'[j][b] = pool[j][b]
  BY <1>5
<1> QED
  BY <1>5, <1>7, <1>9, <1>10, <1>11, <1>12, <1>13

LEMMA ServiceInvInit == Init => ServiceInv
<1> SUFFICES ASSUME Init PROVE ServiceInv
  OBVIOUS
<1> USE DEF Init
<1>1. \A i \in Ids : Made(i) = {}
  BY DEF Made
<1>2. TypeOK
  <2>1. NoPool \in Pools /\ 0 \in 0..Instances
    BY PoolSizeAssumption, InstancesAssumption DEF NoPool, Pools
  <2>2. pool \in [Ids -> [Aliases -> Pools]]
    BY <2>1
  <2> QED
    BY <2>1, <2>2 DEF TypeOK
<1>3. LockOK /\ StateOK
  BY DEF LockOK, StateOK, Ids, NoCall
<1>4. MadeOK
  BY <1>1, FS_EmptySet DEF MadeOK
<1>5. OpenOK /\ CountOK
  BY <1>1 DEF OpenOK, CountOK
<1> QED
  BY <1>2, <1>3, <1>4, <1>5 DEF ServiceInv

\* A call that begins may make a redis_impl, of which there are no pools yet.
LEMMA ServiceEnter ==
  ASSUME ServiceInv, NEW t \in Threads, NEW op \in Ops, Enter(t, op)
  PROVE  ServiceInv'
<1> USE DEF ServiceInv
<1>1. /\ stopper = None /\ toClose = {} /\ pimpl' \in Ids
      /\ pimpl' = created' /\ created' \in {created, created + 1}
      /\ pimpl = 0 => created' = created + 1
      /\ pimpl # 0 => pimpl' = pimpl /\ created' = created
      /\ created \in Nat
      /\ UNCHANGED <<state, connections, pool, pool_count, stopped, stopper, toClose>>
  BY InstancesAssumption DEF Enter, Unlocked, LockOK, TypeOK
<1>2. TypeOK'
  <2>1. call' \in [Threads -> {NoCall} \cup [op : Ops, on : Ids]]
    BY <1>1 DEF Enter, TypeOK
  <2> QED
    BY <1>1, <2>1, InstancesAssumption DEF TypeOK, Ids
<1>3. LockOK'
  <2>1. ASSUME NEW u \in Threads PROVE call'[u].on <= created'
    <3>1. CASE u = t
      BY <1>1, <3>1 DEF Enter, TypeOK, Ids
    <3>2. CASE u # t
      <4>1. call'[u] = call[u] /\ call[u].on <= created /\ call[u].on \in Int
        BY <3>2 DEF Enter, TypeOK, LockOK, NoCall, Ids
      <4> QED
        BY <1>1, <4>1
    <3> QED
      BY <3>1, <3>2
  <2> QED
    BY <1>1, <2>1 DEF LockOK
<1>4. \A i \in Ids : Made(i)' = Made(i) /\ Silent(i)' = Silent(i)
  BY <1>1 DEF Made, Silent
<1>5. StateOK'
  BY <1>1, InstancesAssumption DEF StateOK, Ids
<1>6. MadeOK'
  BY <1>1, <1>4, InstancesAssumption DEF MadeOK, Ids
<1>7. OpenOK' /\ CountOK'
  BY <1>1, <1>4 DEF OpenOK, CountOK
<1> QED
  BY <1>2, <1>3, <1>5, <1>6, <1>7

\* A call that ends.
LEMMA CallEnds ==
  ASSUME ServiceInv, NEW t \in Threads, Returns(t)
  PROVE  /\ call' \in [Threads -> {NoCall} \cup [op : Ops, on : Ids]]
         /\ \A u \in Threads : call'[u].on <= created
<1>1. \A u \in Threads : call'[u] = IF u = t THEN NoCall ELSE call[u]
  BY DEF Returns, ServiceInv, TypeOK
<1>2. NoCall.on = 0 /\ created \in Nat
  BY InstancesAssumption DEF NoCall, ServiceInv, TypeOK
<1> QED
  BY <1>1, <1>2 DEF Returns, ServiceInv, TypeOK, LockOK

LEMMA ServiceQuiet ==
  ASSUME ServiceInv, NEW t \in Threads, Throw(t) \/ NothingToDo(t) \/ RunReturns(t)
  PROVE  ServiceInv'
<1> USE DEF ServiceInv
<1>1. /\ Returns(t)
      /\ UNCHANGED <<pimpl, created, state, connections, pool, pool_count, stopped,
                     stopper, toClose>>
  BY DEF Throw, NothingToDo, RunReturns
<1>2. TypeOK' /\ LockOK'
  BY <1>1, CallEnds DEF TypeOK, LockOK
<1>3. \A i \in Ids : Made(i)' = Made(i) /\ Silent(i)' = Silent(i)
  BY <1>1 DEF Made, Silent
<1>4. StateOK' /\ MadeOK' /\ OpenOK' /\ CountOK'
  BY <1>1, <1>3 DEF StateOK, MadeOK, OpenOK, CountOK
<1> QED
  BY <1>2, <1>4

\* Who adds or executes found the redis_impl running: it is the one behind the
\* pointer, and no stop is at work on it.
LEMMA RunningIsCurrent ==
  ASSUME ServiceInv, NEW t \in Threads, call[t].op \in Ops, state[call[t].on] = "running"
  PROVE  call[t].on \in Ids /\ call[t].on = pimpl /\ stopper = None /\ toClose = {}
<1> USE DEF ServiceInv
<1>1. call[t].on \in Ids
  BY DEF TypeOK, NoCall, Ops
<1>2. call[t].on <= created
  BY DEF LockOK
<1> QED
  BY <1>1, <1>2 DEF StateOK, LockOK

LEMMA ServiceAdd ==
  ASSUME ServiceInv, NEW t \in Threads, Add(t)
  PROVE  ServiceInv'
<1> USE DEF ServiceInv
<1> DEFINE i == call[t].on
<1>1. i \in Ids /\ i = pimpl /\ stopper = None /\ toClose = {} /\ state[i] = "running"
  BY RunningIsCurrent DEF Add, Ops
<1>2. PICK a \in Aliases \ connections[i] :
        /\ connections' = [connections EXCEPT ![i] = @ \cup {a}]
        /\ pool' = [pool EXCEPT ![i][a] = FreshPool]
  BY DEF Add
<1>3. /\ Returns(t)
      /\ UNCHANGED <<pimpl, created, state, pool_count, stopped, stopper, toClose>>
  BY DEF Add
<1> HIDE DEF i
<1>4. /\ FreshPool \in Pools /\ FreshPool # NoPool
      /\ ~FreshPool.closed /\ FreshPool.calls = 0
  BY PoolSizeAssumption DEF FreshPool, NoPool, Pools
<1>5. /\ pool' \in [Ids -> [Aliases -> Pools]]
      /\ \A j \in Ids, b \in Aliases :
           pool'[j][b] = IF j = i /\ b = a THEN FreshPool ELSE pool[j][b]
  <2>1. PICK p \in Pools : p = FreshPool
    BY <1>4
  <2>2. a \in Aliases /\ pool' = [pool EXCEPT ![i][a] = p]
    BY <1>2, <2>1
  <2>3. /\ pool' \in [Ids -> [Aliases -> Pools]]
        /\ \A j \in Ids, b \in Aliases :
             pool'[j][b] = IF j = i /\ b = a THEN p ELSE pool[j][b]
    <3>1. SetsPool(i, a, p) /\ TypeOK
      BY <2>2 DEF SetsPool
    <3> QED
      BY <1>1, <2>2, <3>1, PoolSet
  <2> QED
    BY <2>1, <2>3, Zenon
<1>6. /\ connections' \in [Ids -> SUBSET Aliases]
      /\ \A j \in Ids : connections'[j] = IF j = i THEN connections[j] \cup {a}
                                                   ELSE connections[j]
  BY <1>1, <1>2 DEF TypeOK
<1>7. \A j \in Ids : /\ Made(j)' = IF j = i THEN Made(j) \cup {a} ELSE Made(j)
                     /\ j # i => Silent(j)' = Silent(j)
  BY <1>2, <1>4, <1>5 DEF Made, Silent
<1>8. TypeOK'
  BY <1>3, <1>5, <1>6, CallEnds DEF TypeOK
<1>9. LockOK' /\ StateOK'
  BY <1>1, <1>3, CallEnds DEF LockOK, StateOK
<1>10. MadeOK'
  <2>1. \A j \in Ids : IsFiniteSet(Made(j)')
    BY <1>7, FS_AddElement DEF MadeOK
  <2>2. ~(i > created)
    BY <1>1, InstancesAssumption DEF LockOK, TypeOK, Ids
  <2> QED
    BY <1>1, <1>3, <1>6, <1>7, <2>1, <2>2 DEF MadeOK
<1>11. OpenOK'
  <2> SUFFICES ASSUME NEW j \in Ids, NEW b \in Made(j)'
               PROVE  /\ pool'[j][b].calls >= 0
                      /\ state[j] = "running" => ~pool'[j][b].closed
                      /\ ~pool'[j][b].closed =>
                           /\ pool'[j][b].calls = 0
                           /\ state[j] = "running" \/ (j = pimpl /\ b \in toClose)
    BY <1>3 DEF OpenOK
  <2>1. b \in Aliases
    BY DEF Made
  <2>2. CASE j = i /\ b = a
    BY <1>1, <1>4, <1>5, <2>1, <2>2
  <2>3. CASE ~(j = i /\ b = a)
    <3>1. b \in Made(j) /\ pool'[j][b] = pool[j][b]
      BY <1>5, <1>7, <2>1, <2>3
    <3> QED
      BY <3>1 DEF OpenOK
  <2> QED
    BY <2>2, <2>3
<1>12. CountOK'
  BY <1>1, <1>3, <1>7 DEF CountOK
<1> QED
  BY <1>8, <1>9, <1>10, <1>11, <1>12

LEMMA ServiceExecute ==
  ASSUME ServiceInv, NEW t \in Threads, Execute(t)
  PROVE  ServiceInv'
<1> USE DEF ServiceInv
<1> DEFINE i == call[t].on
<1>1. i \in Ids /\ i = pimpl /\ stopper = None /\ toClose = {} /\ state[i] = "running"
  BY RunningIsCurrent DEF Execute, Ops
<1>2. PICK a \in connections[i] : \E p \in AfterRequest(pool[i][a], PoolSize) :
        pool' = [pool EXCEPT ![i][a] = p]
  BY DEF Execute
<1>3. PICK p \in AfterRequest(pool[i][a], PoolSize) : pool' = [pool EXCEPT ![i][a] = p]
  BY <1>2
<1>4. /\ Returns(t)
      /\ UNCHANGED <<pimpl, created, state, connections, pool_count, stopped,
                     stopper, toClose>>
  BY DEF Execute
<1> HIDE DEF i
<1>5. a \in Aliases /\ a \in Made(i) /\ pool[i][a] \in Pools /\ pool[i][a].calls >= 0
  <2>1. a \in Aliases /\ a \in Made(i)
    BY <1>1, <1>2 DEF TypeOK, MadeOK
  <2> QED
    BY <1>1, <2>1 DEF TypeOK, OpenOK
<1>6. p \in Pools /\ p.closed = pool[i][a].closed /\ p.calls = pool[i][a].calls
  BY <1>5, AfterRequestType
<1>7. p # NoPool
  BY <1>5, <1>6 DEF NoPool
<1>8. /\ pool' \in [Ids -> [Aliases -> Pools]]
      /\ \A j \in Ids, b \in Aliases :
           pool'[j][b] = IF j = i /\ b = a THEN p ELSE pool[j][b]
  <2>1. SetsPool(i, a, p) /\ TypeOK
    BY <1>3 DEF SetsPool
  <2> QED
    BY <1>1, <1>5, <1>6, <2>1, PoolSet
<1>9. \A j \in Ids : Made(j)' = Made(j) /\ (j # i => Silent(j)' = Silent(j))
  BY <1>5, <1>7, <1>8 DEF Made, Silent
<1>10. TypeOK' /\ LockOK' /\ StateOK'
  BY <1>4, <1>8, CallEnds DEF TypeOK, LockOK, StateOK
<1>11. MadeOK'
  BY <1>4, <1>9 DEF MadeOK
<1>12. \A j \in Ids, b \in Aliases : /\ pool'[j][b].closed = pool[j][b].closed
                                     /\ pool'[j][b].calls = pool[j][b].calls
  BY <1>6, <1>8
<1>13. OpenOK'
  BY <1>4, <1>9, <1>12 DEF OpenOK, Made
<1>14. CountOK'
  BY <1>1, <1>4, <1>9 DEF CountOK
<1> QED
  BY <1>10, <1>11, <1>13, <1>14

\* stop counts the pools, none of which has called back.
LEMMA ServiceStopBegin ==
  ASSUME ServiceInv, NEW t \in Threads, StopBegin(t)
  PROVE  ServiceInv'
<1> USE DEF ServiceInv
<1>1. /\ stopper = None /\ pimpl \in Ids /\ pimpl = created /\ t # None
      /\ stopper' = t /\ toClose' = connections[pimpl]
      /\ state' = [state EXCEPT ![pimpl] = "closing"]
      /\ pool_count' = [pool_count EXCEPT ![pimpl] = Cardinality(connections[pimpl])]
      /\ UNCHANGED <<pimpl, created, connections, pool, stopped, call>>
  BY NoneAssumption, InstancesAssumption DEF StopBegin, Unlocked, LockOK, TypeOK, Ids
<1>2. state[pimpl] = "running" /\ connections[pimpl] = Made(pimpl)
  BY <1>1 DEF StateOK, MadeOK, TypeOK
<1>3. IsFiniteSet(Made(pimpl)) /\ Cardinality(Made(pimpl)) \in Nat
  BY <1>1, FS_CardinalityType DEF MadeOK
<1>4. \A j \in Ids : Made(j)' = Made(j) /\ Silent(j)' = Silent(j)
  BY <1>1 DEF Made, Silent
<1>5. \A a \in Made(pimpl) : ~pool[pimpl][a].closed /\ pool[pimpl][a].calls = 0
  BY <1>1, <1>2 DEF OpenOK
<1>6. Silent(pimpl) = Made(pimpl)
  BY <1>5 DEF Silent
<1>7. TypeOK'
  BY <1>1, <1>2, <1>3 DEF TypeOK
<1>8. LockOK' /\ StateOK'
  BY <1>1, InstancesAssumption DEF LockOK, StateOK, TypeOK, Ids
<1>9. MadeOK'
  BY <1>1, <1>4 DEF MadeOK
<1>10. OpenOK'
  BY <1>1, <1>2, <1>4 DEF OpenOK, TypeOK
<1>11. CountOK'
  <2> SUFFICES ASSUME NEW j \in Ids, state'[j] = "closing", Made(j) # {}
               PROVE  /\ pool_count'[j] <= Cardinality(Silent(j))
                      /\ stopped[j] \/ pool_count'[j] >= 1
    BY <1>1, <1>4 DEF CountOK
  <2>1. CASE j = pimpl
    <3>1. pool_count'[j] = Cardinality(Made(j))
      BY <1>1, <1>2, <2>1 DEF TypeOK
    <3>2. Cardinality(Made(j)) # 0
      BY <1>3, <2>1, FS_EmptySet
    <3> QED
      BY <1>3, <1>6, <2>1, <3>1, <3>2
  <2>2. CASE j # pimpl
    BY <1>1, <2>2 DEF CountOK, TypeOK
  <2> QED
    BY <2>1, <2>2
<1> QED
  BY <1>7, <1>8, <1>9, <1>10, <1>11

LEMMA ServiceClosePool ==
  ASSUME ServiceInv, ClosePool
  PROVE  ServiceInv'
<1> USE DEF ServiceInv
<1>1. PICK a \in toClose : /\ toClose' = toClose \ {a}
                           /\ PoolStep(pimpl, a, AfterClose(pool[pimpl][a]))
  BY DEF ClosePool
<1>2. UNCHANGED <<pimpl, created, state, connections, call, stopper>>
  BY DEF ClosePool
<1>3. stopper # None /\ pimpl \in Ids /\ a \in Aliases /\ a \in Made(pimpl) /\ state[pimpl] = "closing"
  <2>1. stopper # None /\ pimpl # 0 /\ a \in connections[pimpl]
    BY <1>1 DEF LockOK
  <2>2. pimpl \in Ids /\ pimpl <= created
    BY <2>1, InstancesAssumption DEF LockOK, TypeOK, Ids
  <2> QED
    BY <2>1, <2>2 DEF MadeOK, StateOK, TypeOK
<1>4. pool[pimpl][a] \in Pools
  BY <1>3 DEF TypeOK
<1>5. \A q \in AfterClose(pool[pimpl][a]) :
        q \in Pools /\ q.calls >= pool[pimpl][a].calls /\ q.closed
  BY <1>4, AfterCloseType
<1>6. /\ pool' \in [Ids -> [Aliases -> Pools]]
      /\ pool_count' \in [Ids -> Int] /\ stopped' \in [Ids -> BOOLEAN]
      /\ pool'[pimpl][a] \in AfterClose(pool[pimpl][a])
      /\ \A j \in Ids, b \in Aliases : ~(j = pimpl /\ b = a) => pool'[j][b] = pool[j][b]
      /\ \A j \in Ids : Made(j)' = Made(j)
      /\ \A j \in Ids : \A b \in Made(j) :
           /\ pool'[j][b].calls >= 0
           /\ ~pool'[j][b].closed => ~pool[j][b].closed /\ pool'[j][b].calls = 0
      /\ \A j \in Ids : state[j] = "closing" /\ Made(j) # {} =>
           /\ pool_count'[j] <= Cardinality(Silent(j)')
           /\ stopped'[j] \/ pool_count'[j] >= 1
  BY <1>1, <1>3, <1>5, StepCounted
<1>7. TypeOK' /\ LockOK' /\ StateOK'
  BY <1>1, <1>2, <1>3, <1>6 DEF TypeOK, LockOK, StateOK
<1>8. MadeOK'
  BY <1>2, <1>6 DEF MadeOK
<1>9. OpenOK'
  <2> SUFFICES ASSUME NEW j \in Ids, NEW b \in Made(j)
               PROVE  /\ pool'[j][b].calls >= 0
                      /\ state[j] = "running" => ~pool'[j][b].closed
                      /\ ~pool'[j][b].closed =>
                           /\ pool'[j][b].calls = 0
                           /\ state[j] = "running" \/ (j = pimpl /\ b \in toClose')
    BY <1>2, <1>6 DEF OpenOK
  <2>1. CASE j = pimpl /\ b = a
    BY <1>3, <1>5, <1>6, <2>1
  <2>2. CASE ~(j = pimpl /\ b = a)
    <3>1. pool'[j][b] = pool[j][b]
      BY <1>6, <2>2 DEF Made
    <3> QED
      BY <1>1, <2>2, <3>1 DEF OpenOK
  <2> QED
    BY <2>1, <2>2
<1>10. CountOK'
  BY <1>2, <1>6 DEF CountOK
<1> QED
  BY <1>7, <1>8, <1>9, <1>10

LEMMA ServiceStopEnd ==
  ASSUME ServiceInv, StopEnd
  PROVE  ServiceInv'
<1> USE DEF ServiceInv
<1>1. /\ stopper # None /\ toClose = {} /\ pimpl' = 0 /\ stopper' = None
      /\ connections' = [connections EXCEPT ![pimpl] = {}]
      /\ UNCHANGED <<created, state, pool, pool_count, stopped, call, toClose>>
  BY DEF StopEnd
<1>2. pimpl \in Ids
  BY <1>1, InstancesAssumption DEF LockOK, TypeOK, Ids
<1>3. \A j \in Ids : Made(j)' = Made(j) /\ Silent(j)' = Silent(j)
  BY <1>1 DEF Made, Silent
<1>4. TypeOK' /\ LockOK'
  <2>1. connections' \in [Ids -> SUBSET Aliases] /\ 0 \in 0..Instances
    <3>1. PICK e \in SUBSET Aliases : e = {}
      OBVIOUS
    <3>2. connections' = [connections EXCEPT ![pimpl] = e]
      BY <1>1, <3>1
    <3>3. connections' \in [Ids -> SUBSET Aliases]
      BY <3>2 DEF TypeOK
    <3>4. 0 \in 0..Instances
      BY InstancesAssumption
    <3> QED
      BY <3>3, <3>4
  <2> QED
    BY <1>1, <2>1 DEF TypeOK, LockOK
<1>5. StateOK'
  BY <1>1, <1>2 DEF StateOK, Ids
<1>6. MadeOK'
  <2>1. \A j \in Ids : connections'[j] = {} /\ j # 0
    BY <1>1, <1>2 DEF MadeOK, TypeOK, Ids
  <2> QED
    BY <1>1, <1>3, <2>1 DEF MadeOK
<1>7. OpenOK' /\ CountOK'
  BY <1>1, <1>3 DEF OpenOK, CountOK
<1> QED
  BY <1>4, <1>5, <1>6, <1>7

LEMMA ServiceHandler ==
  ASSUME ServiceInv, NEW i \in Ids, NEW a \in Aliases, Handler(i, a)
  PROVE  ServiceInv'
<1> USE DEF ServiceInv
<1>1. /\ PoolStep(i, a, AfterHandler(pool[i][a]))
      /\ UNCHANGED <<pimpl, created, state, connections, call, stopper, toClose>>
  BY DEF Handler
<1>2. pool[i][a] \in Pools
  BY DEF TypeOK
<1>3. a \in Made(i)
  <2>1. AfterHandler(NoPool) = {}
    BY DEF AfterHandler, NoPool
  <2> QED
    BY <1>1, <2>1 DEF PoolStep, Made
<1>4. \A q \in AfterHandler(pool[i][a]) :
        /\ q \in Pools /\ q.calls >= pool[i][a].calls /\ q.closed = pool[i][a].closed
        /\ ~pool[i][a].closed => q.calls = pool[i][a].calls
  BY <1>2, AfterHandlerType
<1>5. \A q \in AfterHandler(pool[i][a]) :
        /\ q \in Pools /\ q.calls >= pool[i][a].calls
        /\ q.closed \/ (~pool[i][a].closed /\ q.calls = pool[i][a].calls)
  BY <1>4
<1>6. /\ pool' \in [Ids -> [Aliases -> Pools]]
      /\ pool_count' \in [Ids -> Int] /\ stopped' \in [Ids -> BOOLEAN]
      /\ pool'[i][a] \in AfterHandler(pool[i][a])
      /\ \A j \in Ids, b \in Aliases : ~(j = i /\ b = a) => pool'[j][b] = pool[j][b]
      /\ \A j \in Ids : Made(j)' = Made(j)
      /\ \A j \in Ids : \A b \in Made(j) :
           /\ pool'[j][b].calls >= 0
           /\ ~pool'[j][b].closed => ~pool[j][b].closed /\ pool'[j][b].calls = 0
      /\ \A j \in Ids : state[j] = "closing" /\ Made(j) # {} =>
           /\ pool_count'[j] <= Cardinality(Silent(j)')
           /\ stopped'[j] \/ pool_count'[j] >= 1
  BY <1>1, <1>3, <1>5, StepCounted
<1>7. TypeOK' /\ LockOK' /\ StateOK'
  BY <1>1, <1>6 DEF TypeOK, LockOK, StateOK
<1>8. MadeOK'
  BY <1>1, <1>6 DEF MadeOK
<1>9. \A j \in Ids, b \in Aliases : pool'[j][b].closed = pool[j][b].closed
  BY <1>4, <1>6
<1>10. OpenOK'
  BY <1>1, <1>6, <1>9 DEF OpenOK, Made
<1>11. CountOK'
  BY <1>1, <1>6 DEF CountOK
<1> QED
  BY <1>7, <1>8, <1>10, <1>11

LEMMA ServiceInvNext == ServiceInv /\ [Next]_vars => ServiceInv'
<1> SUFFICES ASSUME ServiceInv, [Next]_vars PROVE ServiceInv'
  OBVIOUS
<1>1. ASSUME NEW t \in Threads, Proceed(t) PROVE ServiceInv'
  BY <1>1, ServiceQuiet, ServiceAdd, ServiceExecute DEF Proceed
<1>2. CASE UNCHANGED vars
  <2>1. \A i \in Ids : Made(i)' = Made(i) /\ Silent(i)' = Silent(i)
    BY <1>2 DEF vars, Made, Silent
  <2> QED
    BY <1>2, <2>1 DEF vars, ServiceInv, TypeOK, LockOK, StateOK, MadeOK, OpenOK, CountOK
<1> QED
  BY <1>1, <1>2, ServiceEnter, ServiceStopBegin, ServiceClosePool, ServiceStopEnd,
     ServiceHandler DEF Next

LEMMA ServiceInvariant == Spec => []ServiceInv
  BY ServiceInvInit, ServiceInvNext, PTL DEF Spec

-----------------------------------------------------------------------------
(* What it gives.                                                          *)

\* Every variable of the service stays in its set.
THEOREM ServiceTypeCorrect == Spec => []TypeOK
<1>1. ServiceInv => TypeOK
  BY DEF ServiceInv
<1> QED
  BY <1>1, ServiceInvariant, PTL

\* stop closes every pool of its redis_impl, those included that other threads
\* added while it was on its way to the lock.
THEOREM StopCorrect == Spec => []StopReachesEveryPool
<1>1. ServiceInv => StopReachesEveryPool
  <2> SUFFICES ASSUME ServiceInv, NEW i \in Ids, i # pimpl, i <= created,
                      NEW a \in Aliases, pool[i][a] # NoPool
               PROVE  pool[i][a].closed
    BY DEF StopReachesEveryPool
  <2>1. state[i] = "closing" /\ a \in Made(i)
    BY DEF ServiceInv, StateOK, Made
  <2> QED
    BY <2>1 DEF ServiceInv, OpenOK
<1> QED
  BY <1>1, ServiceInvariant, PTL

\* When every pool has called back, the io_service has been stopped: pools that
\* call back twice make the count too low, and nothing makes it too high.
THEOREM LastPoolCorrect == Spec => []LastPoolStops
<1>1. ServiceInv => LastPoolStops
  <2> SUFFICES ASSUME ServiceInv, NEW i \in Ids, state[i] = "closing", Made(i) # {},
                      \A a \in Made(i) : pool[i][a].calls > 0
               PROVE  stopped[i]
    BY DEF LastPoolStops, Made
  <2>1. Silent(i) = {}
    BY DEF Silent
  <2>2. pool_count[i] <= 0 /\ pool_count[i] \in Int
    BY <2>1, FS_EmptySet DEF ServiceInv, CountOK, TypeOK
  <2>3. stopped[i] \/ pool_count[i] >= 1
    BY DEF ServiceInv, CountOK
  <2> QED
    BY <2>2, <2>3
<1> QED
  BY <1>1, ServiceInvariant, PTL
=============================================================================
