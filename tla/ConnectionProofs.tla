-------------------------- MODULE ConnectionProofs --------------------------
(***************************************************************************)
(* Theorems about Connection for any requests, answers and sizes, and      *)
(* however the stream is cut into reads: what a request is told, what a    *)
(* terminated machine does, and when the exchange stays in step.           *)
(***************************************************************************)
EXTENDS Connection, FiniteSetTheorems, SequenceTheorems, TLAPS

-----------------------------------------------------------------------------
(* Sequences.                                                              *)

\* The elements from m to n.
LEMMA Slice ==
  ASSUME NEW S, NEW s \in Seq(S), NEW m \in Nat \ {0}, NEW n \in 0..Len(s)
  PROVE  /\ SubSeq(s, m, n) \in Seq(S)
         /\ Len(SubSeq(s, m, n)) = IF m <= n THEN n - m + 1 ELSE 0
         /\ \A i \in 1..Len(SubSeq(s, m, n)) :
              m + i - 1 \in 1..Len(s) /\ SubSeq(s, m, n)[i] = s[m + i - 1]
<1>1. Len(s) \in Nat /\ m \in Int /\ n \in Int
  OBVIOUS
<1>2. \A i \in m..n : s[i] \in S
  BY <1>1
<1>3. /\ SubSeq(s, m, n) \in Seq(S)
      /\ Len(SubSeq(s, m, n)) = IF m <= n THEN n - m + 1 ELSE 0
      /\ \A i \in 1 .. n - m + 1 : SubSeq(s, m, n)[i] = s[m + i - 1]
  BY <1>1, <1>2, SubSeqProperties
<1> QED
  BY <1>1, <1>3

\* What is in the concatenation of two sequences was in one of them.
LEMMA Joined ==
  ASSUME NEW S, NEW a \in Seq(S), NEW b \in Seq(S)
  PROVE  /\ a \o b \in Seq(S) /\ Len(a \o b) = Len(a) + Len(b)
         /\ \A j \in 1..Len(a \o b) : \/ \E k \in 1..Len(a) : (a \o b)[j] = a[k]
                                      \/ \E k \in 1..Len(b) : (a \o b)[j] = b[k]
<1>1. /\ a \o b \in Seq(S) /\ Len(a \o b) = Len(a) + Len(b)
      /\ \A j \in 1 .. Len(a) + Len(b) :
           (a \o b)[j] = IF j <= Len(a) THEN a[j] ELSE b[j - Len(a)]
  BY ConcatProperties
<1>2. ASSUME NEW t, NEW n \in Nat, NEW m \in Nat,
             \A j \in 1 .. n + m : t[j] = IF j <= n THEN a[j] ELSE b[j - n],
             NEW j \in 1 .. n + m
      PROVE  \/ \E k \in 1..n : t[j] = a[k]
             \/ \E k \in 1..m : t[j] = b[k]
  <2>1. CASE j <= n
    BY <1>2, <2>1
  <2>2. CASE ~(j <= n)
    <3>1. j - n \in 1..m
      BY <2>2
    <3> QED
      BY <1>2, <2>2, <3>1
  <2> QED
    BY <2>1, <2>2
<1>3. Len(a) \in Nat /\ Len(b) \in Nat
  OBVIOUS
<1> QED
  BY <1>1, <1>2, <1>3

\* A sequence without its i-th element.
LEMMA Without ==
  ASSUME NEW S, NEW s \in Seq(S), NEW i \in 1..Len(s)
  PROVE  LET t == SubSeq(s, 1, i - 1) \o SubSeq(s, i + 1, Len(s))
         IN  /\ t \in Seq(S) /\ Len(t) = Len(s) - 1
             /\ \A j \in 1..Len(t) : \E k \in 1..Len(s) : t[j] = s[k]
<1>0. Len(s) \in Nat /\ 1 \in Nat \ {0} /\ i + 1 \in Nat \ {0}
      /\ i - 1 \in 0..Len(s) /\ Len(s) \in 0..Len(s)
  OBVIOUS
<1>1. PICK a : a = SubSeq(s, 1, i - 1)
  OBVIOUS
<1>2. PICK b : b = SubSeq(s, i + 1, Len(s))
  OBVIOUS
<1>3. a \in Seq(S) /\ Len(a) = i - 1
      /\ \A j \in 1..Len(a) : \E k \in 1..Len(s) : a[j] = s[k]
  <2>1. /\ a \in Seq(S) /\ Len(a) = IF 1 <= i - 1 THEN i - 1 - 1 + 1 ELSE 0
        /\ \A j \in 1..Len(a) : 1 + j - 1 \in 1..Len(s) /\ a[j] = s[1 + j - 1]
    BY <1>0, <1>1, Slice
  <2>2. Len(a) = i - 1
    BY <1>0, <2>1
  <2> QED
    BY <2>1, <2>2
<1>4. b \in Seq(S) /\ Len(b) = Len(s) - i
      /\ \A j \in 1..Len(b) : \E k \in 1..Len(s) : b[j] = s[k]
  <2>1. /\ b \in Seq(S)
        /\ Len(b) = IF i + 1 <= Len(s) THEN Len(s) - (i + 1) + 1 ELSE 0
        /\ \A j \in 1..Len(b) : i + 1 + j - 1 \in 1..Len(s) /\ b[j] = s[i + 1 + j - 1]
    BY <1>0, <1>2, Slice
  <2>2. Len(b) = Len(s) - i
    BY <1>0, <2>1
  <2> QED
    BY <2>1, <2>2
<1> DEFINE t == a \o b
<1>5. /\ t \in Seq(S) /\ Len(t) = Len(a) + Len(b)
      /\ \A j \in 1..Len(t) : \/ \E k \in 1..Len(a) : t[j] = a[k]
                              \/ \E k \in 1..Len(b) : t[j] = b[k]
  <2>1. a \in Seq(S) /\ b \in Seq(S)
    BY <1>3, <1>4
  <2>2. t \in Seq(S) /\ Len(t) = Len(a) + Len(b)
    BY <2>1, Joined
  <2>3. \A j \in 1..Len(t) : \/ \E k \in 1..Len(a) : t[j] = a[k]
                             \/ \E k \in 1..Len(b) : t[j] = b[k]
    BY <2>1, Joined
  <2> HIDE DEF t
  <2> QED
    BY <2>2, <2>3, Zenon
<1> HIDE DEF t
<1>6. Len(t) = Len(s) - 1
  <2>1. Len(t) = Len(a) + Len(b) /\ Len(a) = i - 1 /\ Len(b) = Len(s) - i
    BY <1>3, <1>4, <1>5
  <2>2. Len(s) \in Nat /\ i \in Int
    BY <1>0
  <2> QED
    BY <2>1, <2>2
<1>7. ASSUME NEW j \in 1..Len(t) PROVE \E k \in 1..Len(s) : t[j] = s[k]
  <2>1. CASE \E k \in 1..Len(a) : t[j] = a[k]
    BY <1>3, <2>1, Zenon
  <2>2. CASE \E k \in 1..Len(b) : t[j] = b[k]
    BY <1>4, <2>2, Zenon
  <2> QED
    BY <1>5, <2>1, <2>2
<1>8. t = SubSeq(s, 1, i - 1) \o SubSeq(s, i + 1, Len(s))
  BY <1>1, <1>2, Zenon DEF t
<1> QED
  BY <1>5, <1>6, <1>7, <1>8, Zenon

-----------------------------------------------------------------------------
(* The state machine keeps its types: it holds a request exactly in query, *)
(* and from authn on the socket was connected, and is not closed by us.    *)

Bytes == Commands \X Nat

MachineOK ==
  /\ state \in States
  /\ request \in Requests \cup {None}
  /\ link \in Links
  /\ terminating \in BOOLEAN
  /\ writing \subseteq Commands
  /\ written \in Seq(Commands)
  /\ asked \subseteq Requests
  /\ request # None <=> state = "query"
  /\ state \in {"authn", "idle", "query"} => link \in {"up", "down"}

LEMMA SendType ==
  ASSUME MachineOK, NEW c \in Commands, Send(c)
  PROVE  /\ writing' \subseteq Commands /\ written' \in Seq(Commands)
         /\ \A i \in 1..Len(written') : written'[i] = c \/ \E j \in 1..Len(written) : written'[i] = written[j]
<1>1. CASE link \in {"resolving", "closed"}
  BY <1>1 DEF Send, MachineOK
<1>2. CASE written' = Append(written, c) /\ writing' = writing \cup {c}
  <2>1. written \in Seq(Commands) /\ writing \subseteq Commands
    BY DEF MachineOK
  <2>2. /\ written' \in Seq(Commands)
        /\ Len(written') = Len(written) + 1
        /\ \A i \in 1..Len(written) : written'[i] = written[i]
        /\ written'[Len(written) + 1] = c
    BY <1>2, <2>1, AppendProperties
  <2> QED
    BY <1>2, <2>1, <2>2
<1> QED
  BY <1>1, <1>2 DEF Send

LEMMA ExecuteMachine ==
  ASSUME MachineOK, NEW r \in Requests, Execute(r), link' \in {"up", "down"}
  PROVE  MachineOK'
<1>1. writing' \subseteq Commands /\ written' \in Seq(Commands)
  BY SendType DEF Execute, Commands
<1>2. /\ state' = "query" /\ request' = r /\ asked' = asked \cup {r}
      /\ terminating' = terminating
  BY DEF Execute
<1> QED
  BY <1>1, <1>2, AuthAssumption DEF MachineOK, States, Links

LEMMA IdleMachine ==
  ASSUME MachineOK, NEW l \in {"up", "down"}, EnterIdle(l)
  PROVE  MachineOK'
<1>1. CASE terminating
  BY <1>1 DEF EnterIdle, CloseTransport, MachineOK, States, Links
<1>2. ASSUME NEW r \in Requests, Execute(r), link' = l PROVE MachineOK'
  BY <1>2, ExecuteMachine
<1>3. CASE /\ state' = "idle" /\ request' = None /\ link' = l
           /\ UNCHANGED <<terminating, asked, written, writing>>
  BY <1>3 DEF MachineOK, States, Links
<1> QED
  BY <1>1, <1>2, <1>3 DEF EnterIdle

LEMMA ErrorMachine ==
  ASSUME MachineOK, Error, asked' = asked, writing' \subseteq Commands,
         written' \in Seq(Commands), link' \in Links
  PROVE  MachineOK'
<1>1. CASE state = "terminated"
  BY <1>1 DEF Error, MachineOK
<1>2. CASE state' = "terminated" /\ request' = None /\ terminating' = FALSE
  BY <1>2 DEF MachineOK, States
<1> QED
  BY <1>1, <1>2 DEF Error

-----------------------------------------------------------------------------
(* What was sent, answered and told.                                       *)

DataOK ==
  /\ reading \in BOOLEAN /\ torn \in BOOLEAN /\ asserted \in BOOLEAN
  /\ answer \in [Commands -> Answers \cup {None}]
  /\ stream \in Seq(Bytes) /\ incoming \in Seq(Bytes)
  /\ \A i \in 1..Len(stream) : answer[stream[i][1]] # None
  /\ \A i \in 1..Len(incoming) : answer[incoming[i][1]] # None
  /\ outcome \in [Requests -> Seq(Outcome)]

\* A request that was not given to the connection was not answered and was told
\* nothing; nothing is sent before the connection is established.
AskedOK ==
  /\ request # None => request \in asked /\ outcome[request] = <<>>
  /\ \A r \in Requests : Len(outcome[r]) <= 1
  /\ \A r \in Requests \ asked : outcome[r] = <<>> /\ answer[r] = None
  /\ \A i \in 1..Len(written) : written[i] \in asked \cup {Auth}
  /\ state = "connecting" => answer[Auth] = None /\ written = <<>>
  /\ state = "connecting" => link \in {"resolving", "connecting"}
  /\ answer[Auth] # None => answer[Auth].kind \in AuthReplies

ConnInv == MachineOK /\ DataOK /\ AskedOK

\* The event that is parsed, and the bytes it consumes, at least one.
LEMMA ParsedEvent ==
  ASSUME DataOK, incoming # <<>>, NEW e \in Parsed(incoming)
  PROVE  /\ e.event \in {"recv", "query_error"}
         /\ e.of \in Commands \cup {None}
         /\ e.size \in Nat \ {0}
<1> DEFINE r == incoming[1][1]
           a == answer[r]
<1>1. Len(incoming) \in Nat \ {0} /\ incoming[1] \in Bytes
  BY DEF DataOK
<1>2. r \in Commands /\ a \in Answers
  BY <1>1 DEF DataOK, Bytes
<1>3. a.size \in Nat \ {0}
  BY <1>2, SizesAssumption DEF Answers
<1>4. \/ e = [event |-> IF a.kind = "value" THEN "recv" ELSE "query_error", of |-> r,
              size |-> IF a.kind = "nested" /\ a.size > 1 THEN a.size - 1 ELSE a.size]
      \/ e = [event |-> "query_error", of |-> None, size |-> Len(incoming)]
      \/ e \in [event : {"query_error"}, of : {r},
                size : {n \in 1..Len(incoming) - 1 : a.kind = "nested"}]
      \/ e \in [event : {"recv", "query_error"}, of : {None}, size : {1}]
  BY DEF Parsed
<1> HIDE DEF r, a
<1> QED
  BY <1>1, <1>2, <1>3, <1>4

LEMMA HandleMachine ==
  ASSUME MachineOK, NEW e, Handle(e)
  PROVE  MachineOK'
<1>1. CASE EnterIdle(link) /\ state \in {"query", "authn"}
  BY <1>1, IdleMachine DEF MachineOK
<1>2. CASE UNCHANGED <<state, request, terminating, link, writing, written, asked>>
  BY <1>2 DEF MachineOK
<1> QED
  BY <1>1, <1>2 DEF Handle, Answered, Authenticated, Unexpected, Blocked

\* Entering idle, the machine may take a request that was not asked yet.
LEMMA IdleAsked ==
  ASSUME MachineOK, AskedOK, NEW l, EnterIdle(l), answer' = answer,
         \A r \in Requests : Len(outcome'[r]) <= 1,
         \A r \in Requests \ asked : outcome'[r] = <<>>
  PROVE  AskedOK'
<1>1. ASSUME NEW r \in Requests \ asked, Execute(r) PROVE AskedOK'
  <2>1. \A i \in 1..Len(written') : written'[i] \in asked \cup {r, Auth}
    BY <1>1, SendType DEF Execute, AskedOK, Commands
  <2>2. state' = "query" /\ request' = r /\ asked' = asked \cup {r}
    BY <1>1 DEF Execute
  <2> QED
    BY <1>1, <2>1, <2>2 DEF AskedOK
<1>2. CASE /\ state' \in {"terminated", "idle"} /\ request' = None
           /\ UNCHANGED <<asked, written>>
  BY <1>2 DEF AskedOK
<1> QED
  BY <1>1, <1>2 DEF EnterIdle

\* What the event tells the request being executed is the first thing it is told.
LEMMA HandleAsked ==
  ASSUME ConnInv, NEW e, e.of \in Commands \cup {None}, Handle(e), answer' = answer
  PROVE  AskedOK' /\ outcome' \in [Requests -> Seq(Outcome)] /\ asserted' \in BOOLEAN
<1> USE DEF ConnInv
<1>1. CASE Answered(e)
  <2> DEFINE o == [kind |-> IF e.event = "recv" THEN "result" ELSE "error", of |-> e.of]
  <2>1. o \in Outcome
    BY DEF Outcome
  <2>2. request \in Requests /\ request \in asked /\ outcome[request] = <<>>
    BY <1>1 DEF Answered, MachineOK, AskedOK
  <2>3. outcome' = [outcome EXCEPT ![request] = Append(@, o)]
    BY <1>1 DEF Answered
  <2> HIDE DEF o
  <2>4. outcome' = [outcome EXCEPT ![request] = <<o>>]
    BY <2>2, <2>3
  <2>5. <<o>> \in Seq(Outcome) /\ Len(<<o>>) = 1
    BY <2>1
  <2>6. outcome' \in [Requests -> Seq(Outcome)]
    BY <2>4, <2>5 DEF DataOK
  <2>7. \A r \in Requests : outcome'[r] = IF r = request THEN <<o>> ELSE outcome[r]
    BY <2>4 DEF DataOK
  <2>8. AskedOK'
    <3>1. EnterIdle(link) /\ asserted' = asserted
      BY <1>1 DEF Answered
    <3>2. /\ \A r \in Requests : Len(outcome'[r]) <= 1
          /\ \A r \in Requests \ asked : outcome'[r] = <<>>
      <4>1. PICK s : s = <<o>>
        OBVIOUS
      <4>2. Len(s) = 1 /\ \A r \in Requests : outcome'[r] = IF r = request THEN s ELSE outcome[r]
        BY <2>5, <2>7, <4>1, Zenon
      <4>3. ASSUME NEW r \in Requests PROVE Len(outcome'[r]) <= 1
        <5>1. CASE r = request
          <6>1. outcome'[r] = s
            BY <4>2, <5>1
          <6>2. Len(outcome'[r]) = 1
            BY <4>2, <6>1, Zenon
          <6> QED
            BY <6>2
        <5>2. CASE r # request
          <6>1. outcome'[r] = outcome[r]
            BY <4>2, <5>2
          <6> QED
            BY <6>1 DEF AskedOK
        <5> QED
          BY <5>1, <5>2
      <4>4. ASSUME NEW r \in Requests \ asked PROVE outcome'[r] = <<>>
        BY <2>2, <4>2 DEF AskedOK
      <4> QED
        BY <4>3, <4>4
    <3> QED
      BY <3>1, <3>2, IdleAsked
  <2> QED
    BY <1>1, <2>6, <2>8 DEF Answered, DataOK
<1>2. CASE Authenticated(e)
  <2>1. EnterIdle(link) /\ UNCHANGED <<outcome, asserted>>
    BY <1>2 DEF Authenticated
  <2>2. AskedOK'
    BY <2>1, IdleAsked DEF AskedOK
  <2> QED
    BY <2>1, <2>2 DEF DataOK
<1>3. CASE Unexpected(e) \/ Blocked
  BY <1>3 DEF Unexpected, Blocked, AskedOK, DataOK
<1> QED
  BY <1>1, <1>2, <1>3 DEF Handle

LEMMA ErrorAsked ==
  ASSUME AskedOK, Error, UNCHANGED <<asked, outcome, answer>>,
         \A i \in 1..Len(written') : \E j \in 1..Len(written) : written'[i] = written[j],
         state = "connecting" => state' # "connecting"
  PROVE  AskedOK'
<1>1. CASE state = "terminated"
  BY <1>1 DEF Error, AskedOK
<1>2. CASE state' = "terminated" /\ request' = None
  BY <1>2 DEF AskedOK
<1> QED
  BY <1>1, <1>2 DEF Error

LEMMA ConnInvInit == Init => ConnInv
<1> SUFFICES ASSUME Init PROVE ConnInv
  OBVIOUS
<1> USE DEF Init
<1>1. link \in {"resolving", "connecting"}
  OBVIOUS
<1>2. MachineOK
  <2>1. written \in Seq(Commands) /\ writing \subseteq Commands /\ asked \subseteq Requests
    OBVIOUS
  <2>2. /\ state = "connecting" /\ request = None /\ terminating = FALSE
    OBVIOUS
  <2> QED
    BY <1>1, <2>1, <2>2 DEF MachineOK, States, Links
<1>3. DataOK
  <2>1. stream = <<>> /\ incoming = <<>> /\ reading = FALSE /\ torn = FALSE /\ asserted = FALSE
    OBVIOUS
  <2>2. stream \in Seq(Bytes) /\ incoming \in Seq(Bytes)
    BY <2>1
  <2>3. answer \in [Commands -> Answers \cup {None}]
    OBVIOUS
  <2>4. outcome \in [Requests -> Seq(Outcome)]
    <3>1. PICK S : S = Seq(Outcome)
      OBVIOUS
    <3>2. PICK e : e = <<>>
      OBVIOUS
    <3>3. e \in S
      BY <3>1, <3>2
    <3>4. outcome = [r \in Requests |-> e]
      BY <3>2, Zenon
    <3>5. outcome \in [Requests -> S]
      BY ONLY <3>3, <3>4
    <3> QED
      BY <3>1, <3>5, Zenon
  <2>5. Len(stream) = 0 /\ Len(incoming) = 0
    BY <2>1
  <2>6. /\ \A i \in 1..Len(stream) : answer[stream[i][1]] # None
        /\ \A i \in 1..Len(incoming) : answer[incoming[i][1]] # None
    BY <2>5
  <2>7. reading \in BOOLEAN /\ torn \in BOOLEAN /\ asserted \in BOOLEAN
    BY <2>1
  <2> QED
    BY <2>2, <2>3, <2>4, <2>6, <2>7, Zenon DEF DataOK
<1>4. AskedOK
  BY <1>1, AuthAssumption DEF AskedOK, Commands
<1> QED
  BY <1>2, <1>3, <1>4 DEF ConnInv

\* Steps of the transport and of the pool.
LEMMA ConnLink ==
  ASSUME ConnInv, Resolved \/ ConnectError \/ WriteDone \/ ReadError \/ Break
  PROVE  ConnInv'
<1> USE DEF ConnInv
<1>1. UNCHANGED <<answer, stream, incoming, outcome, torn, asserted, written, asked>>
  BY DEF Resolved, ConnectError, WriteDone, ReadError, Break
<1>2. reading' \in BOOLEAN
  BY DEF Resolved, ConnectError, WriteDone, ReadError, Break, DataOK
<1>3. DataOK'
  BY <1>1, <1>2 DEF DataOK
<1>4. CASE Resolved \/ WriteDone \/ Break
  <2>1. MachineOK'
    BY <1>4 DEF Resolved, WriteDone, Break, MachineOK, Links
  <2>2. AskedOK'
    BY <1>4 DEF Resolved, WriteDone, Break, AskedOK
  <2> QED
    BY <1>3, <2>1, <2>2
<1>5. CASE ConnectError \/ ReadError
  <2>1. Error /\ writing' = writing /\ link' \in Links
    BY <1>5 DEF ConnectError, ReadError, MachineOK, Links
  <2>2. MachineOK'
    BY <1>1, <2>1, ErrorMachine DEF MachineOK
  <2>3. state = "connecting" => state' # "connecting"
    BY <2>1 DEF Error
  <2> QED
    BY <1>1, <1>3, <2>1, <2>2, <2>3, ErrorAsked
<1> QED
  BY <1>4, <1>5

LEMMA ConnWriteError ==
  ASSUME ConnInv, WriteError
  PROVE  ConnInv' /\ Len(written') < Len(written)
<1> USE DEF ConnInv
<1>1. PICK i \in 1..Len(written) :
        /\ writing' = writing \ {written[i]}
        /\ written' = SubSeq(written, 1, i - 1) \o SubSeq(written, i + 1, Len(written))
  BY DEF WriteError
<1>2. /\ written' \in Seq(Commands) /\ Len(written') = Len(written) - 1
      /\ \A j \in 1..Len(written') : \E k \in 1..Len(written) : written'[j] = written[k]
  BY <1>1, Without DEF MachineOK
<1>3. /\ Error
      /\ UNCHANGED <<link, reading, answer, stream, incoming, asked, outcome, torn, asserted>>
  BY DEF WriteError
<1>4. MachineOK'
  BY <1>1, <1>2, <1>3, ErrorMachine DEF MachineOK
<1>5. DataOK'
  BY <1>3 DEF DataOK
<1>6. state = "connecting" => state' # "connecting"
  BY <1>3 DEF Error
<1>7. AskedOK'
  BY <1>2, <1>3, <1>6, ErrorAsked
<1>8. Len(written) \in Nat
  BY DEF MachineOK
<1> QED
  BY <1>2, <1>4, <1>5, <1>7, <1>8

LEMMA ConnPool ==
  ASSUME ConnInv, PoolExecute \/ PoolTerminate \/ Connected
  PROVE  ConnInv'
<1> USE DEF ConnInv
<1>1. UNCHANGED <<answer, stream, incoming, outcome, torn, asserted>> /\ reading' \in BOOLEAN
  BY DEF PoolExecute, PoolTerminate, Connected, DataOK
<1>2. DataOK'
  BY <1>1 DEF DataOK
<1>3. CASE PoolExecute
  <2>1. PICK r \in Requests \ asked : Execute(r) /\ link' = link /\ state = "idle"
    BY <1>3 DEF PoolExecute
  <2>2. MachineOK'
    BY <2>1, ExecuteMachine DEF MachineOK
  <2>3. \A i \in 1..Len(written') : written'[i] \in asked \cup {r, Auth}
    BY <2>1, SendType DEF Execute, AskedOK, Commands
  <2>4. AskedOK'
    BY <1>1, <2>1, <2>3 DEF Execute, AskedOK
  <2> QED
    BY <1>2, <2>2, <2>4
<1>4. CASE PoolTerminate
  <2>1. MachineOK'
    BY <1>4 DEF PoolTerminate, CloseTransport, MachineOK, States, Links
  <2>2. AskedOK'
    BY <1>4 DEF PoolTerminate, CloseTransport, AskedOK
  <2> QED
    BY <1>2, <2>1, <2>2
<1>5. CASE Connected
  <2>1. CASE EnterIdle("up")
    BY <1>1, <1>2, <2>1, IdleMachine, IdleAsked DEF AskedOK
  <2>2. CASE /\ state' = "authn" /\ link' = "up" /\ Send(Auth)
             /\ UNCHANGED <<request, terminating, asked>>
    <3>0. Auth \in Commands /\ state = "connecting"
      BY <1>5 DEF Connected, Commands
    <3>1. MachineOK'
      BY <2>2, <3>0, SendType DEF MachineOK, States, Links
    <3>2. AskedOK'
      BY <1>1, <2>2, <3>0, SendType DEF AskedOK
    <3> QED
      BY <1>2, <3>1, <3>2
  <2> QED
    BY <1>5, <2>1, <2>2 DEF Connected
<1> QED
  BY <1>3, <1>4, <1>5

\* What is read is taken from the front of the stream.
LEMMA ConnRead ==
  ASSUME ConnInv, Read
  PROVE  ConnInv'
<1> USE DEF ConnInv
<1>1. PICK n \in 1..Len(stream) :
        /\ torn' = (torn \/ stream[n][2] # answer[stream[n][1]].size)
        /\ incoming' = SubSeq(stream, 1, n)
        /\ stream' = SubSeq(stream, n + 1, Len(stream))
  BY DEF Read
<1>2. /\ reading' = FALSE
      /\ UNCHANGED <<state, request, terminating, link, writing, written, answer, asked,
                     outcome, asserted>>
  BY DEF Read
<1>3. /\ incoming' \in Seq(Bytes)
      /\ \A i \in 1..Len(incoming') : \E k \in 1..Len(stream) : incoming'[i] = stream[k]
  <2>1. 1 \in Nat \ {0} /\ n \in 0..Len(stream) /\ stream \in Seq(Bytes)
    BY DEF DataOK
  <2> QED
    BY <1>1, <2>1, Slice
<1>4. /\ stream' \in Seq(Bytes)
      /\ \A i \in 1..Len(stream') : \E k \in 1..Len(stream) : stream'[i] = stream[k]
  <2>1. n + 1 \in Nat \ {0} /\ Len(stream) \in 0..Len(stream) /\ stream \in Seq(Bytes)
    BY DEF DataOK
  <2> QED
    BY <1>1, <2>1, Slice
<1>5. /\ \A i \in 1..Len(stream') : answer[stream'[i][1]] # None
      /\ \A i \in 1..Len(incoming') : answer[incoming'[i][1]] # None
  <2>1. \A k \in 1..Len(stream) : answer[stream[k][1]] # None
    BY DEF DataOK
  <2> QED
    BY <1>3, <1>4, <2>1, Zenon
<1>6. DataOK'
  BY <1>1, <1>2, <1>3, <1>4, <1>5 DEF DataOK
<1>7. MachineOK' /\ AskedOK'
  BY <1>2 DEF MachineOK, AskedOK
<1> QED
  BY <1>6, <1>7

\* What is left of the bytes when the first are taken.
LEMMA RestOfBytes ==
  ASSUME NEW s \in Seq(Bytes), NEW m \in Nat \ {0}, incoming' = SubSeq(s, m, Len(s))
  PROVE  /\ incoming' \in Seq(Bytes)
         /\ \A i \in 1..Len(incoming') : \E k \in 1..Len(s) : incoming'[i] = s[k]
<1>1. PICK n \in 0..Len(s) : n = Len(s)
  BY LenProperties
<1>2. PICK r : r = SubSeq(s, m, n)
  OBVIOUS
<1>3. /\ r \in Seq(Bytes)
      /\ \A i \in 1..Len(r) : m + i - 1 \in 1..Len(s) /\ r[i] = s[m + i - 1]
  BY <1>2, Slice
<1>4. \A i \in 1..Len(r) : \E k \in 1..Len(s) : r[i] = s[k]
  BY <1>3, Zenon
<1>5. incoming' = r
  BY <1>1, <1>2
<1> QED
  BY <1>3, <1>4, <1>5, Zenon

LEMMA ConnParse ==
  ASSUME ConnInv, ParseOne
  PROVE  ConnInv'
<1> USE DEF ConnInv
<1>1. PICK e \in Parsed(incoming) :
        /\ Handle(e)
        /\ incoming' = SubSeq(incoming, e.size + 1, Len(incoming))
        /\ reading' = (incoming' = <<>>)
  BY DEF ParseOne
<1>2. incoming # <<>> /\ UNCHANGED <<answer, stream, torn>>
  BY DEF ParseOne
<1>3. e.size \in Nat \ {0} /\ e.of \in Commands \cup {None}
  BY <1>2, ParsedEvent
<1>4. MachineOK' /\ AskedOK' /\ outcome' \in [Requests -> Seq(Outcome)] /\ asserted' \in BOOLEAN
  BY <1>1, <1>2, <1>3, HandleMachine, HandleAsked
<1>5. /\ incoming' \in Seq(Bytes)
      /\ \A i \in 1..Len(incoming') : \E k \in 1..Len(incoming) : incoming'[i] = incoming[k]
  <2>1. e.size + 1 \in Nat \ {0} /\ Len(incoming) \in 0..Len(incoming) /\ incoming \in Seq(Bytes)
    BY <1>3 DEF DataOK
  <2>2. PICK m \in Nat \ {0} : m = e.size + 1
    BY <2>1
  <2>3. incoming' = SubSeq(incoming, m, Len(incoming))
    BY <1>1, <2>2, Zenon
  <2> QED
    BY <2>1, <2>3, RestOfBytes, Zenon
<1>6. DataOK'
  BY <1>1, <1>2, <1>4, <1>5 DEF DataOK
<1> QED
  BY <1>4, <1>6

\* The bytes of the answer a to r.
Coded(r, a) == [k \in 1..a.size |-> <<r, k>>]

LEMMA CodedType ==
  ASSUME NEW r \in Commands, NEW a \in Answers
  PROVE  /\ Coded(r, a) \in Seq(Bytes) /\ Len(Coded(r, a)) = a.size
         /\ \A k \in 1..a.size : Coded(r, a)[k] = <<r, k>>
<1>1. a.size \in Nat
  BY SizesAssumption DEF Answers
<1>2. PICK n \in Nat : n = a.size
  BY <1>1
<1>3. PICK s : s = [k \in 1..n |-> <<r, k>>]
  OBVIOUS
<1>4. \A k \in 1..n : <<r, k>> \in Bytes
  BY DEF Bytes
<1>5. s \in Seq(Bytes) /\ Len(s) = n /\ \A k \in 1..n : s[k] = <<r, k>>
  BY <1>3, <1>4
<1> QED
  BY <1>2, <1>3, <1>5 DEF Coded

LEMMA ConnServer ==
  ASSUME ConnInv, ServerAnswer
  PROVE  ConnInv'
<1> USE DEF ConnInv
<1> DEFINE r == Head(written)
<1>1. PICK a \in Answers :
        /\ a.kind \in IF r = Auth THEN AuthReplies ELSE Kinds
        /\ answer' = [answer EXCEPT ![r] = a]
        /\ stream' = stream \o Coded(r, a)
        /\ torn' = (torn \/ (a.kind = "nested" /\ a.size > 1))
  BY DEF ServerAnswer, Coded
<1>2. /\ link = "up" /\ written # <<>> /\ written' = Tail(written)
      /\ UNCHANGED <<state, request, terminating, link, reading, writing, incoming, asked,
                     outcome, asserted>>
  BY DEF ServerAnswer
<1>3. /\ r \in Commands /\ r \in asked \cup {Auth}
      /\ written' \in Seq(Commands)
      /\ \A i \in 1..Len(written') : \E k \in 1..Len(written) : written'[i] = written[k]
  <2>1. /\ Len(written) \in Nat \ {0} /\ r = written[1] /\ written' \in Seq(Commands)
        /\ Len(written') = Len(written) - 1
        /\ \A i \in 1..Len(written') : written'[i] = written[i + 1]
    BY <1>2 DEF MachineOK
  <2>2. \A i \in 1..Len(written') : i + 1 \in 1..Len(written)
    BY <2>1
  <2> QED
    BY <2>1, <2>2 DEF MachineOK, AskedOK
<1> HIDE DEF r
<1>4. /\ answer' \in [Commands -> Answers \cup {None}]
      /\ \A c \in Commands : answer'[c] = IF c = r THEN a ELSE answer[c]
  BY <1>1, <1>3 DEF DataOK
<1>5. a # None
  BY NoneAssumption
<1>6. MachineOK'
  BY <1>2, <1>3 DEF MachineOK
<1>7. AskedOK'
  <2>1. \A q \in Requests \ asked : answer'[q] = None
    BY <1>3, <1>4, AuthAssumption DEF AskedOK, Commands
  <2>2. answer'[Auth] # None => answer'[Auth].kind \in AuthReplies
    BY <1>1, <1>4 DEF AskedOK, Commands
  <2>3. state # "connecting"
    BY <1>2 DEF AskedOK
  <2> QED
    BY <1>2, <1>3, <2>1, <2>2, <2>3 DEF AskedOK
<1>8. DataOK'
  <2>1. PICK s : s = Coded(r, a)
    OBVIOUS
  <2>2. /\ s \in Seq(Bytes) /\ Len(s) = a.size
        /\ \A k \in 1..a.size : s[k] = <<r, k>>
    BY <1>3, <2>1, CodedType
  <2>3. stream \in Seq(Bytes)
    BY DEF DataOK
  <2>4. /\ stream' \in Seq(Bytes)
        /\ \A i \in 1..Len(stream') : \/ \E k \in 1..Len(stream) : stream'[i] = stream[k]
                                      \/ \E k \in 1..Len(s) : stream'[i] = s[k]
    BY <1>1, <2>1, <2>2, <2>3, Joined
  <2>5. ASSUME NEW i \in 1..Len(stream') PROVE answer'[stream'[i][1]] # None
    <3>1. CASE \E k \in 1..Len(stream) : stream'[i] = stream[k]
      <4>1. PICK k \in 1..Len(stream) : stream'[i] = stream[k]
        BY <3>1
      <4>2. stream[k][1] \in Commands /\ answer[stream[k][1]] # None
        BY <2>3 DEF DataOK, Bytes
      <4> QED
        BY <1>4, <1>5, <4>1, <4>2
    <3>2. CASE \E k \in 1..Len(s) : stream'[i] = s[k]
      BY <1>3, <1>4, <1>5, <2>2, <3>2
    <3> QED
      BY <2>4, <3>1, <3>2
  <2>6. ASSUME NEW i \in 1..Len(incoming) PROVE answer'[incoming[i][1]] # None
    <3>1. incoming[i][1] \in Commands /\ answer[incoming[i][1]] # None
      BY DEF DataOK, Bytes
    <3> QED
      BY <1>4, <1>5, <3>1
  <2>7. torn' \in BOOLEAN
    BY <1>1 DEF DataOK
  <2> QED
    BY <1>2, <1>4, <2>4, <2>5, <2>6, <2>7 DEF DataOK
<1> QED
  BY <1>6, <1>7, <1>8

LEMMA ConnInvNext == ConnInv /\ [Next]_vars => ConnInv'
<1> SUFFICES ASSUME ConnInv, [Next]_vars PROVE ConnInv'
  OBVIOUS
<1>1. CASE UNCHANGED vars
  BY <1>1 DEF vars, ConnInv, MachineOK, DataOK, AskedOK
<1> QED
  BY <1>1, ConnLink, ConnWriteError, ConnPool, ConnRead, ConnParse, ConnServer DEF Next

LEMMA ConnInvariant == Spec => []ConnInv
  BY ConnInvInit, ConnInvNext, PTL DEF Spec

-----------------------------------------------------------------------------
(* What follows from it at once.                                           *)

\* The variables keep their types, whatever the server sends and however the
\* stream is cut.
THEOREM ConnTypeCorrect == Spec => []TypeOK
<1>1. ASSUME ConnInv PROVE TypeOK
  <2>1. ASSUME NEW s \in Seq(Bytes), NEW i \in 1..Len(s) PROVE s[i] \in Commands \X Nat
    <3>1. s[i] \in Bytes
      OBVIOUS
    <3> QED
      BY <3>1 DEF Bytes
  <2>2. /\ \A i \in 1..Len(stream) : stream[i] \in Commands \X Nat
        /\ \A i \in 1..Len(incoming) : incoming[i] \in Commands \X Nat
    BY <1>1, <2>1 DEF ConnInv, DataOK
  <2> QED
    BY <1>1, <2>2, Zenon DEF ConnInv, MachineOK, DataOK, TypeOK
<1> QED
  BY <1>1, ConnInvariant, PTL

\* Nobody is told twice, and the request being executed was told nothing yet:
\* query::on_exit calls one of the two callbacks, and query_ is emptied with it.
THEOREM ToldOnceCorrect == Spec => []ToldOnce
<1>1. ConnInv => ToldOnce
  BY DEF ConnInv, AskedOK, ToldOnce
<1> QED
  BY <1>1, ConnInvariant, PTL

\* The oldest command leaves the list of those that wait for an answer.
LEMMA ServerShortens ==
  ASSUME ConnInv, ServerAnswer
  PROVE  Len(written') < Len(written)
<1>1. written # <<>> /\ written' = Tail(written) /\ written \in Seq(Commands)
  BY DEF ServerAnswer, ConnInv, MachineOK
<1> QED
  BY <1>1

\* A terminated machine stays so, calls nobody back and writes nothing, although
\* its handlers still run and bytes still arrive.
THEOREM TerminatedIsSilentCorrect == Spec => TerminatedIsSilent
<1> DEFINE Silent == state = "terminated" =>
                       /\ state' = "terminated" /\ outcome' = outcome
                       /\ writing' \subseteq writing /\ Len(written') <= Len(written)
<1>1. ASSUME ConnInv, [Next]_vars PROVE Silent
  <2>0. Len(written) \in Nat
    BY <1>1 DEF ConnInv, MachineOK
  <2> SUFFICES ASSUME state = "terminated"
               PROVE  /\ state' = "terminated" /\ outcome' = outcome
                      /\ writing' \subseteq writing /\ Len(written') <= Len(written)
    OBVIOUS
  <2>1. CASE Resolved \/ ConnectError \/ WriteDone \/ ReadError \/ Read \/ Break
    BY <2>0, <2>1 DEF Resolved, ConnectError, WriteDone, ReadError, Read, Break, Error
  <2>2. CASE Connected \/ PoolExecute \/ PoolTerminate
    BY <2>2 DEF Connected, PoolExecute, PoolTerminate
  <2>3. CASE WriteError
    <3>1. Len(written') \in Nat /\ Len(written') < Len(written)
      BY <1>1, <2>3, ConnWriteError DEF ConnInv, MachineOK
    <3>2. Len(written') <= Len(written)
      BY <2>0, <3>1
    <3>3. PICK i \in 1..Len(written) : writing' = writing \ {written[i]}
      BY <2>3 DEF WriteError
    <3>4. Error /\ outcome' = outcome
      BY <2>3 DEF WriteError
    <3>5. state' = "terminated"
      BY <3>4 DEF Error
    <3> QED
      BY <3>2, <3>3, <3>4, <3>5
  <2>4. CASE ParseOne
    <3>1. PICK e : Handle(e)
      BY <2>4 DEF ParseOne
    <3> QED
      BY <2>0, <3>1 DEF Handle, Answered, Authenticated, Unexpected, Blocked
  <2>5. CASE ServerAnswer
    <3>1. Len(written') \in Nat /\ Len(written') < Len(written)
      BY <1>1, <2>5, ServerShortens, ConnServer DEF ConnInv, MachineOK
    <3> QED
      BY <2>0, <2>5, <3>1 DEF ServerAnswer
  <2>6. CASE UNCHANGED vars
    BY <2>0, <2>6 DEF vars
  <2> QED
    BY <1>1, <2>1, <2>2, <2>3, <2>4, <2>5, <2>6 DEF Next
<1> QED
  BY <1>1, ConnInvariant, PTL DEF Spec, TerminatedIsSilent

\* A request leaves the connection without an outcome only if the link broke or
\* the request could not be written: terminate waits for its answer.
THEOREM TerminateIsGracefulCorrect == Spec => TerminateIsGraceful
<1> DEFINE Graceful == \A r \in Requests :
                         request = r /\ request' # r =>
                           outcome'[r] # <<>> \/ link = "down" \/ Len(written') < Len(written)
<1>1. ASSUME ConnInv, [Next]_vars PROVE Graceful
  <2> SUFFICES ASSUME NEW r \in Requests, request = r, request' # r
               PROVE  outcome'[r] # <<>> \/ link = "down" \/ Len(written') < Len(written)
    OBVIOUS
  <2>1. state = "query" /\ link \in {"up", "down"}
    BY <1>1, AuthAssumption DEF ConnInv, MachineOK
  <2>2. CASE Connected \/ ConnectError \/ PoolExecute \/ ReadError
    BY <2>1, <2>2 DEF Connected, ConnectError, PoolExecute, ReadError
  <2>3. CASE Resolved \/ PoolTerminate \/ WriteDone \/ Read \/ ServerAnswer \/ Break \/ UNCHANGED vars
    BY <2>3 DEF Resolved, PoolTerminate, WriteDone, Read, ServerAnswer, Break, vars
  <2>4. CASE WriteError
    BY <1>1, <2>4, ConnWriteError
  <2>5. CASE ParseOne
    <3>1. PICK e : Answered(e)
      BY <2>1, <2>5 DEF ParseOne, Handle, Authenticated, Unexpected, Blocked
    <3>2. PICK o : outcome' = [outcome EXCEPT ![r] = Append(@, o)]
      BY <3>1 DEF Answered
    <3>3. outcome \in [Requests -> Seq(Outcome)] /\ outcome[r] = <<>>
      BY <1>1, AuthAssumption DEF ConnInv, DataOK, AskedOK
    <3>4. PICK s : s = Append(outcome[r], o)
      OBVIOUS
    <3>5. s # <<>>
      BY <3>3, <3>4
    <3>6. outcome'[r] = s
      BY <3>2, <3>3, <3>4
    <3> QED
      BY <3>5, <3>6, Zenon
  <2> QED
    BY <1>1, <2>2, <2>3, <2>4, <2>5 DEF Next
<1> QED
  BY <1>1, ConnInvariant, PTL DEF Spec, TerminateIsGraceful

-----------------------------------------------------------------------------
(* The exchange under way.  As long as every read ends with an answer, and *)
(* no answer is an array with an error inside, at most one exchange is     *)
(* under way, and the answer that is read is the answer to the command     *)
(* being executed.                                                         *)

Quiet == written = <<>> /\ stream = <<>> /\ incoming = <<>>

\* Written, and not answered yet.
Asking(c) ==
  /\ Len(written) = 1 /\ written[1] = c
  /\ stream = <<>> /\ incoming = <<>> /\ answer[c] = None

\* Answered; the whole answer is on its way, or is being read.
Replying(c) ==
  /\ written = <<>> /\ answer[c] # None
  /\ answer[c].kind = "nested" => answer[c].size = 1
  /\ \/ stream = Coded(c, answer[c]) /\ incoming = <<>>
     \/ stream = <<>> /\ incoming = Coded(c, answer[c])

Exchange(c) == Asking(c) \/ Replying(c)

AuthError == answer[Auth] # None /\ answer[Auth].kind = "error"

StageOK ==
  /\ state \in {"connecting", "idle"} => Quiet
  /\ state = "query" => Exchange(request)
  /\ state = "authn" => Exchange(Auth) \/ (Quiet /\ AuthError)

WaitingOK ==
  /\ Len(written) <= 1
  /\ \A i \in 1..Len(written) : answer[written[i]] = None

ToldOK == \A r \in Requests : \A i \in 1..Len(outcome[r]) : outcome[r][i].of = r

AssertedOK == asserted => AuthError

SyncInv == ~torn => StageOK /\ WaitingOK /\ ToldOK /\ AssertedOK

LEMMA SyncInit == Init => SyncInv
<1> SUFFICES ASSUME Init PROVE SyncInv
  OBVIOUS
<1>1. /\ state = "connecting" /\ written = <<>> /\ stream = <<>> /\ incoming = <<>>
      /\ asserted = FALSE /\ outcome = [r \in Requests |-> <<>>]
  BY DEF Init
<1>2. Len(written) = 0 /\ \A r \in Requests : Len(outcome[r]) = 0
  <2>1. PICK e : e = <<>>
    OBVIOUS
  <2>2. Len(e) = 0 /\ \A r \in Requests : outcome[r] = e
    BY <1>1, <2>1
  <2> QED
    BY <1>1, <2>1, <2>2, Zenon
<1>3. WaitingOK
  BY <1>2 DEF WaitingOK
<1>4. ToldOK
  BY <1>2 DEF ToldOK
<1> QED
  BY <1>1, <1>3, <1>4 DEF SyncInv, StageOK, Quiet, AssertedOK

\* A command is sent when no other is under way.
LEMMA SendSync ==
  ASSUME NEW c \in Commands, Send(c), link \notin {"resolving", "closed"},
         written = <<>>, stream' = <<>>, incoming' = <<>>,
         answer' = answer, answer[c] = None
  PROVE  Asking(c)' /\ WaitingOK'
<1>1. written' = Append(<<>>, c)
  BY DEF Send
<1>2. Len(written') = 1 /\ written'[1] = c
  BY <1>1
<1> QED
  BY <1>2 DEF Asking, WaitingOK

\* Entering idle with nothing under way, the machine parks, ends or starts the
\* next exchange.
LEMMA IdleSync ==
  ASSUME ConnInv, NEW l, EnterIdle(l), link \notin {"resolving", "closed"},
         written = <<>>, stream' = <<>>, incoming' = <<>>, answer' = answer
  PROVE  StageOK' /\ WaitingOK'
<1>1. CASE /\ state' \in {"terminated", "idle"} /\ written' = written
  <2>1. written' = <<>> /\ Len(written') = 0
    BY <1>1
  <2> QED
    BY <1>1, <2>1 DEF StageOK, Quiet, WaitingOK
<1>2. ASSUME NEW r \in Requests \ asked, Execute(r) PROVE StageOK' /\ WaitingOK'
  <2>1. answer[r] = None /\ r \in Commands
    BY DEF ConnInv, AskedOK, Commands
  <2>2. Send(r) /\ state' = "query" /\ request' = r
    BY <1>2 DEF Execute
  <2>3. Asking(r)' /\ WaitingOK'
    BY <2>1, <2>2, SendSync
  <2>4. Exchange(request)'
    BY <2>2, <2>3 DEF Exchange, Asking
  <2> QED
    BY <2>2, <2>3, <2>4 DEF StageOK
<1> QED
  BY <1>1, <1>2 DEF EnterIdle

-----------------------------------------------------------------------------
(* The steps.                                                              *)

\* What reading, writing and the machine leave alone.
LEMMA SyncKept ==
  ASSUME WaitingOK, ToldOK, AssertedOK,
         UNCHANGED <<answer, written, outcome, asserted>>
  PROVE  WaitingOK' /\ ToldOK' /\ AssertedOK'
BY DEF WaitingOK, ToldOK, AssertedOK, AuthError

LEMMA SyncLink ==
  ASSUME ConnInv, SyncInv,
         Resolved \/ ConnectError \/ WriteDone \/ ReadError \/ Break \/ PoolTerminate
  PROVE  SyncInv'
<1> SUFFICES ASSUME ~torn' PROVE (StageOK /\ WaitingOK /\ ToldOK /\ AssertedOK)'
  BY DEF SyncInv
<1>1. UNCHANGED <<answer, written, stream, incoming, outcome, torn, asserted>>
  BY DEF Resolved, ConnectError, WriteDone, ReadError, Break, PoolTerminate
<1>2. StageOK /\ WaitingOK /\ ToldOK /\ AssertedOK
  BY <1>1 DEF SyncInv
<1>3. state' = "terminated" \/ UNCHANGED <<state, request>>
  BY DEF Resolved, ConnectError, WriteDone, ReadError, Break, PoolTerminate, Error
<1>4. StageOK'
  BY <1>1, <1>2, <1>3 DEF StageOK, Quiet, Exchange, Asking, Replying, AuthError
<1> QED
  BY <1>1, <1>2, <1>4, SyncKept

LEMMA SyncWriteError ==
  ASSUME ConnInv, SyncInv, WriteError
  PROVE  SyncInv'
<1> SUFFICES ASSUME ~torn' PROVE (StageOK /\ WaitingOK /\ ToldOK /\ AssertedOK)'
  BY DEF SyncInv
<1>1. UNCHANGED <<answer, outcome, torn, asserted>> /\ state' = "terminated"
  BY DEF WriteError, Error
<1>2. WaitingOK /\ ToldOK /\ AssertedOK
  BY <1>1 DEF SyncInv
<1>3. Len(written') < Len(written) /\ Len(written') \in Nat /\ Len(written) \in Nat
  BY ConnWriteError DEF ConnInv, MachineOK
<1>4. Len(written') = 0
  BY <1>2, <1>3 DEF WaitingOK
<1> QED
  BY <1>1, <1>2, <1>4 DEF StageOK, WaitingOK, ToldOK, AssertedOK, AuthError

LEMMA SyncStart ==
  ASSUME ConnInv, SyncInv, PoolExecute \/ Connected
  PROVE  SyncInv'
<1> SUFFICES ASSUME ~torn' PROVE (StageOK /\ WaitingOK /\ ToldOK /\ AssertedOK)'
  BY DEF SyncInv
<1>1. /\ UNCHANGED <<answer, stream, incoming, outcome, torn, asserted>>
      /\ state \in {"connecting", "idle"}
  BY DEF PoolExecute, Connected
<1>2. ToldOK /\ AssertedOK /\ Quiet
  BY <1>1 DEF SyncInv, StageOK
<1>3. ToldOK' /\ AssertedOK'
  BY <1>1, <1>2 DEF ToldOK, AssertedOK, AuthError
<1>4. written = <<>> /\ stream' = <<>> /\ incoming' = <<>>
  BY <1>1, <1>2 DEF Quiet
<1>5. CASE PoolExecute
  <2>1. PICK r \in Requests \ asked : Execute(r) /\ state = "idle"
    BY <1>5 DEF PoolExecute
  <2>2. answer[r] = None /\ r \in Commands /\ link \notin {"resolving", "closed"}
    BY <2>1 DEF ConnInv, MachineOK, AskedOK, Commands
  <2>3. Send(r) /\ state' = "query" /\ request' = r
    BY <2>1 DEF Execute
  <2>4. Asking(r)' /\ WaitingOK'
    BY <1>1, <1>4, <2>2, <2>3, SendSync
  <2>5. Exchange(request)'
    BY <2>3, <2>4 DEF Exchange, Asking
  <2> QED
    BY <1>3, <2>3, <2>4, <2>5 DEF StageOK
<1>6. CASE Connected
  <2>1. state = "connecting" /\ link = "connecting"
    BY <1>6 DEF Connected
  <2>2. CASE EnterIdle("up")
    BY <1>1, <1>3, <1>4, <2>1, <2>2, IdleSync
  <2>3. CASE state' = "authn" /\ Send(Auth)
    <3>1. Auth \in Commands /\ answer[Auth] = None
      BY <2>1 DEF Commands, ConnInv, AskedOK
    <3>2. Asking(Auth)' /\ WaitingOK'
      BY <1>1, <1>4, <2>1, <2>3, <3>1, SendSync
    <3>3. Exchange(Auth)'
      BY <3>2 DEF Exchange, Asking
    <3> QED
      BY <1>3, <2>3, <3>2, <3>3 DEF StageOK
  <2> QED
    BY <1>6, <2>2, <2>3 DEF Connected
<1> QED
  BY <1>5, <1>6

\* A read that ends with an answer takes all that there is of it.
LEMMA SyncRead ==
  ASSUME ConnInv, SyncInv, Read
  PROVE  SyncInv'
<1> SUFFICES ASSUME ~torn' PROVE (StageOK /\ WaitingOK /\ ToldOK /\ AssertedOK)'
  BY DEF SyncInv
<1>1. PICK n \in 1..Len(stream) :
        /\ torn' = (torn \/ stream[n][2] # answer[stream[n][1]].size)
        /\ incoming' = SubSeq(stream, 1, n)
        /\ stream' = SubSeq(stream, n + 1, Len(stream))
  BY DEF Read
<1>2. /\ UNCHANGED <<answer, written, outcome, asserted, state, request>>
      /\ stream # <<>> /\ incoming = <<>> /\ stream \in Seq(Bytes)
  BY DEF Read, Free, ConnInv, DataOK
<1>3. ~torn /\ stream[n][2] = answer[stream[n][1]].size
  BY <1>1
<1>4. StageOK /\ WaitingOK /\ ToldOK /\ AssertedOK
  BY <1>3 DEF SyncInv
<1>5. ASSUME NEW c \in Commands, Exchange(c) PROVE Exchange(c)'
  <2>1. /\ written = <<>> /\ answer[c] # None
        /\ answer[c].kind = "nested" => answer[c].size = 1
        /\ stream = Coded(c, answer[c])
    BY <1>2, <1>5 DEF Exchange, Asking, Replying
  <2>2. answer[c] \in Answers
    BY <2>1 DEF ConnInv, DataOK
  <2>3. Len(stream) = answer[c].size /\ stream[n] = <<c, n>>
    BY <2>1, <2>2, CodedType
  <2>4. n = Len(stream)
    BY <1>3, <2>3
  <2>5. incoming' = stream
    BY <1>1, <1>2, <2>4, SubSeqFull
  <2>6. stream' = <<>>
    BY <1>1, <2>4, SubSeqEmpty
  <2> QED
    BY <1>2, <2>1, <2>5, <2>6 DEF Exchange, Replying
<1>6. StageOK'
  <2>1. CASE state = "query"
    BY <1>2, <1>4, <1>5, <2>1, AuthAssumption DEF StageOK, ConnInv, MachineOK, Commands
  <2>2. CASE state = "authn"
    BY <1>2, <1>4, <1>5, <2>2 DEF StageOK, Quiet, Commands
  <2>3. CASE state \in {"connecting", "idle"}
    BY <1>2, <1>4, <2>3 DEF StageOK, Quiet
  <2>4. CASE state = "terminated"
    BY <1>2, <2>4 DEF StageOK
  <2> QED
    BY <2>1, <2>2, <2>3, <2>4 DEF ConnInv, MachineOK, States
<1> QED
  BY <1>2, <1>4, <1>6, SyncKept

\* A whole answer is parsed as what it is, and nothing is left of it.
LEMMA ParsedWhole ==
  ASSUME NEW c \in Commands, answer[c] \in Answers,
         answer[c].kind = "nested" => answer[c].size = 1,
         NEW e \in Parsed(Coded(c, answer[c]))
  PROVE  /\ e.of = c /\ e.size = Len(Coded(c, answer[c]))
         /\ e.event = "query_error" => answer[c].kind # "value"
<1>1. PICK b : b = Coded(c, answer[c])
  OBVIOUS
<1>2. answer[c].size \in Nat \ {0}
  BY SizesAssumption DEF Answers
<1>3. Len(b) = answer[c].size /\ b[1] = <<c, 1>>
  BY <1>1, <1>2, CodedType
<1>4. b[1][1] = c /\ b[1][2] = 1
  BY <1>3
<1>5. e = [event |-> IF answer[c].kind = "value" THEN "recv" ELSE "query_error", of |-> c,
           size |-> IF answer[c].kind = "nested" /\ answer[c].size > 1
                      THEN answer[c].size - 1 ELSE answer[c].size]
  BY <1>1, <1>2, <1>3, <1>4 DEF Parsed
<1> QED
  BY <1>1, <1>2, <1>3, <1>5

LEMMA SyncParse ==
  ASSUME ConnInv, SyncInv, ParseOne
  PROVE  SyncInv'
<1> SUFFICES ASSUME ~torn' PROVE (StageOK /\ WaitingOK /\ ToldOK /\ AssertedOK)'
  BY DEF SyncInv
<1>1. PICK e \in Parsed(incoming) :
        Handle(e) /\ incoming' = SubSeq(incoming, e.size + 1, Len(incoming))
  BY DEF ParseOne
<1>2. incoming # <<>> /\ UNCHANGED <<answer, stream, torn>> /\ incoming \in Seq(Bytes)
  BY DEF ParseOne, ConnInv, DataOK
<1>3. StageOK /\ WaitingOK /\ ToldOK /\ AssertedOK
  BY <1>2 DEF SyncInv
<1>4. ASSUME NEW c \in Commands, Exchange(c)
      PROVE  /\ written = <<>> /\ stream' = <<>> /\ incoming' = <<>>
             /\ e.of = c /\ answer[c] # None
             /\ e.event = "query_error" => answer[c].kind # "value"
  <2>1. /\ written = <<>> /\ answer[c] # None
        /\ answer[c].kind = "nested" => answer[c].size = 1
        /\ stream = <<>> /\ incoming = Coded(c, answer[c])
    BY <1>2, <1>4 DEF Exchange, Asking, Replying
  <2>2. answer[c] \in Answers
    BY <2>1 DEF ConnInv, DataOK
  <2>3. /\ e.of = c /\ e.size = Len(incoming)
        /\ e.event = "query_error" => answer[c].kind # "value"
    BY <1>1, <2>1, <2>2, ParsedWhole
  <2>4. incoming' = <<>>
    BY <1>1, <1>2, <2>3, SubSeqEmpty
  <2> QED
    BY <1>2, <2>1, <2>3, <2>4
<1>5. CASE Answered(e)
  <2>1. state = "query" /\ EnterIdle(link) /\ asserted' = asserted
    BY <1>5 DEF Answered
  <2>2. request \in Requests /\ request \in Commands /\ link \notin {"resolving", "closed"}
    BY <2>1 DEF ConnInv, MachineOK, Commands
  <2>3. written = <<>> /\ stream' = <<>> /\ incoming' = <<>> /\ e.of = request
    BY <1>3, <1>4, <2>1, <2>2 DEF StageOK
  <2>4. StageOK' /\ WaitingOK'
    BY <1>2, <2>1, <2>2, <2>3, IdleSync
  <2>5. ToldOK'
    <3> DEFINE o == [kind |-> IF e.event = "recv" THEN "result" ELSE "error", of |-> e.of]
    <3>1. outcome' = [outcome EXCEPT ![request] = Append(@, o)] /\ o.of = request
      BY <1>5, <2>3 DEF Answered
    <3> HIDE DEF o
    <3>2. PICK s : s = Append(outcome[request], o)
      OBVIOUS
    <3>3. outcome \in [Requests -> Seq(Outcome)] /\ outcome[request] = <<>>
      BY <2>1 DEF ConnInv, MachineOK, DataOK, AskedOK
    <3>4. Len(s) = 1 /\ s[1] = o
      BY <3>2, <3>3
    <3>5. \A r \in Requests : outcome'[r] = IF r = request THEN s ELSE outcome[r]
      BY <3>1, <3>2, <3>3
    <3>6. ASSUME NEW r \in Requests, NEW i \in 1..Len(outcome'[r]) PROVE outcome'[r][i].of = r
      <4>1. CASE r = request
        <5>1. outcome'[r] = s
          BY <3>5, <4>1
        <5>2. i \in 1..Len(s)
          BY <5>1, Zenon
        <5>3. i = 1
          BY <3>4, <5>2
        <5>4. outcome'[r][i] = o
          BY <3>4, <5>1, <5>3, Zenon
        <5> QED
          BY <3>1, <4>1, <5>4
      <4>2. CASE r # request
        <5>1. outcome'[r] = outcome[r]
          BY <3>5, <4>2
        <5> QED
          BY <1>3, <5>1, Zenon DEF ToldOK
      <4> QED
        BY <4>1, <4>2
    <3> QED
      BY <3>6 DEF ToldOK
  <2>6. AssertedOK'
    BY <1>2, <1>3, <2>1 DEF AssertedOK, AuthError
  <2> QED
    BY <2>4, <2>5, <2>6
<1>6. CASE Authenticated(e)
  <2>1. state = "authn" /\ EnterIdle(link) /\ UNCHANGED <<outcome, asserted>>
    BY <1>6 DEF Authenticated
  <2>2. Auth \in Commands /\ link \notin {"resolving", "closed"}
    BY <2>1 DEF ConnInv, MachineOK, Commands
  <2>3. written = <<>> /\ stream' = <<>> /\ incoming' = <<>>
    BY <1>2, <1>3, <1>4, <2>1, <2>2 DEF StageOK, Quiet
  <2>4. StageOK' /\ WaitingOK'
    BY <1>2, <2>1, <2>2, <2>3, IdleSync
  <2> QED
    BY <1>2, <1>3, <2>1, <2>4 DEF ToldOK, AssertedOK, AuthError
<1>7. CASE Unexpected(e)
  <2>1. /\ state \in {"idle", "authn"} /\ asserted' = TRUE
        /\ state = "authn" => e.event = "query_error"
        /\ UNCHANGED <<state, request, written, outcome>>
    BY <1>7 DEF Unexpected
  <2>2. state = "authn" /\ Exchange(Auth) /\ Auth \in Commands
    BY <1>2, <1>3, <2>1 DEF StageOK, Quiet, Commands
  <2>3. /\ written = <<>> /\ stream' = <<>> /\ incoming' = <<>>
        /\ answer[Auth] # None /\ answer[Auth].kind # "value"
    BY <1>4, <2>1, <2>2
  <2>4. AuthError
    BY <2>3, AuthRepliesAssumption DEF AuthError, ConnInv, AskedOK
  <2>5. AuthError' /\ written' = <<>>
    BY <1>2, <2>1, <2>3, <2>4 DEF AuthError
  <2> QED
    BY <1>2, <1>3, <2>1, <2>2, <2>3, <2>5 DEF StageOK, Quiet, WaitingOK, ToldOK, AssertedOK
<1>8. CASE Blocked
  <2>1. state' = "terminated" /\ UNCHANGED <<written, outcome, asserted>>
    BY <1>8 DEF Blocked
  <2> QED
    BY <1>2, <1>3, <2>1, SyncKept DEF StageOK
<1> QED
  BY <1>1, <1>5, <1>6, <1>7, <1>8 DEF Handle

LEMMA SyncServer ==
  ASSUME ConnInv, SyncInv, ServerAnswer
  PROVE  SyncInv'
<1> SUFFICES ASSUME ~torn' PROVE (StageOK /\ WaitingOK /\ ToldOK /\ AssertedOK)'
  BY DEF SyncInv
<1>1. PICK c \in Commands, a \in Answers :
        /\ c = Head(written)
        /\ answer' = [answer EXCEPT ![c] = a]
        /\ stream' = stream \o Coded(c, a)
        /\ torn' = (torn \/ (a.kind = "nested" /\ a.size > 1))
  <2>1. Head(written) \in Commands
    BY DEF ServerAnswer, ConnInv, MachineOK
  <2> QED
    BY <2>1 DEF ServerAnswer, Coded
<1>2. /\ written # <<>> /\ written' = Tail(written) /\ written \in Seq(Commands)
      /\ UNCHANGED <<state, request, incoming, outcome, asserted>>
      /\ answer \in [Commands -> Answers \cup {None}]
  BY DEF ServerAnswer, ConnInv, MachineOK, DataOK
<1>3. ~torn /\ ~(a.kind = "nested" /\ a.size > 1)
  BY <1>1
<1>4. StageOK /\ WaitingOK /\ ToldOK /\ AssertedOK
  BY <1>3 DEF SyncInv
<1>5. Len(written) = 1 /\ c = written[1] /\ answer[c] = None
  <2>1. Len(written) \in Nat \ {0} /\ Head(written) = written[1]
    <3>1. written \in Seq(Commands) /\ written # <<>>
      BY <1>2
    <3> QED
      BY ONLY <3>1
  <2>2. Len(written) <= 1
    BY <1>4 DEF WaitingOK
  <2>3. Len(written) = 1
    <3>1. \A n \in Nat \ {0} : n <= 1 => n = 1
      OBVIOUS
    <3> QED
      BY <2>1, <2>2, <3>1, Zenon
  <2>4. answer[written[1]] = None
    BY <1>4, <2>1 DEF WaitingOK
  <2> QED
    BY <1>1, <2>1, <2>3, <2>4
<1>6. written' = <<>> /\ Len(written') = 0
  BY <1>2, <1>5
<1>7. answer'[c] = a /\ \A d \in Commands : d # c => answer'[d] = answer[d]
  BY <1>1, <1>2
<1>8. ASSUME NEW d \in Commands, Exchange(d) PROVE Exchange(d)'
  <2>1. d = c /\ stream = <<>> /\ incoming = <<>>
    BY <1>2, <1>5, <1>8 DEF Exchange, Asking, Replying
  <2>2. stream' = Coded(c, a)
    <3>1. PICK s : s = Coded(c, a)
      OBVIOUS
    <3>2. s \in Seq(Bytes)
      BY <3>1, CodedType
    <3>3. stream' = <<>> \o s
      BY <1>1, <2>1, <3>1, Zenon
    <3>4. <<>> \o s = s
      BY <3>2, ConcatEmptySeq
    <3> QED
      BY <3>1, <3>3, <3>4
  <2>3. a # None /\ (a.kind = "nested" => a.size = 1)
    <3>1. a # None
      BY NoneAssumption
    <3>2. a.size \in Nat \ {0}
      BY SizesAssumption DEF Answers
    <3> QED
      BY <1>3, <3>1, <3>2
  <2>4. stream' = Coded(c, answer'[c])
    BY <1>7, <2>2, Zenon
  <2>5. answer'[c] # None /\ (answer'[c].kind = "nested" => answer'[c].size = 1)
    BY <1>7, <2>3, Zenon
  <2>6. incoming' = <<>>
    BY <1>2, <2>1
  <2> QED
    BY <1>6, <2>1, <2>4, <2>5, <2>6, Zenon DEF Exchange, Replying
<1>9. AuthError => AuthError'
  BY <1>5, <1>7 DEF AuthError, Commands
<1>10. StageOK'
  <2>1. CASE state = "query"
    BY <1>2, <1>4, <1>8, <2>1, AuthAssumption DEF StageOK, ConnInv, MachineOK, Commands
  <2>2. CASE state = "authn"
    <3>1. Exchange(Auth)
      BY <1>2, <1>4, <2>2 DEF StageOK, Quiet
    <3> QED
      BY <1>2, <1>8, <2>2, <3>1 DEF StageOK, Commands
  <2>3. state \notin {"connecting", "idle"}
    BY <1>2, <1>4 DEF StageOK, Quiet
  <2>4. CASE state = "terminated"
    BY <1>2, <2>4 DEF StageOK
  <2> QED
    BY <2>1, <2>2, <2>3, <2>4 DEF ConnInv, MachineOK, States
<1> QED
  BY <1>2, <1>4, <1>6, <1>9, <1>10 DEF WaitingOK, ToldOK, AssertedOK

LEMMA SyncNext == ConnInv /\ SyncInv /\ [Next]_vars => SyncInv'
<1> SUFFICES ASSUME ConnInv, SyncInv, [Next]_vars PROVE SyncInv'
  OBVIOUS
<1>1. CASE UNCHANGED vars
  BY <1>1 DEF vars, SyncInv, StageOK, Quiet, Exchange, Asking, Replying, WaitingOK, ToldOK,
              AssertedOK, AuthError
<1> QED
  BY <1>1, SyncLink, SyncWriteError, SyncStart, SyncRead, SyncParse, SyncServer DEF Next

LEMMA SyncInvariant == Spec => []SyncInv
  BY SyncInit, SyncNext, ConnInvariant, PTL DEF Spec

-----------------------------------------------------------------------------
(* What follows from it.                                                   *)

\* While a connection is idle, nothing of an earlier exchange is left, and one
\* command at most is being written and unanswered, as long as read_message is
\* given whole answers.
THEOREM InStepCorrect == Spec => []InStep
<1>1. ASSUME ConnInv, SyncInv, ~torn
      PROVE  /\ state = "idle" /\ link = "up" => written = <<>> /\ stream = <<>> /\ incoming = <<>>
             /\ Cardinality({c \in writing : \E i \in 1..Len(written) : written[i] = c}) <= 1
  <2> DEFINE W == {c \in writing : \E i \in 1..Len(written) : written[i] = c}
  <2>1. StageOK /\ WaitingOK /\ written \in Seq(Commands)
    BY <1>1 DEF SyncInv, ConnInv, MachineOK
  <2>2. W \subseteq {written[1]}
    BY <2>1 DEF WaitingOK
  <2>3. IsFiniteSet({written[1]}) /\ Cardinality({written[1]}) = 1
    BY FS_Singleton
  <2>4. Cardinality(W) <= 1
    BY <2>2, <2>3, FS_Subset
  <2> QED
    BY <2>1, <2>4 DEF StageOK, Quiet
<1>2. ConnInv /\ SyncInv => InStep
  BY <1>1 DEF InStep
<1> QED
  BY <1>2, ConnInvariant, SyncInvariant, PTL

\* Under the same condition a request is told the answer to it and to no other.
THEOREM RightAnswerCorrect == Spec => []RightAnswer
<1>1. SyncInv => RightAnswer
  BY DEF SyncInv, ToldOK, RightAnswer
<1> QED
  BY <1>1, SyncInvariant, PTL

\* Under the same condition only a rejected AUTH reaches no_transition: the
\* transition table has a row for everything else.
THEOREM AssertsOnlyIfCorrect == Spec => []AssertsOnlyIf
<1>1. SyncInv => AssertsOnlyIf
  BY DEF SyncInv, AssertedOK, AuthError, AssertsOnlyIf
<1> QED
  BY <1>1, SyncInvariant, PTL
=============================================================================
