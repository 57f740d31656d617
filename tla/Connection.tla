----------------------------- MODULE Connection -----------------------------
(***************************************************************************)
(* One connection: the state machine connection_fsm_def, the socket it     *)
(* reads in chunks, and the framing loop read_message.  The pool appears   *)
(* only as what it may ask of a connection: a request when it is idle, and *)
(* terminate at any time.  The server answers in order; an answer is a     *)
(* number of bytes, of which a read may return any number.  Every           *)
(* asynchronous operation has a completion handler, which runs later.       *)
(*                                                                         *)
(* An event the transition table does not list runs into BOOST_ASSERT; the *)
(* model records that in `asserted' and goes on as a build without         *)
(* assertions does, where the event is dropped.                            *)
(***************************************************************************)
EXTENDS Naturals, Sequences, FiniteSets

CONSTANTS Requests,
          Auth,        \* the AUTH command, which is nobody's request
          None,        \* no request, no answer
          Schemas,     \* "tcp", "unix"
          Passwords,   \* whether a password may be set: a set of Booleans
          AuthReplies, \* kinds of answer to AUTH: "value", "error"
          Sizes,       \* how many bytes an answer may have
          Kinds        \* "value", "error", "nested": an array with an error inside

ASSUME AuthAssumption == Auth \notin Requests /\ None \notin Requests \cup {Auth}
ASSUME SchemasAssumption == Schemas \subseteq {"tcp", "unix"}
ASSUME PasswordsAssumption == Passwords \subseteq BOOLEAN
ASSUME AuthRepliesAssumption == AuthReplies \subseteq {"value", "error"}
ASSUME SizesAssumption == Sizes \subseteq Nat \ {0}
ASSUME KindsAssumption == Kinds \subseteq {"value", "error", "nested"}

VARIABLES
  state,        \* the machine's state
  request,      \* query::query_
  terminating,  \* a terminate event is deferred
  link,         \* the transport: "resolving", "connecting", "up", "down" if it
                \*   failed, "closed" if we closed the socket
  reading,      \* an async_read has not completed
  writing,      \* commands whose async_write has not completed
  written,      \* commands sent and not answered yet
  answer,       \* what the server answered to each command
  stream,       \* bytes on their way: <<command, position in its answer>>
  incoming,     \* incoming_: non-empty inside read_message only
  asked,        \* history: the requests given to the connection
  outcome,      \* history: what each request was told, in order
  torn,         \* history: a read ended inside an answer, or an answer was an
                \*   array with an error inside
  asserted      \* history: no_transition was called

vars == <<state, request, terminating, link, reading, writing, written, answer, stream,
          incoming, asked, outcome, torn, asserted>>

Commands == Requests \cup {Auth}
Links == {"resolving", "connecting", "up", "down", "closed"}
States == {"connecting", "authn", "idle", "query", "terminated"}
Answers == [kind : Kinds \cup {"value", "error"}, size : Sizes]

ASSUME NoneAssumption == None \notin Answers

\* "result" of a complete answer `of' a command; of = None when bytes from the
\* middle of an answer were taken for one.
Outcome == [kind : {"result", "error"}, of : Commands \cup {None}]

Init ==
  /\ state = "connecting" /\ request = None
  /\ link \in {IF s = "tcp" THEN "resolving" ELSE "connecting" : s \in Schemas}
  /\ terminating = FALSE /\ reading = FALSE /\ writing = {}
  /\ written = <<>> /\ stream = <<>> /\ incoming = <<>>
  /\ answer = [r \in Commands |-> None]
  /\ asked = {} /\ outcome = [r \in Requests |-> <<>>]
  /\ torn = FALSE /\ asserted = FALSE

-----------------------------------------------------------------------------
(* The state machine.                                                      *)

\* The io thread is not inside read_message.
Free == incoming = <<>>

\* send: async_write, if the socket is open.
Send(c) ==
  IF link \in {"resolving", "closed"} THEN UNCHANGED <<written, writing>>
  ELSE written' = Append(written, c) /\ writing' = writing \cup {c}

\* close_transport.
CloseTransport == link' = "closed"

\* Entry of query: the command is stored and written.
Execute(r) ==
  /\ state' = "query" /\ request' = r
  /\ asked' = asked \cup {r}
  /\ Send(r)
  /\ UNCHANGED terminating

\* Seeded fault: connection_ready executes what next_event left in its variable,
\* request or not.
EnterIdleUnchecked(l) ==
  link' = l /\ \E r \in (Requests \ asked) \cup {None} : Execute(r)

\* Seeded fault: the deferred terminate is never taken up again.
EnterIdleForgetting(l) ==
  /\ state' = "idle" /\ request' = None /\ link' = l
  /\ UNCHANGED <<terminating, asked, written, writing>>

\* Entry of idle, with the link l.  A deferred terminate is handled first, and then
\* the pool has no request left to hand over (CloseDrains of ConnectionPool); else
\* notify_idle lets it hand over the next one, which is handled next, or park us.
EnterIdle(l) ==
  IF terminating
    THEN /\ state' = "terminated" /\ CloseTransport
         /\ terminating' = FALSE /\ request' = None
         /\ UNCHANGED <<asked, written, writing>>
    ELSE /\ link' = l
         /\ \/ \E r \in Requests \ asked : Execute(r)
            \/ /\ state' = "idle" /\ request' = None
               /\ UNCHANGED <<terminating, asked, written, writing>>

\* handle_resolve of the TCP transport: the address is known.
Resolved ==
  /\ link = "resolving" /\ link' = "connecting"
  /\ UNCHANGED <<state, request, terminating, reading, writing, written, answer, stream,
                 incoming, asked, outcome, torn, asserted>>

\* handle_connect: the first read starts.  With no password, authn completes at
\* once; else AUTH is sent.
Connected ==
  /\ state = "connecting" /\ link = "connecting"
  /\ reading' = TRUE
  /\ \/ FALSE \in Passwords /\ EnterIdle("up")
     \/ /\ TRUE \in Passwords
        /\ state' = "authn" /\ link' = "up"
        /\ Send(Auth)
        /\ UNCHANGED <<request, terminating, asked>>
  /\ UNCHANGED <<answer, stream, incoming, outcome, torn, asserted>>

\* Seeded fault: the pool does not wait for an answer before the next request.
PoolExecuteBusy ==
  /\ Free /\ state \in {"idle", "query"}
  /\ \E r \in Requests \ asked : Execute(r)
  /\ UNCHANGED <<link, reading, answer, stream, incoming, outcome, torn, asserted>>

\* The pool gives an idle connection a request.
PoolExecute ==
  /\ Free /\ state = "idle"
  /\ \E r \in Requests \ asked : Execute(r)
  /\ UNCHANGED <<link, reading, answer, stream, incoming, outcome, torn, asserted>>

\* Seeded fault: no state defers terminate.
PoolTerminateAtOnce ==
  /\ Free /\ state # "terminated"
  /\ state' = "terminated" /\ request' = None
  /\ UNCHANGED <<link, reading, writing, terminating, written, answer, stream, incoming,
                 asked, outcome, torn, asserted>>

\* The pool terminates the connection: idle closes the socket, the states that
\* wait for something defer the event.
PoolTerminate ==
  /\ Free /\ state # "terminated" /\ ~terminating
  /\ IF state = "idle"
       THEN state' = "terminated" /\ CloseTransport /\ UNCHANGED terminating
       ELSE terminating' = TRUE /\ UNCHANGED <<state, link>>
  /\ UNCHANGED <<request, reading, writing, written, answer, stream, incoming, asked,
                 outcome, torn, asserted>>

\* connection_error, from any state: the request being executed is dropped.  A
\* machine that is terminated ignores it.
Error ==
  IF state = "terminated" THEN UNCHANGED <<state, request, terminating>>
  ELSE state' = "terminated" /\ request' = None /\ terminating' = FALSE

\* handle_resolve or handle_connect with an error.
ConnectError ==
  /\ link \in {"resolving", "connecting"}
  /\ Error /\ link' = "down"
  /\ UNCHANGED <<reading, writing, written, answer, stream, incoming, asked, outcome,
                 torn, asserted>>

\* handle_write: a command is written; its answer may have come before.
WriteDone ==
  /\ Free
  /\ \E c \in writing : writing' = writing \ {c}
  /\ UNCHANGED <<state, request, terminating, link, reading, written, answer, stream,
                 incoming, asked, outcome, torn, asserted>>

\* handle_write with an error.  Nothing closes the socket, which goes on reading.
WriteError ==
  /\ Free
  /\ \E i \in 1..Len(written) :
       /\ written[i] \in writing
       /\ writing' = writing \ {written[i]}
       /\ written' = SubSeq(written, 1, i - 1) \o SubSeq(written, i + 1, Len(written))
  /\ Error
  /\ UNCHANGED <<link, reading, answer, stream, incoming, asked, outcome,
                 torn, asserted>>

\* handle_read with an error: the link broke, or we closed the socket.
ReadError ==
  /\ Free /\ reading /\ link \in {"down", "closed"}
  /\ reading' = FALSE
  /\ Error
  /\ UNCHANGED <<link, writing, written, answer, stream, incoming, asked, outcome,
                 torn, asserted>>

-----------------------------------------------------------------------------
(* Reading.                                                                *)

\* Seeded fault: a complete answer is consumed with one byte missing.
ParsedShort(b) ==
  LET r == b[1][1] IN
  {[event |-> IF answer[r].kind = "value" THEN "recv" ELSE "query_error",
    of |-> r, size |-> IF Len(b) > 1 THEN Len(b) - 1 ELSE 1]}

\* What raw_parse makes of the bytes b: an event and the number of bytes it
\* reports consumed, all of them if it reports none.
\*  - a complete answer at the front is recognised; an error inside an array
\*    reports the size of the error alone (taken to be one byte less);
\*  - an incomplete one is a protocol error, not_enough_data, like any other, but
\*    an error inside an array is reported before the array is complete;
\*  - from the middle of an answer, anything can be read.
Parsed(b) ==
  LET r == b[1][1]
      a == answer[r]
  IN  IF b[1][2] = 1 /\ a.size <= Len(b)
        THEN {[event |-> IF a.kind = "value" THEN "recv" ELSE "query_error",
               of |-> r,
               size |-> IF a.kind = "nested" /\ a.size > 1 THEN a.size - 1 ELSE a.size]}
        ELSE {[event |-> "query_error", of |-> None, size |-> Len(b)]} \cup
             IF b[1][2] = 1
               THEN [event : {"query_error"}, of : {r},
                     size : {n \in 1..Len(b) - 1 : a.kind = "nested"}]
               ELSE [event : {"recv", "query_error"}, of : {None}, size : {1}]

\* Seeded fault: both callbacks of the request are called.
HandleTwice(e) ==
  /\ state = "query"
  /\ outcome' = [outcome EXCEPT ![request] = @ \o
        << [kind |-> "result", of |-> e.of], [kind |-> "error", of |-> e.of] >>]
  /\ EnterIdle(link)
  /\ UNCHANGED asserted

\* An answer to the request being executed: query::on_exit tells it, and the
\* machine enters idle.
Answered(e) ==
  /\ state = "query"
  /\ outcome' = [outcome EXCEPT ![request] =
                   Append(@, [kind |-> IF e.event = "recv" THEN "result" ELSE "error",
                              of |-> e.of])]
  /\ EnterIdle(link)
  /\ UNCHANGED asserted

\* The answer to AUTH is not looked at.
Authenticated(e) ==
  /\ state = "authn" /\ e.event = "recv"
  /\ EnterIdle(link)
  /\ UNCHANGED <<outcome, asserted>>

\* No row of the transition table: no_transition.
Unexpected(e) ==
  /\ state = "idle" \/ (state = "authn" /\ e.event = "query_error")
  /\ asserted' = TRUE
  /\ UNCHANGED <<state, request, terminating, link, writing, written, asked, outcome>>

\* Seeded fault: terminated is an ordinary state, which an answer leaves.
NotBlocked ==
  /\ state = "terminated"
  /\ EnterIdle(link)
  /\ UNCHANGED <<outcome, asserted>>

\* terminated is a terminate_state: the machine ignores every event.
Blocked ==
  /\ state = "terminated"
  /\ UNCHANGED <<state, request, terminating, link, writing, written, asked, outcome,
                 asserted>>

\* Seeded fault: query has no row for query_error.
HandleNoErrorRow(e) ==
  \/ e.event = "recv" /\ Answered(e)
  \/ Authenticated(e) \/ Unexpected(e) \/ Blocked
  \/ /\ state = "query" /\ e.event = "query_error" /\ asserted' = TRUE
     /\ UNCHANGED <<state, request, terminating, link, writing, written, asked, outcome>>

\* process_event of what was parsed, in every state.
Handle(e) == Answered(e) \/ Authenticated(e) \/ Unexpected(e) \/ Blocked

\* handle_read: some of the bytes arrive, and read_message starts.
Read ==
  /\ Free /\ reading /\ link = "up" /\ stream # <<>>
  /\ reading' = FALSE
  /\ \E n \in 1..Len(stream) :
       /\ torn' = (torn \/ stream[n][2] # answer[stream[n][1]].size)
       /\ incoming' = SubSeq(stream, 1, n)
       /\ stream' = SubSeq(stream, n + 1, Len(stream))
  /\ UNCHANGED <<state, request, terminating, link, writing, written, answer, asked,
                 outcome, asserted>>

\* One round of the loop of read_message; after the last one the next read starts,
\* be the socket open or not.
ParseOne ==
  /\ incoming # <<>>
  /\ \E e \in Parsed(incoming) :
       /\ Handle(e)
       /\ incoming' = SubSeq(incoming, e.size + 1, Len(incoming))
       /\ reading' = (incoming' = <<>>)
  /\ UNCHANGED <<answer, stream, torn>>

-----------------------------------------------------------------------------
(* The server and the network.                                             *)

\* The server answers the oldest command.
ServerAnswer ==
  /\ link = "up" /\ written # <<>>
  /\ LET r == Head(written) IN
     \E a \in Answers :
       /\ a.kind \in IF r = Auth THEN AuthReplies ELSE Kinds
       /\ answer' = [answer EXCEPT ![r] = a]
       /\ stream' = stream \o [k \in 1..a.size |-> <<r, k>>]
       /\ torn' = (torn \/ (a.kind = "nested" /\ a.size > 1))
  /\ written' = Tail(written)
  /\ UNCHANGED <<state, request, terminating, link, reading, writing, incoming, asked,
                 outcome, asserted>>

Break ==
  /\ Free /\ link = "up" /\ link' = "down"
  /\ UNCHANGED <<state, request, terminating, reading, writing, written, answer, stream, incoming,
                 asked, outcome, torn, asserted>>

Next ==
  \/ Resolved \/ Connected \/ ConnectError \/ PoolExecute \/ PoolTerminate
  \/ WriteDone \/ WriteError \/ ReadError
  \/ Read \/ ParseOne
  \/ ServerAnswer \/ Break

Spec == Init /\ [][Next]_vars

\* The io thread runs its handlers; the server answers.
Fairness == /\ WF_vars(Resolved \/ Connected \/ ConnectError)
            /\ WF_vars(WriteDone \/ WriteError)
            /\ WF_vars(ReadError) /\ WF_vars(Read) /\ WF_vars(ParseOne)
            /\ WF_vars(ServerAnswer)

FairSpec == Spec /\ Fairness

-----------------------------------------------------------------------------
(* Properties.                                                             *)

TypeOK ==
  /\ state \in States
  /\ request \in Requests \cup {None}
  /\ link \in Links
  /\ terminating \in BOOLEAN /\ reading \in BOOLEAN /\ asserted \in BOOLEAN
  /\ writing \subseteq Commands
  /\ torn \in BOOLEAN
  /\ written \in Seq(Commands)
  /\ answer \in [Commands -> Answers \cup {None}]
  /\ \A i \in 1..Len(stream) : stream[i] \in Commands \X Nat
  /\ \A i \in 1..Len(incoming) : incoming[i] \in Commands \X Nat
  /\ asked \subseteq Requests
  /\ outcome \in [Requests -> Seq(Outcome)]

\* A request is told one thing at most, however the stream is cut up, and the
\* one being executed was told nothing yet.
ToldOnce ==
  /\ \A r \in Requests : Len(outcome[r]) <= 1
  /\ request # None => outcome[request] = <<>>

\* While a connection is idle nothing of an earlier exchange is left: no command
\* unanswered and no byte unread.  Otherwise the next request would be answered
\* by the leftovers, and two writes would mix their bytes.  read_message keeps
\* this up as long as every read returns whole answers without errors inside
\* arrays.
InStep ==
  ~torn =>
    /\ state = "idle" /\ link = "up" => written = <<>> /\ stream = <<>> /\ incoming = <<>>
    /\ Cardinality({c \in writing : \E i \in 1..Len(written) : written[i] = c}) <= 1

\* What a request is told is the answer to it and to no other, under the same
\* condition.
RightAnswer ==
  ~torn => \A r \in Requests : \A i \in 1..Len(outcome[r]) : outcome[r][i].of = r

\* no_transition is unreachable: BOOST_ASSERT(false), connection_fsm.hpp:252.
NeverAsserts == ~asserted

\* no_transition has two causes only, a reply that comes in pieces (or with an
\* error inside) and a rejected AUTH: the transition table has a row for
\* everything else that can reach the machine, however terminate is deferred.
AssertsOnlyIf ==
  asserted => torn \/ (answer[Auth] # None /\ answer[Auth].kind = "error")

\* Terminating a connection never costs a request its answer: one being executed
\* ends with an outcome unless the link broke or the request was never written.
TerminateIsGraceful ==
  [][\A r \in Requests :
       request = r /\ request' # r =>
         outcome'[r] # <<>> \/ link = "down" \/ Len(written') < Len(written)]_vars

\* A terminated connection tells nobody anything and writes nothing, although
\* bytes may still arrive and its handlers still run.
TerminatedIsSilent ==
  [][state = "terminated" =>
       state' = "terminated" /\ outcome' = outcome
       /\ writing' \subseteq writing /\ Len(written') <= Len(written)]_vars

\* Deferred or not, terminate takes effect, unless the answer to AUTH ran into
\* no_transition, which leaves the machine in authn; and once the socket is closed
\* no handler is left that keeps the connection alive.
TerminateCompletes ==
  /\ terminating ~> state = "terminated" \/ (state = "authn" /\ asserted)
  /\ link = "closed" ~> Free /\ ~reading /\ writing = {}

\* Every request a connection executes comes to an end.
ExecutionEnds == \A r \in Requests : request = r ~> request # r
=============================================================================
