# redis_async in TLA+

redis_async is an asynchronous C++ client for Redis: a static service keeps one
pool of connections per alias; each connection is a Boost.MSM state machine on a
socket; requests are executed in turn on idle connections, wait in a queue of
the pool while there is none, and end with a call of the user's result or error
callback. This directory holds a model of it, what TLC checks on small instances
and what TLAPS proves for all.

## The system

| component | state | operations | talks to |
|---|---|---|---|
| service (`redis_async.cpp`, `redis_impl.cpp`) | a static shared pointer under a recursive mutex; per `redis_impl`: `state_`, alias → pool, an io_service | `add_connection`, `execute`, `run`, `stop` | calls the pools; gives `close` a callback that counts pools and stops the io_service |
| connection pool (`connection_pool.cpp`) | `connections_`, `ready_connections_`, `queue_`, `closed_`, the close callback | `get_connection`, `close`; from connections: `connection_ready`, `connection_terminated`, `connection_error` | sends `execute` and `terminate` to connections; calls the user's error callbacks |
| connection (`connection_fsm.hpp`, `concrete_connection.hpp`) | machine state, the request being executed, deferred events, input buffer | connect, authenticate, execute, read, terminate, fail | calls the pool back; posts result callbacks on its strand; reads and writes the socket |
| reply parser (`parser.hpp`, `handler_parse_result.hpp`) | none | `raw_parse` of a buffer into a value, an error reply or a protocol error, with the bytes consumed | called by the read loop `read_message` |
| serializer and commands (`serializer.hpp`, `commands.cpp`) | none | build an argument list; size and print it into a buffer | called by `get_connection` |
| connection strings (`common.cpp`) | none | parse `alias=schema://[password@]uri[/database][?settings]` | called by `add_connection` |
| transports (`transport.cpp`) | a socket | resolve, connect, read, write, close | called by the connection |

What makes it hard, and where the properties aim:

* **Callbacks.** The user's error callbacks run in the middle of the pool's and
  the machine's own handlers (`clear_queue`, `query::on_exit`) and may call back
  into the pool: submit, or close it.
* **Ordering.** Waiting requests, new requests and connections that become idle
  meet in every order; `terminate` is deferred while a machine is busy.
* **Failure.** A link breaks in any state, also while idle, when its connection
  stays listed as ready; AUTH is rejected; a reply comes in pieces or is an error
  inside an array.
* **Shutdown.** `close` drains or sweeps, the close callback is called several
  times per pool and counted by `stop`, which runs while other threads hold the
  `redis_impl` it takes away.
* **No timeouts.** The timeout options are parsed and never used: progress
  depends on the server and the network.
* **Threads.** With more than one thread in `run`, a pool's two mutexes and one
  atomic flag leave windows between its steps.
* **Ambiguous texts.** A connection string is cut at the first or the last of
  separators that its parts may contain.

`PROJECT.json` lists each hazard at its line with the properties that cover it.

## Modules

| module | stands for | used by |
|---|---|---|
| `Dispatcher` | what a pool promises about requests: FIFO start, bounded concurrency | refined by `ConnectionPool` |
| `PoolLife` | what the service knows of a pool: size, closed, calls of the close callback | refined by `ConnectionPool`, basis of `RedisService` |
| `ConnectionPool` | one pool and the protocol machines of its connections | `MCConnectionPool`, `ConnectionPoolProofs` |
| `Connection` | one machine in detail: socket, chunks of bytes, deferral | `MCConnection`, `ConnectionProofs` |
| `PoolRaces` | one pool again, lock by lock and read by read, for several threads | `MCPoolRaces`, `PoolRacesProofs` |
| `RedisService` | the service, several threads, several pools | `MCRedisService`, `RedisServiceProofs` |
| `ConnectString` | `connection_options::parse` | `Registration` |
| `Registration` | from `add_connection` to the address a transport connects to | `MCRegistration`, `RegistrationProofs` |
| `RespParser` | `raw_parse` on bytes | `Serializer`, `RespReader` |
| `Serializer`, `Commands` | what is written for each command | `RespRoundTrip`, `MCRespReader` |
| `RespReader` | the loop of `read_message` over any buffer | `RespRoundTrip`, `RespReaderProofs` |
| `RespRoundTrip` | the same on replies that a server sent and requests that were written | `MCRespReader`, `RespRoundTripProofs` |
| `ConnectionPoolProofs` | theorems: the books of a pool, its requests, its action properties, both refinements | |
| `PoolRacesProofs` | theorems about `PoolRaces`: who is where, the mutexes, `pool_size_`, dead and missed connections, the close callback; no request and no connection in two places | |
| `ConnectionProofs`, `RedisServiceProofs`, `RegistrationProofs` | theorems about `Connection`, `RedisService`, `Registration` | |
| `RespReaderProofs` | theorems: the loop ends on any bytes; the parser is the recursive function of the code | `RespRoundTripProofs` |
| `RespRoundTripProofs` | theorems: what a server writes and what `serialize` writes is read back as what it was, and nothing is before all of it is there | |
| `SetInduction` | lemmas: induction along a number and a sequence | `RegistrationProofs`, `RespReaderProofs`, `RespRoundTripProofs` |

The level of detail differs by purpose. In `ConnectionPool` a handler is one
step, an answer is one event, and links, requests and user callbacks are explored to the full; in
`Connection` there is one machine, and answers are counted in bytes; in
`RespParser` the bytes have values. What one level assumes the next shows:
`ConnectionPool` takes an answer to belong to the request in execution
(`Connection`: `RightAnswer`, while replies arrive whole), and `RedisService`
takes a pool to live as `PoolLife` says (`ConnectionPool`: `ImplementsPoolLife`,
`CloseCompletes`). `PoolRaces` splits the same handlers, without AUTH, and asks what is
left of the properties of `ConnectionPool` when several threads run them.

### How state and actions correspond to the code

`ConnectionPool` keeps the names of the code (`connections`, `ready`, `queue`,
`closed`). `fsm` and `inflight` are the state and `query_` of each machine,
`doomed` its deferred `terminate`, `posted` the result callbacks on its strand.
`submitted`, `called` and `lost` are history. asio runs one handler at a time, so
a handler is one action, unless it calls the user: then `phase` and `current`
say where it is, and user actions may happen before it goes on. MSM queues an
event that is raised while a machine is in a transition; as the pool only
raises one for the machine that is entering idle, it is applied at the end of
the same action (`Serve`, `Sweep`).

`PoolRaces` has a program counter per thread. A critical section in which
nothing else can happen is one step, enabled while the mutex is free (or held by
the same thread: they are recursive); `close_connections` and `clear_queue`, which
call connections and users under a lock, keep it over several steps. Every read
of `closed_` and `connections_.empty()` outside a lock is a step of its own. A
machine in a transition is `entering` or `ending`, and what reaches it then is
in `mail`, Boost.MSM's event queue. `CallbackThrows` is an error callback that throws:
MSM catches the exception and the machine stays in its state, with a dead link
(`deaf`). `early` and `swept` are history.

`ConnectString` works on tokens, `find` and `rfind` on sequences of them; a function
that throws returns no result. `boost::split` and `parse_parameters` go along their text,
and are recursive functions of how far they got. What a user may mean (`Written`) is a record of options,
settings and an endpoint; `TextOf` writes it down, and `Writable` says what can be
written: no part contains the separator that ends it. `Registration` takes each place that checks or throws
as a step: the service, the pool, `basic_connection::create`, and the entry of `connecting`,
where what is thrown does not reach the caller any more.

`Connection` keeps `link`, `reading` and `writing`: where the transport is, whether an
`async_read` is outstanding and which `async_write`s are, so that a completion handler may
come late, or with an error after the socket was closed. It keeps a sequence of `<<command, position>>` as the byte stream. A read
returns any prefix of it, and `read_message` parses the pieces one at a time.
`Parsed` says what the parser makes of a piece, including the middle of an answer,
where it may see anything. An event without a row in the transition table sets
`asserted` (`BOOST_ASSERT`) and is dropped, as in a build without assertions.

`RedisService` splits a call in two, the copy of the shared pointer under the lock
and the rest, because `stop` fits in between. The loop of `stop` closes one pool per
step. `pool_count` is an integer: a negative value stands for the huge number a
`size_t` wraps around to, and nothing counts down from there to zero.

`RespParser` works on one-character strings; `Found` is the scan for `\r\n`,
`Counted` the part that bulk strings and arrays share. What the code calls itself for,
the elements of an array, the parsers get as a function, `raw_parse`, for shorter buffers.
In `Serializer` a write
outside the buffer makes the model's buffer longer, so that it would show; `Header`,
`Argument`, `Serialize` and `SerializeAll` are the stages of the code, from one `snprintf`
to several commands in one buffer. `Commands` treats a command's name as one byte. The server is
outside the repository: `RespRoundTrip` has its replies as a constant `Values`, and what it
writes for each as a constant `Encode`, of which only is known that it is one of the `Forms` that
the protocol has for the reply (a string simple or bulk, nil as either of two).

Operators marked "Seeded fault" are not part of any specification. Each is a
mapped operator with a plausible mistake, and shows that a property notices it
(`mutants` in `PROJECT.json`).

## Runs

| run | question | instance |
|---|---|---|
| `safety` | is the pool's bookkeeping right, in every interleaving with callbacks, failures and close; does it implement `Dispatcher` and `PoolLife` | 4 connections over time, pool size 2, 4 requests; AUTH accepted or rejected; symmetric |
| `live` | does the queue keep moving, does a closed pool end | 3 connections, size 2, 3 requests, no password |
| `answered` (violated) | does each request get a callback, as README.md:45 has it | 2 and 2 |
| `auth_refused` (violated) | is a rejected AUTH a connection error, as error.hpp:46-47 has it | 2 and 2 |
| `connection` | do request and answer stay in step; does `terminate` keep its promises | 2 requests, answers of 1 and 3 bytes of every kind, TCP and Unix, with and without AUTH |
| `fragment` (violated) | is `no_transition` unreachable, as its assertion has it | a 2-byte answer |
| `races` | what stays true of a pool that several threads use | 2 threads, 4 connections over time, pool size 1, 3 requests; callbacks may throw; symmetric |
| `connect_string` | is a connection string taken for what it means; who hears of what is wrong with it | a grammar of 5 addresses, 5 databases, 5 passwords and up to 2 settings; every text of up to 5 tokens over 8, and of up to 4 behind `a=tcp://`; options filled in by hand |
| `service` | does `stop` reach every pool and end `run` | 2 threads, 2 aliases, 2 successive `redis_impl` |
| `stop_early` (violated) | is the io_service stopped only when all connections are closed, as redis_impl.cpp:74-75 has it | 1 `redis_impl`, pool size 2 |
| `parser` | are replies and requests read back as what was written; does the loop end on any bytes | values of depth 2; cuts at every byte; all strings of up to 5 bytes over 9; every command |
| `nested` (violated) | is the consumed count of an error the size of the answer, as test_parser.cpp:98 has it | arrays with an error inside |

Why the bounds are enough. Two live connections and two more that may replace
them show every relation between a failing, a closing and a serving connection;
the pool treats connections and requests alike, so symmetry is sound where no
liveness is checked. Three requests on two connections make one wait while both
are busy; the fourth is there to be submitted from a callback. A three-byte
answer has a first, a middle and a last part. Two pools are what
it takes for the count of `stop` to mix up their calls. Two threads with a pool
of size one already race for everything the pool has: its last place, its idle
connection, its lock and its end; four connections make room for one that is
created by each thread and for the ones they replace. (The same invariants
hold with three threads; with four connections and three requests that takes
millions of states.) `PathMax` stands for the 108 bytes of a socket's address, `IntMax`
for 2^31 - 1: the tokens have values on both sides of each. Every bound is a constant
of the cfg: `Conns`, `Requests`, `PoolSize`, `Sizes`, `Threads`, `Aliases`, `Instances`, `PathMax`, `IntMax`, `Tokens`, `Settings`, `Written`, `OtherTexts`, `Buffers`,
`Values`, `Replies`, `Requests`, `Cut`; `Byte` stands for the bytes and `Encode` for the server's writing. A
request is submitted once, so a program that resubmits for ever from its own
error callback is outside (a hazard names it). Deadlock is not checked: a closed
pool, a terminated connection, a pool out of connections and a buffer that was read have nothing left to do.

Fairness. Handlers that asio has queued are run, and user callbacks return: this is
what a thread in `io_service::run` does. Beyond this the liveness properties need
the server to answer or the link to break (`Busy(c) /\ (Answer(c) \/ Fail(c))`,
`ServerAnswer`). No timeout of the library enforces that, so it is an assumption
about the environment. Submitting, closing, stopping and losing an idle link are
never assumed to happen. In `RedisService` fairness of a closed pool's handlers is
what `CloseCompletes` establishes.

## Proofs

Every safety property that a run checks is also a theorem, for all values of the
constants; the temporal properties with fairness are not (the end of this section). An invariant is proved by the
three facts `Init => IInv`, `IInv /\ [Next]_vars => IInv'`, `IInv => Inv`. The assumptions
are those of the modules, and only these:

| module | assumption | why |
|---|---|---|
| `ConnectionPool`, `PoolRaces`, `RedisService` | `PoolSize` is a positive number | the constructor throws for zero |
| `ConnectionPool` | `Conns` is not empty; `AuthReplies` are known replies | connections are made on demand; `Answer` has two outcomes for AUTH |
| `PoolRaces` | `Threads` is finite and not empty | the threads that called `run` |
| `RedisService` | `Instances` is a number | how often `impl()` made one |
| `Connection` | sizes are positive, kinds, replies to AUTH and schemas known, `Passwords` are Booleans, `Auth` is not a request | a reply has bytes; `basic_connection::create` accepts no other schema |
| `ConnectString` | `Tokens` has the separators, the numbers and the spellings of Booleans, which are not separators; `Numbers` gives numbers, `Truth` Booleans; `IntMax` is a number | a text is characters, and a token a run of them without a separator; the ranges of the types |
| `Registration` | `PoolSizes` and `PathMax` are numbers; `Settings` spell their values; texts are of tokens; what a user means is `Writable` | the ranges of the types; what cannot be written unambiguously for `find` and `rfind` is no text of the user's: for it, `OtherTexts` may be any texts |
| `RespReader` | `Buffers` are sequences of bytes | nothing else is asked of what arrives |
| `RespRoundTrip` | the marks, the digits, CR, LF and NUL are bytes; each of `Values` is an integer, a string, an error without CR LF, nil or an array of `Values`, `Encode` writes it in one of its `Forms`, and `Replies` are sequences of them; a command has a name | the protocol of the server; a command without any argument is the hazard at serializer.hpp:47 |
| all | `None` is nothing else | it stands for a null pointer |

The sets of connections and requests may be infinite; finiteness of what is open is part of the
invariants that count.

### One pool, one io thread (`ConnectionPoolProofs`)

`PoolInv` is the conjunction of

* `TypeInv`: types, with `ThreadOK`, which says what `phase` and `current` may be
  together, and `InflightIffQuery`. This part is inductive alone and is
  proved first, action by action (`TypeCorrect`, `InflightCorrect`);
* `PoolOK`: `ConnectionsAreLive`, `ReadyIsIdle`, `NoWaitWhileIdle`, `CloseDrains`, with
  `NoneIdle`, `ClearingOK` and `SizeOK` (`ConnectionsCorrect`, `BoundCorrect`,
  `ReadyCorrect`, `NoWaitCorrect`, `CloseCorrect`). None of these is
  inductive alone. That there are connections while requests wait, and none of them idle
  (`NoneIdle`), needs that an idle
  connection is in `ready` (else a submission finds `ready` empty with nobody busy),
  that no request waits while `ready` is not empty (else an idle connection could be
  lost with the queue unserved), and that a connection that clears the queue is live
  until the queue is empty. `SizeOK` adds finiteness, without which `Cardinality` says
  nothing.

A live machine that is not idle is busy or was refused, so `WaitersCorrect` follows: while
requests wait some connection is at work, unless all were refused (`AllRefused`, finding 2).
With `RefusedOK`, that only a server which refuses passwords makes a machine refused,
`WaitersServed` has no exception. That such work ends is liveness (run `live`, where no
password is set).

`OnePlaceCorrect` and `AnsweredOnceCorrect` rest on `RequestInv`, which adds `PostedOnce`:
`OnePlace` speaks of the set of requests with a posted result, so it would not notice one
posted on two strands, and running one of the two would then break it. Each action is
shown to be one of a few moves of a request between five places (`Places`).

`LostCorrect` and `ClosedCorrect` are action properties, from `PoolInv`. `PoolLifeImplemented`
and `DispatcherImplemented` are step simulations: the initial states map to initial
states, and each action to a step of the abstract specification or a stutter. What
needs `PoolInv` there is that a step which takes the head of the queue for a connection
has room for it (`Capacity`: the requests in execution are no more than the live
connections), and that a request starts at once only when none waits.

### One pool, several threads (`PoolRacesProofs`)

* `NoMutualWaitCorrect`. `ConnLockOK` says that whoever holds `conn_mutex_` between two
  steps is in the loop of `close_connections`, which waits for nothing. One lemma
  covers every step that starts elsewhere.
* `PlaceOK`, the basis of the others: what each thread's program counter says of its
  local variables and of the machine it works for, and that a machine in a transition
  has exactly one thread. `SourceOK` says from which state a link that fails was left.
* `OvershootCorrect`. `OpenInv` counts not the live connections but `Open`: those in
  `connections_`, those a thread is about to put there, and those erased whose handler
  has not ended, together with the threads that found room and have not created yet.
  A thread that is counted is not about to look again, and that gives the bound: one
  more than `PoolSize` for each other thread.
* `ClosedIsToldCorrect`. `ToldInv`: as long as the callback was not called, something is
  left that will come to call it: a request, an open connection or a thread in `close`.
* `OnlyEarlyStrayCorrect`. `StrayInv`: a connection that was not `early` is listed exactly
  while it lives (`ListedOK`), no idle machine has an event left in its queue (`IdleOK`), and
  after a sweep every such connection is `Covered`: terminate is on its way to it, or its
  handler has a check of `closed_` ahead, or it is in the list that `close_connections`
  still goes through.
* `RequestOnceCorrect`. Counting is awkward to prove about; `OnceInv` says instead that every
  place for a request is a pocket with an owner (`queue_`, the events of a machine, what it
  executes, what a thread has in hand, the past), that no two pockets share a
  request and that none has one twice. It gives the count of the property by a lemma.
* `OfferedOnceCorrect`. The same for connections (`OfferInv`), with one more place than the
  property names: a thread in the handler of `connection_ready`, before it has put
  its machine anywhere; and with `Unoffered`: a machine that was never idle is nowhere.

### One connection (`ConnectionProofs`)

* `ConnTypeCorrect`, `ToldOnceCorrect`, from `ConnInv`: the types of the machine (`MachineOK`), of
  the bytes (`DataOK`), and that what was not asked has no answer and no outcome
  (`AskedOK`); with that `ToldOnce` holds even for reads that end anywhere.
* `InStepCorrect`, `RightAnswerCorrect`, `AssertsOnlyIfCorrect`, from `SyncInv`: while no read was torn,
  each state has one place for the exchange it waits for (`StageOK`): in query
  and authn the command is alone in `written`, or its whole answer alone in the
  stream or in the buffer; in idle there is nothing. None of the three properties is
  inductive: an idle machine is in step because the loop of `read_message` took
  the whole answer before the machine could leave query, and the right answer is told because
  only one can be there.
* `TerminatedIsSilentCorrect`, `TerminateIsGracefulCorrect`: action properties.

### Service and registration (`RedisServiceProofs`, `RegistrationProofs`)

* `ServiceTypeCorrect`, `StopCorrect`, `LastPoolCorrect`, from `ServiceInv`: what the mutex protects
  (`LockOK`, `StateOK`, `MadeOK`), that a pool is open exactly as long as `stop` has not reached it
  (`OpenOK`), and `CountOK`: `pool_count` is at most the number of pools that never called
  back, which is why the last call stops the io_service although pools call more than once.
* `MeantCorrect`, for any texts a user may write, with any number of settings. Lemmas say where
  `find` and `rfind` cut a text that was put together (`FirstCut`, `LastCut`), what
  `boost::split` makes of it (`SplitAgain`, `SplitWhole`), and what a list of settings changes
  (`ReadSettings`); `ParseWritten` puts them together: `parse` returns one result, the
  options that were meant, but for address and database where the text is
  ambiguous. `MeantInv` carries this through the checks, all of which it passes, to the
  endpoint. That an ambiguous address is still not empty needs a clause of
  `Writable`: of `unix:///5` nothing is left when 5 is taken for the database.
* `LosslessCorrect`, for any text whatever. `SplitUriLossless` and `SplitPathLossless` say that
  each function returns the pieces of its argument, and `ParseParametersType` that
  settings change none of them (`ParseRead`).
* `SwallowedCorrect`, from `RegistrationInv`: the options are one record, the one each check has seen
  (`OneOptions`, `CheckedOK`). It holds whatever `parse` returns.

### Reply parser (`RespReaderProofs`)

`ProgressCorrect`, for any bytes and arrays of any depth: the loop of `read_message` ends and
its counter does not wrap around. Every parser is shown to consume at least one byte and no more
than there are (`Fits`): strings and errors by where `Found` is, numbers, counts and bulk
strings on that (`IntFits`, `CountedFits`, `BulkFits`), an array by induction on its elements
(`ElementsFit`), and `raw_parse` by induction on the depth (`RawFits`). `LoopInv` says that the
counter is the number of bytes left.

The code's `raw_parse` calls itself. The model has a function for each bound on the length of a buffer,
and `RawIsRecursive` shows that these are one function, which satisfies the equation that the code
is: `raw_parse` of a buffer is `PrimaryParser` of it with `raw_parse` itself for the elements. It needs
that a parser of elements is only ever asked about shorter buffers (`RawAgrees`).

### Replies and requests (`RespRoundTripProofs`)

`RoundTripCorrect` and `CutCorrect`, for any set of replies, nested as deep as one likes, any
commands, and a cut at any byte. They go from the text of a number up:

* `DecimalTextIs`: the digits `snprintf` prints are as many as `size_for_int` says, and
  `Decimal` gives the number again, by induction on the number. `LineFound`, `LineCut`: the scan for CR LF stops at the
  end of a line that contains none, and finds nothing in a part of it, not even when the part
  ends between CR and LF.
* For each kind of reply one lemma says that its text is read as what it is, whatever
  follows (`Reads`), and another that of any shorter prefix the parser says `not_enough_data` (`Waits`):
  `BulkRead` and `BulkCut`, `ElementsRead` and `ElementsCut` by induction on the elements, and so on.
  `ServerReads` puts them together, by induction on the length of the text: `Encode[v]` is read as `v`.
* `SerializeIs`: what `serialize` writes is the text of an array of bulk strings. `Holds` says that the buffer
  is what was written and then exactly as many bytes as are still to be written, so no
  `snprintf` is cut short, each NUL is overwritten by what follows, and the last byte
  is the last of the buffer.
* `TripInv`. The two properties speak of the reports alone, and say nothing of what is to come. The invariant
  says that what is left in the buffer is what is left of the texts, less the tail that was cut
  off (`Reading`), or that the loop has ended at the cut (`Broken`).

Both hold under `Plain`: no array contains an error. An array that does is reported as its error,
with part of it left in the buffer (finding 4, run `nested`), and this is the only exception.

### Induction (`SetInduction`)

The proofs about connection strings, the parser and the serializer need induction
along a text, a count, a number or a depth. The library's induction theorems take an
operator, so `SetInduction` has its own, with a set for the operator: `Least` (a set of
numbers has a least one, from `WFMin` and the well-foundedness of <), from it
`Induction`, `BoundedInduction` and `SeqInduction`, and `Recursion`: the function that a
recursive definition chooses exists, so that its equation may be used. Laws and
induction hypotheses carry names (`Assoc`, `Iterates`, `Moves`), which a step cites
folded or expanded: an equation that stays in sight slows the provers.

### Only model-checked

Beyond this prover: all liveness (`ImplementsFairDispatcher`, whose safety part is
`DispatcherImplemented`; `CloseCompletes`, `TerminateCompletes`, `ExecutionEnds`, `RunEnds`).
The violated runs are counterexamples, and need no proof.

## Findings

1. A request whose link breaks while it is executed, or that is handed to an idle
   connection whose link died, gets no callback (`answered`).
2. A rejected AUTH is an event without a transition; requests that wait for the
   connection wait for ever (`auth_refused`) once all connections were refused; until
   then some connection is at work (`WaitersHaveServer`).
3. A reply that arrives in two reads fails its request, and its second part
   reaches the machine in idle, where it hits `BOOST_ASSERT(false)` (`fragment`).
4. An error inside an array is reported with the size of the error alone, so
   the bytes after it are parsed as new replies (`nested`).
5. The close callback is called more than once by a pool and before its
   connections are gone; `stop` counts one call per pool and stops the io_service
   early (`stop_early`).

What the models show besides, without a sentence of the repository to contradict:

6. With several threads a request can be left waiting beside an idle connection
   until another connection becomes ready, can be left for ever in the queue of a
   pool that closed meanwhile, and `pool_size_` can be exceeded by one connection
   per further thread (`RequestOnce`, `ClosedIsTold` and `Overshoot` say what remains).
7. A connection whose first handlers run before `create_new_connection` has put it
   in `connections_` may stay there when it is dead, or be missed by
   `close_connections`. `OnlyEarlyStray` shows that no other connection can.
8. An error callback that throws out of `clear_queue` leaves a machine that was
   connecting or in query there for ever, in its place in the pool.
9. `1?keep_alive=true` after the last slash of a connection string becomes the name of
   the database, settings and all (they are applied too); the last part of the path of a
   socket is taken for a database when it begins with a number, and a path that is only
   this part, as in `unix:///5`, is refused; a database that is not a number stays in
   the address. `Ambiguous` in `Registration` is exactly this set,
   and `TakenAsMeant` shows that every other text is understood.
10. A path too long for a socket's address is refused inside the machine, where
    no caller hears of it (`SwallowedOnlyLongPath`: nothing else is).
11. A write error ends the machine and not the socket: the pending read keeps both
    alive until the peer closes.

## Not modelled

Logging, error classes, `to_string` and stream output. 64-bit overflow of a number in a
reply, and of a timeout. The exception of `reserve` when the count of an array is beyond memory. Exceptions of error callbacks in `ConnectionPool` and its proofs
(`PoolRaces` has them). Data races on the unprotected members of `redis_impl`, on
`closed_callback_` and on Boost.MSM's event queue: they have no outcomes to enumerate. Two
pools whose callbacks submit to each other under their locks. The
order of a session in which one alias is registered twice with different options. The
row for `terminate` in `unplugged`: a machine is told to connect before anybody
can see it.

## Plan

Done: all modules, their runs, and a theorem for every safety property that a run checks. What is left:
what `Dispatcher` and `PoolLife` imply by themselves, so that a client of the pool can
cite them without the pool.
