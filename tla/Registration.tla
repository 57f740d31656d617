---------------------------- MODULE Registration ----------------------------
(***************************************************************************)
(* From a connection string, or options the user filled in, to the address *)
(* the first connection of the new pool is told to connect to: what        *)
(* add_connection of the service, the pool, the connection and the         *)
(* transport each check, and where what they throw ends up.  An exception  *)
(* reaches the caller of add_connection, except from the entry of          *)
(* connecting, where Boost.MSM catches it.                                 *)
(***************************************************************************)
EXTENDS ConnectString

CONSTANTS Settings,   \* settings with what they mean: [key, val, value]
          Written,    \* what a user may mean: [options, endpoint, settings], a
                      \*   sequence of Settings in the order they are written
          OtherTexts, \* any other texts
          GivenOptions, \* options filled in by hand
          PoolSizes,  \* sizes of a pool
          PathMax     \* how long the path of a socket may be

-----------------------------------------------------------------------------
\* How a user writes it: alias=schema://[password@]uri[/database][?settings].
SettingText(s) == <<s.key, "=">> \o s.val

SettingsText(ss) ==
  LET joined[i \in 0..Len(ss)] ==
        IF i = 0 THEN <<>>
        ELSE joined[i - 1] \o (IF i = 1 THEN <<>> ELSE <<"&">>) \o SettingText(ss[i])
  IN  joined[Len(ss)]

AddressText(o) == o.uri \o (IF o.database = <<>> THEN <<>> ELSE <<"/">> \o o.database)

TextOf(w) ==
  w.options.alias \o <<"=">> \o w.options.schema \o <<":", "/", "/">>
    \o (IF w.options.password = <<>> THEN <<>> ELSE w.options.password \o <<"@">>)
    \o AddressText(w.options)
    \o (IF w.settings = <<>> THEN <<>> ELSE <<"?">> \o SettingsText(w.settings))

Free(s, tokens) == \A i \in 1..Len(s) : s[i] \notin tokens

\* A setting that spells its value.
Times == [u \in {"ms", "s", "m"} |-> CASE u = "ms" -> 1 [] u = "s" -> 1000 [] u = "m" -> 60000]
Spelt(s) ==
  \/ /\ s.key = "keep_alive"
     /\ \E t \in DOMAIN Truth : s.val = <<t>> /\ s.value = Truth[t]
  \/ /\ s.key \in {"connect_timeout", "socket_timeout"}
     /\ \E n \in DOMAIN Numbers, u \in DOMAIN Times :
          \/ s.val = <<n, u>> /\ s.value = Numbers[n] * Times[u]
          \/ s.val = <<"-", n, u>> /\ s.value = -Numbers[n] * Times[u]

\* Of several settings of one option the last one counts.
Value(ss, key, default) ==
  LET set == {i \in 1..Len(ss) : ss[i].key = key}
  IN  IF set = {} THEN default ELSE ss[Last(set)].value

\* The address of a socket is its path, of a host its name and its port.
Means(uri, schema, endpoint) ==
  \/ schema = <<"unix">> /\ Len(uri) <= PathMax /\ endpoint = <<"unix", uri>>
  \/ /\ schema = <<"tcp">>
     /\ \/ Free(uri, {":"}) /\ endpoint = <<"tcp", uri, <<"6379">>>>
        \/ \E i \in 1..Len(uri) : /\ Free(Before(uri, i), {":"}) /\ uri[i] = ":"
                                  /\ endpoint = <<"tcp", Before(uri, i), After(uri, i)>>

\* The last part of an address, if it has several.
LastPart(uri) ==
  LET slash == Occurs(uri, <<"/">>)
  IN  IF slash = {} THEN <<>> ELSE After(uri, Last(slash))

\* Nothing in the parts of a text is one of the separators that end them.
Writable(w) ==
  LET o == w.options
  IN  /\ o.alias # <<>> /\ Free(o.alias, {"="})
      /\ o.schema # <<>> /\ Free(o.schema, {":"})
      /\ Free(o.password, {"@"})
      /\ o.password = <<>> => Free(AddressText(o) \o SettingsText(w.settings), {"@"})
      /\ o.uri # <<>> /\ Free(o.uri, {"?"})
      /\ IsDatabase(LastPart(o.uri)) => Last(Occurs(o.uri, <<"/">>)) # 1
      /\ Free(o.database, {"/", "?"})
      /\ o.keep_alive = Value(w.settings, "keep_alive", FALSE)
      /\ o.connect_timeout = Value(w.settings, "connect_timeout", 0)
      /\ o.socket_timeout = Value(w.settings, "socket_timeout", 0)
      /\ Means(o.uri, o.schema, w.endpoint)

Text == Seq(Tokens)
Given == [alias : Text, schema : Text, uri : Text, database : Text, password : Text,
          keep_alive : BOOLEAN, connect_timeout : Int, socket_timeout : Int]

ASSUME SettingsAssumption == \A s \in Settings : s.key \in Tokens /\ s.val \in Text /\ Spelt(s)
ASSUME WrittenAssumption ==
  \A w \in Written : w.options \in Given /\ w.settings \in Seq(Settings) /\ Writable(w)
ASSUME TextsAssumption == OtherTexts \subseteq Text
ASSUME PoolSizesAssumption == PoolSizes \subseteq Nat
ASSUME PathMaxAssumption == PathMax \in Nat

VARIABLES text,     \* the connection string, <<>> if options are given
          meant,    \* {} or the set of the one thing the text means
          options,  \* connection_options: {} or the set of the one record
          size,     \* the pool's size
          stage,    \* how far it got
          endpoint  \* where the transport connects to

vars == <<text, meant, options, size, stage, endpoint>>

Nowhere == <<"nowhere">>

\* "refused": the caller of add_connection got a connection_error;
\* "swallowed": the exception was thrown inside a transition of the machine.
Stages == {"text", "options", "pool", "connection", "connecting", "refused",
           "swallowed", "done"}

Init ==
  /\ endpoint = Nowhere /\ size \in PoolSizes
  /\ \/ /\ stage = "text" /\ options = {}
        /\ \/ \E w \in Written : text = TextOf(w) /\ meant = {w}
           \/ text \in OtherTexts /\ meant = {}
     \/ /\ stage = "options" /\ text = <<>> /\ meant = {}
        /\ \E o \in GivenOptions : options = {o}

\* The next check passes if ok.
Check(here, ok, next, otherwise) ==
  /\ stage = here
  /\ stage' = IF ok THEN next ELSE otherwise
  /\ UNCHANGED <<text, meant, size>>

\* redis_impl::add_connection with a string.
ParseText ==
  /\ \/ Parse(text) = {} /\ options' = {}
     \/ \E o \in Parse(text) : options' = {o}
  /\ Check("text", options' # {}, "options", "refused")
  /\ UNCHANGED endpoint

\* ... and with options.
AddConnection ==
  /\ \E o \in options :
       Check("options", o.uri # <<>> /\ o.alias # <<>>, "pool", "refused")
  /\ UNCHANGED <<options, endpoint>>

\* connection_pool::impl::impl.
CreatePool ==
  /\ \E o \in options : Check("pool", size > 0 /\ o.uri # <<>>, "connection", "refused")
  /\ UNCHANGED <<options, endpoint>>

\* Seeded fault: what is not unix is tcp.
CreateConnectionAnySchema ==
  /\ Check("connection", TRUE, "connecting", "refused")
  /\ UNCHANGED <<options, endpoint>>

\* basic_connection::create: one transport for each schema.
CreateConnection ==
  /\ \E o \in options :
       Check("connection", o.schema \in {<<"tcp">>, <<"unix">>}, "connecting", "refused")
  /\ UNCHANGED <<options, endpoint>>

\* tcp_transport::connect_async: host:service, and the service may be missing.
TcpEndpoint(uri) ==
  LET colon == Occurs(uri, <<":">>)
  IN  IF colon = {} THEN <<"tcp", uri, <<"6379">>>>
      ELSE <<"tcp", Before(uri, First(colon)), After(uri, First(colon))>>

\* socket_transport::connect_async, with its default path, which nothing reaches:
\* an empty address was refused before.
UnixEndpoint(uri) ==
  <<"unix", IF uri = <<>> THEN <<"/", "tmp", "/", ".s.REDIS.6379">> ELSE uri>>

\* The entry of connecting: connect_transport, and connect_async of the transport
\* that create chose, which looks at schema and address again.  The address of
\* a socket has room for a path of PathMax; a longer one is a system_error.
ConnectTransport ==
  \E o \in options :
    LET unix == o.schema = <<"unix">>
        target == IF unix THEN UnixEndpoint(o.uri) ELSE TcpEndpoint(o.uri)
        ok == /\ o.uri # <<>>
              /\ IF unix THEN ~(Len(target[2]) > PathMax) ELSE o.schema = <<"tcp">>
    IN  /\ Check("connecting", ok, "done", "swallowed")
        /\ endpoint' = IF ok THEN target ELSE Nowhere
        /\ UNCHANGED options

Next ==
  \/ ParseText \/ AddConnection \/ CreatePool \/ CreateConnection \/ ConnectTransport

Spec == Init /\ [][Next]_vars

-----------------------------------------------------------------------------
\* What is meant is lost where the text is ambiguous to split_path: the last
\* part of the path of a socket begins with a number, the database does not, or
\* it does and parameters follow.
Ambiguous(w) ==
  IF w.options.database = <<>> THEN IsDatabase(LastPart(w.options.uri))
  ELSE ~IsDatabase(w.options.database) \/ w.settings # <<>>

\* A text a user writes is taken for what it means, whatever is in its password
\* and in whichever order its settings are, and the connection is told to connect
\* to the address that was meant; an ambiguous one is accepted all the same, and
\* only its address and its database are wrong.  What is not ambiguous is refused
\* by no check, but for a pool without connections.
TakenAsMeant ==
  \A w \in meant : stage # "text" =>
    /\ \E o \in options :
         /\ [o EXCEPT !.uri = <<>>, !.database = <<>>] =
            [w.options EXCEPT !.uri = <<>>, !.database = <<>>]
         /\ ~Ambiguous(w) => o = w.options
    /\ endpoint # Nowhere /\ ~Ambiguous(w) => endpoint = w.endpoint
    /\ size > 0 /\ ~Ambiguous(w) => stage \notin {"refused", "swallowed"}

\* Whatever the text is, an accepted one is its parts put together again, in
\* order, followed by its settings, if the database has not swallowed them:
\* nothing is invented, cut out, or read into two parts.
Lossless ==
  text # <<>> => \A o \in options :
    /\ o.alias # <<>> /\ o.schema # <<>> /\ o.uri # <<>>
    /\ \E auth \in {o.password \o <<"@">>, o.password}, i \in 0..Len(text) :
         /\ o.password # <<>> => auth # o.password
         /\ SubSeq(text, 1, i) =
              o.alias \o <<"=">> \o o.schema \o <<":", "/", "/">> \o auth \o o.uri
              \o (IF o.database = <<>> THEN <<>> ELSE <<"/">> \o o.database)
         /\ i < Len(text) => text[i + 1] = "?"

\* The checks on the way leave one exception to be thrown inside the machine,
\* where it reaches nobody: that of a socket's path that is too long.  Whatever
\* else connecting refuses on entry was refused before there was a connection.
SwallowedOnlyLongPath ==
  stage = "swallowed" =>
    \E o \in options : o.schema = <<"unix">> /\ Len(o.uri) > PathMax /\ endpoint = Nowhere
=============================================================================
