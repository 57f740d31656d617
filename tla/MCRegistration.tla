--------------------------- MODULE MCRegistration ---------------------------
(* Registration on a grammar of connection strings and on all short ones.  *)
EXTENDS Registration, TLC

MCNumbers == "1" :> 1 @@ "50" :> 50 @@ "6379" :> 6379 @@ "90000" :> 90000
MCTruth == "true" :> TRUE @@ "TRUE" :> TRUE @@ "false" :> FALSE

\* Addresses, with the endpoint each means.
Tcp == {[schema |-> <<"tcp">>, uri |-> <<"host">>,
         endpoint |-> <<"tcp", <<"host">>, <<"6379">>>>],
        [schema |-> <<"tcp">>, uri |-> <<"host", ":", "50">>,
         endpoint |-> <<"tcp", <<"host">>, <<"50">>>>]}
Paths == {<<"/", "tmp", "/", "socket">>, <<"/", "tmp", "/", "6379", ".socket">>,
          <<"/", "tmp", "/", "90000">>}
Addresses == Tcp \cup {[schema |-> <<"unix">>, uri |-> p, endpoint |-> <<"unix", p>>] : p \in Paths}

Databases == {<<>>, <<"1">>, <<"-", "1">>, <<"90000">>, <<"database">>}
Passwords == {<<>>, <<"password">>, <<"user", ":", "password">>,
              <<"a", "=", "b", "/", "1", "?">>, <<":", "/", "/">>}

Setting(key, val, value) == [key |-> key, val |-> val, value |-> value]
MCSettings ==
  {Setting("keep_alive", <<"TRUE">>, TRUE), Setting("keep_alive", <<"false">>, FALSE),
   Setting("connect_timeout", <<"50", "ms">>, 50),
   Setting("connect_timeout", <<"1", "m">>, 60000),
   Setting("socket_timeout", <<"50", "s">>, 50000),
   Setting("socket_timeout", <<"-", "1", "ms">>, -1)}
SettingLists == {<<>>} \cup {<<s>> : s \in MCSettings} \cup {<<s, t>> : s, t \in MCSettings}

Options(a, db, pw, ss) ==
  [alias |-> <<"main">>, schema |-> a.schema, uri |-> a.uri, database |-> db,
   password |-> pw, keep_alive |-> Value(ss, "keep_alive", FALSE),
   connect_timeout |-> Value(ss, "connect_timeout", 0),
   socket_timeout |-> Value(ss, "socket_timeout", 0)]

MCTokens ==
  Separators \cup DOMAIN MCNumbers \cup DOMAIN MCTruth \cup DOMAIN Times
    \cup {s.key : s \in MCSettings}
    \cup {"main", "tcp", "unix", "host", "tmp", "socket", ".socket", "database",
          "password", "user", "a", "b"}

MCWritten ==
  {[options |-> Options(a, db, pw, ss), endpoint |-> a.endpoint, settings |-> ss] :
     a \in Addresses, db \in Databases, pw \in Passwords, ss \in SettingLists}

\* All texts of up to 5 tokens, and of up to 4 after "a=tcp://", with and without
\* settings behind them.
Alphabet == {"=", ":", "/", "@", "?", "&", "a", "1"}
Spaced(s) == \A i \in 1..(Len(s) - 1) : ~(s[i] = "1" /\ s[i + 1] = "1")
MCOtherTexts ==
  {s \in {<<"a", "=", "tcp", ":", "/", "/">> \o t \o z :
            t \in UNION {[1..n -> Alphabet] : n \in 0..4},
            z \in {<<>>, <<"?", "keep_alive", "=", "true">>}}
         \cup UNION {[1..n -> Alphabet] : n \in 1..5} : Spaced(s)}

MCGivenOptions ==
  [alias : {<<>>, <<"main">>}, schema : {<<>>, <<"tcp">>, <<"unix">>, <<"udp">>},
   uri : {<<>>, <<"host">>, <<"host", ":", "50">>, <<"/", "a", "/", "b", "/", "c", "/">>}, database : {<<>>}, password : {<<>>},
   keep_alive : {FALSE}, connect_timeout : {0}, socket_timeout : {0}]
=============================================================================
