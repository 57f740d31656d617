---------------------------- MODULE MCRespReader ----------------------------
(* RespReader and RespRoundTrip on small replies and short buffers.        *)
EXTENDS RespRoundTrip, Commands
LOCAL INSTANCE SequencesExt

\* Any string is a byte: the names of commands are.
MCByte == STRING

Simple == {Number(0), Number(-12), Str(<<>>), Str(<<CR, LF>>), Str(<<"$", "1">>), Nil}
Arrays == {Array(<<>>)} \cup {Array(<<v>>) : v \in Simple} \cup
          {Array(<<v, w>>) : v, w \in Simple} \cup
          {Array(<<v, Array(<<w>>)>>) : v, w \in Simple}
Top == Simple \cup Arrays \cup {Error(<<"E">>), Error(<<>>)}

\* One reply or two.
MCReplies == {<<v>> : v \in Top} \cup {<<v, w>> : v \in Top, w \in Simple \cup {Error(<<"E">>)}}

\* Arrays with an error inside, and a reply after them.
Nested == {Array(<<v, Error(<<"E">>)>>) : v \in Simple}
MCNested == {<<v, Number(7)>> : v \in Nested}
NestedValues == Nested \cup Simple \cup {Error(<<"E">>), Number(7)}

\* A string that looks like a header is written as a simple one.
RECURSIVE Written(_)
Written(v) ==
  CASE v.type = "int" -> Line(":", NumberText(v.int))
    [] v.type = "error" -> Line("-", v.str)
    [] v = Str(<<"$", "1">>) -> Line("+", v.str)
    [] v.type = "string" /\ v # Str(<<"$", "1">>) ->
         Line("$", NumberText(Len(v.str))) \o v.str \o Terminator
    [] v.type = "nil" -> Line("$", NumberText(-1))
    [] v.type = "array" -> Line("*", NumberText(Len(v.elements)))
                             \o FlattenSeq([i \in DOMAIN v.elements |-> Written(v.elements[i])])

MCEncode == [v \in Top |-> Written(v)]
NestedEncode == [v \in NestedValues |-> Written(v)]

\* Any bytes, up to length 5, and the arrays with an error inside.
Bytes == {"+", "-", ":", "$", "*", "0", "1", CR, LF}
MCBuffers == UNION {[1..n -> Bytes] : n \in 1..5} \cup
             {Written(v) \o Written(Number(7)) : v \in Nested}

\* Every command on keys, values and lists of at most two elements, among them
\* an empty one, one that looks like a header and one with a two-digit length;
\* alone and after another one.
Texts == {<<>>, <<"k">>, <<"$", "0", CR, LF>>, [i \in 1..12 |-> "x"]}
TextLists == UNION {[1..n -> Texts] : n \in 0..2}
KeyValues == {<<>>} \cup {<<<<k, v>>, <<k, k>>>> : k, v \in Texts}
Built ==
  Connection(Texts)
  \cup UNION {Set(k, v, type, ttl) : k, v \in Texts, ttl \in {0, 100},
                                     type \in {"exist", "not_exist", "always"}}
  \cup UNION {Keys(k, <<"n">>, ks, kvs, 60) : k \in Texts, ks \in TextLists, kvs \in KeyValues}
  \cup UNION {Hashes(k, fs, kvs) : k \in Texts, fs \in TextLists, kvs \in KeyValues}
  \cup UNION {Lists(k, es, 0, -1) : k \in Texts, es \in TextLists}
  \cup UNION {Sets(k, ms, n) : k \in Texts, ms \in TextLists, n \in {0, 3}}
MCRequests == {<<c>> : c \in Built} \cup {<<c, <<<<"PING">>>>>> : c \in Built}

None == {}
=============================================================================
