--------------------------- MODULE RespRoundTrip ---------------------------
(***************************************************************************)
(* RespReader on what is known to be in the buffer: replies a server sent, *)
(* possibly cut short, or requests, which are arrays of bulk strings and   *)
(* so can be read back the same way: that is what the server does with     *)
(* what serialize writes.                                                  *)
(***************************************************************************)
EXTENDS RespReader, Serializer

CONSTANTS Values,    \* the replies of a server, and the elements of those
          Encode,    \* what the server writes for each
          Replies,   \* sequences of replies a server may send together
          Requests,  \* sequences of commands, each a sequence of arguments
          Cut        \* whether the last bytes of the replies may be missing

VARIABLES sent,      \* the replies in the buffer, <<>> for any bytes
          complete   \* no byte is missing

\* An error reply.
Error(s) == [type |-> "error", str |-> s]

IsReply(v) ==
  \/ v.type = "int" /\ v.int \in Int /\ v = Number(v.int)
  \/ v.type = "string" /\ v.str \in Seq(Byte) /\ v = Str(v.str)
  \/ v.type = "error" /\ v.str \in Seq(Byte) /\ v = Error(v.str) /\ Found(v.str) = 0
  \/ v.type = "nil" /\ v = Nil
  \/ v.type = "array" /\ v.elements \in Seq(Values) /\ v = Array(v.elements)

EncodeAll(vs) ==
  LET text[n \in 0..Len(vs)] == IF n = 0 THEN <<>> ELSE text[n - 1] \o Encode[vs[n]]
  IN  text[Len(vs)]

\* The ways of a server to write a reply.
Line(mark, text) == <<mark>> \o text \o Terminator
Forms(v) ==
  CASE v.type = "int" -> {Line(":", NumberText(v.int))}
    [] v.type = "error" -> {Line("-", v.str)}
    [] v.type = "string" -> {Line("$", NumberText(Len(v.str))) \o v.str \o Terminator} \cup
                            (IF Found(v.str) = 0 THEN {Line("+", v.str)} ELSE {})
    [] v.type = "nil" -> {Line("$", NumberText(-1)), Line("*", NumberText(-1))}
    [] v.type = "array" -> {Line("*", NumberText(Len(v.elements))) \o EncodeAll(v.elements)}

ASSUME ByteAssumption ==
  {"+", "-", ":", "$", "*", CR, LF, NUL} \cup {Digits[i] : i \in 1..10} \subseteq Byte

ASSUME ServerAssumption ==
  /\ Replies \subseteq Seq(Values)
  /\ Encode \in [Values -> Seq(Byte)]
  /\ \A v \in Values : IsReply(v) /\ Encode[v] \in Forms(v)

\* A command has a name.
ASSUME RequestsAssumption ==
  \A cmds \in Requests : cmds \in Seq(Seq(Seq(Byte)) \ {<<>>})

\* A command as the server sees it.
AsReply(args) == Array([i \in DOMAIN args |-> Str(args[i])])

InitTrip ==
  \/ /\ sent \in Replies
     /\ \E n \in (IF Cut THEN 1..Len(EncodeAll(sent)) ELSE {Len(EncodeAll(sent))}) :
          /\ Received(SubSeq(EncodeAll(sent), 1, n))
          /\ complete = (n = Len(EncodeAll(sent)))
  \/ \E cmds \in Requests :
       /\ sent = [i \in DOMAIN cmds |-> AsReply(cmds[i])]
       /\ complete = TRUE
       /\ Received(SerializeAll(cmds))
  \/ sent = <<>> /\ complete = FALSE /\ Init

ReadOneOfTrip == ReadOne /\ UNCHANGED <<sent, complete>>

SpecTrip == InitTrip /\ [][ReadOneOfTrip]_<<vars, sent, complete>>

-----------------------------------------------------------------------------
\* The replies as the user sees them: the wire does not tell a bulk string from
\* a simple one.
Seen(v) == IF v.type = "error" THEN [tag |-> "error", str |-> v.str]
           ELSE [tag |-> "value", value |-> v]
Reported(p) == IF p.tag = "error" THEN [tag |-> "error", str |-> p.str]
               ELSE IF p.tag = "value" THEN [tag |-> "value", value |-> p.value]
               ELSE p

\* No array with an error inside, of which ErrorConsumesAnswer speaks.
Plain == \A v \in Values : v.type = "array" =>
           \A i \in 1..Len(v.elements) : v.elements[i].type # "error"

\* Every reply of a complete buffer is reported, in order, as what it was; and
\* requests are what they were built of, with nothing left over: serialize fills
\* the buffer it sized, to the last byte and no further.
RoundTrip ==
  complete /\ Plain =>
    /\ Len(parsed) <= Len(sent)
    /\ \A i \in 1..Len(parsed) : Reported(parsed[i]) = Seen(sent[i])
    /\ max_bytes = 0 => Len(parsed) = Len(sent)

\* A reply cut short is recognised as such: the replies before it are reported,
\* and then not_enough_data, whatever byte the cut is at; the last reply, which
\* the cut always reaches, is never reported.  No prefix of a reply is taken for
\* a shorter reply or for a malformed one.
CutIsNotEnough ==
  sent # <<>> /\ ~complete /\ Plain =>
    /\ \A i \in 1..(Len(parsed) - 1) : Reported(parsed[i]) = Seen(sent[i])
    /\ parsed # <<>> =>
         \/ parsed[Len(parsed)] = ProtocolError("not_enough_data") /\ max_bytes = 0
         \/ Len(parsed) < Len(sent) /\ Reported(parsed[Len(parsed)]) = Seen(sent[Len(parsed)])

\* test_parser.cpp:98: the `consumed' of an error reply is the size of the
\* answer, so that the next reply starts where it ends.
ErrorConsumesAnswer ==
  parsed # <<>> /\ parsed[Len(parsed)].tag = "error" /\ complete =>
    incoming = EncodeAll(From(sent, Len(parsed) + 1))
=============================================================================
