----------------------------- MODULE RespParser -----------------------------
(***************************************************************************)
(* raw_parse: what the library makes of the bytes of a reply.  A byte is a *)
(* one-character string, a buffer a sequence of bytes; the iterator pair   *)
(* from, to of the code is the sequence from the iterator to the end of    *)
(* the buffer.                                                             *)
(***************************************************************************)
EXTENDS Integers, Sequences

CONSTANT Byte \* the bytes

CR == "\r"
LF == "\n"
Terminator == <<CR, LF>>

\* parse_result_t: a value, an error reply, a protocol error.
Positive(v, n) == [tag |-> "value", value |-> v, consumed |-> n]
ErrorReply(s, n) == [tag |-> "error", str |-> s, consumed |-> n]
ProtocolError(code) == [tag |-> "protocol", code |-> code]

IsPositive(p) == p.tag = "value"

\* result_t.
Number(i) == [type |-> "int", int |-> i]
Str(s) == [type |-> "string", str |-> s]
Nil == [type |-> "nil"]
Array(vs) == [type |-> "array", elements |-> vs]

Digits == <<"0", "1", "2", "3", "4", "5", "6", "7", "8", "9">>
DigitValue(d) == (CHOOSE i \in 1..10 : Digits[i] = d) - 1
IsDigit(d) == \E i \in 1..10 : Digits[i] = d

\* value[i] is that of the first i digits.
DecimalValue(s) ==
  LET value[i \in 0..Len(s)] == IF i = 0 THEN 0 ELSE 10 * value[i - 1] + DigitValue(s[i])
  IN  value[Len(s)]

\* What boost::lexical_cast<int64_t> accepts: an optional sign and digits.
Unsigned(s) == IF s # <<>> /\ s[1] \in {"-", "+"} THEN Tail(s) ELSE s
IsNumber(s) == Unsigned(s) # <<>> /\ \A i \in 1..Len(Unsigned(s)) : IsDigit(Unsigned(s)[i])
ToNumber(s) == IF s[1] = "-" THEN 0 - DecimalValue(Tail(s)) ELSE DecimalValue(Unsigned(s))

From(s, k) == SubSeq(s, k, Len(s))

\* Seeded fault: the terminator is looked for by its first byte.
FoundCR(s) ==
  LET at == {i \in 1..Len(s) : s[i] = CR}
  IN  IF at = {} THEN 0 ELSE CHOOSE i \in at : \A j \in at : i <= j

\* Where the first terminator begins; 0 if there is none.
Found(s) ==
  LET at == {i \in 1..(Len(s) - 1) : s[i] = CR /\ s[i + 1] = LF}
  IN  IF at = {} THEN 0 ELSE CHOOSE i \in at : \A j \in at : i <= j

\* The parsers get the bytes after the introduction, and how many bytes were
\* consumed before them.
StringParser(s, before) ==
  LET i == Found(s)
  IN  IF i = 0 THEN ProtocolError("not_enough_data")
      ELSE Positive(Str(SubSeq(s, 1, i - 1)), i + 1 + before)

ErrorParser(s, before) ==
  LET p == StringParser(s, before)
  IN  IF IsPositive(p) THEN ErrorReply(p.value.str, p.consumed) ELSE p

IntParser(s, before) ==
  LET p == StringParser(s, before)
  IN  IF ~IsPositive(p) THEN p
      ELSE IF IsNumber(p.value.str) THEN Positive(Number(ToNumber(p.value.str)), p.consumed)
      ELSE ProtocolError("count_conversion")

\* The count that introduces a bulk string or an array: a size, or nil for -1.
Counted(s, before) ==
  LET p == IntParser(s, before)
  IN  IF ~IsPositive(p) THEN p
      ELSE IF p.value.int = -1 THEN Positive(Nil, p.consumed)
      ELSE IF p.value.int < -1 THEN ProtocolError("count_range")
      ELSE p

IsSize(p) == IsPositive(p) /\ p.value # Nil

\* Seeded fault: the terminator of the payload is not waited for.
BulkBodyEarly(s, before, p) ==
  LET body == From(s, p.consumed - before + 1)
  IN  IF Len(body) < p.value.int THEN ProtocolError("not_enough_data")
      ELSE Positive(Str(SubSeq(body, 1, p.value.int)), p.consumed + p.value.int + 2)

BulkBody(s, before, p) ==
  LET count == p.value.int
      body  == From(s, p.consumed - before + 1)
  IN  IF Len(body) < count + 2 THEN ProtocolError("not_enough_data")
      ELSE IF SubSeq(body, count + 1, count + 2) # Terminator
        THEN ProtocolError("bulk_terminator")
      ELSE Positive(Str(SubSeq(body, 1, count)), p.consumed + count + 2)

\* Seeded fault: the payload ends at the first terminator, not after its count.
BulkByTerminator(s, before) ==
  LET p == Counted(s, before)
  IN  IF IsSize(p) THEN StringParser(From(s, p.consumed - before + 1), p.consumed) ELSE p

BulkStringParser(s, before) ==
  LET p == Counted(s, before)
  IN  IF IsSize(p) THEN BulkBody(s, before, p) ELSE p

\* The loop of array_parser_t; parsed[n] is the array after n elements, each of
\* which raw_parse made of the bytes behind those consumed before.  Anything but a
\* value is returned as it is, with the number of bytes it was parsed from.
Elements(count, s, before, consumed, raw_parse) ==
  LET parsed[n \in 0..count] ==
        IF n = 0 THEN Positive(Array(<<>>), consumed)
        ELSE LET a == parsed[n - 1]
                 e == raw_parse[From(s, a.consumed - before + 1)]
             IN  IF ~IsPositive(a) THEN a
                 ELSE IF ~IsPositive(e) THEN e
                 ELSE Positive(Array(Append(a.value.elements, e.value)),
                               a.consumed + e.consumed)
  IN  parsed[count]

ArrayParser(s, before, raw_parse) ==
  LET p == Counted(s, before)
  IN  IF IsSize(p) THEN Elements(p.value.int, s, before, p.consumed, raw_parse) ELSE p

\* construct_primary_parser_t and unwrap_primary_parser_t: the parser that the
\* first byte asks for, on the others.
PrimaryParser(b, raw_parse) ==
  LET s == Tail(b) IN
  CASE b[1] = "+" -> StringParser(s, 1)
    [] b[1] = "-" -> ErrorParser(s, 1)
    [] b[1] = ":" -> IntParser(s, 1)
    [] b[1] = "$" -> BulkStringParser(s, 1)
    [] b[1] = "*" -> ArrayParser(s, 1, raw_parse)
    [] OTHER -> ProtocolError("wrong_introduction")

\* raw_parse[n] is raw_parse on up to n bytes: the elements of an array have
\* fewer than the array.
RawParse(b) ==
  LET raw_parse[n \in 0..Len(b)] ==
        [s \in Seq(Byte) |-> IF n = 0 \/ s = <<>> THEN ProtocolError("not_enough_data")
                             ELSE PrimaryParser(s, raw_parse[n - 1])]
  IN  raw_parse[Len(b)][b]
=============================================================================
