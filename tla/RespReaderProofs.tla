-------------------------- MODULE RespReaderProofs --------------------------
(***************************************************************************)
(* What raw_parse consumes, for any bytes and any nesting of arrays, and   *)
(* why the loop of read_message therefore ends.                            *)
(***************************************************************************)
EXTENDS RespReader, SetInduction

-----------------------------------------------------------------------------
(* The parsers of one reply.                                               *)

\* A result that consumed at least one byte of the n there were, and no more.
Fits(p, n) ==
  /\ p.tag \in {"value", "error", "protocol"}
  /\ p.tag # "protocol" => p.consumed \in 1..n

\* What follows the first bytes of a buffer is a buffer.
LEMMA FromType ==
  ASSUME NEW s \in Seq(Byte), NEW k \in 1..(Len(s) + 1)
  PROVE  From(s, k) \in Seq(Byte) /\ Len(From(s, k)) = Len(s) + 1 - k
<1>1. Len(s) \in Nat
  OBVIOUS
<1>2. CASE k = Len(s) + 1
  BY <1>1, <1>2, SubSeqProperties DEF From
<1>3. CASE k # Len(s) + 1
  <2>1. k \in 1..Len(s) /\ Len(s) \in 1..Len(s)
    BY <1>1, <1>3
  <2> QED
    BY <2>1, SubSeqProperties DEF From
<1> QED
  BY <1>2, <1>3

\* A terminator has two bytes.
LEMMA FoundIs ==
  ASSUME NEW s \in Seq(Byte)
  PROVE  Found(s) = 0 \/ Found(s) \in 1..(Len(s) - 1)
<1>1. PICK at : at = {i \in 1..(Len(s) - 1) : s[i] = CR /\ s[i + 1] = LF}
  OBVIOUS
<1>2. CASE at = {}
  BY <1>1, <1>2 DEF Found
<1>3. CASE at # {}
  <2>1. at \subseteq Nat
    BY <1>1
  <2>2. \E i \in at : \A j \in at : i <= j
    BY <1>3, <2>1, Least
  <2>3. Found(s) \in at
    BY <1>1, <1>3, <2>2 DEF Found
  <2> QED
    BY <1>1, <2>3
<1> QED
  BY <1>2, <1>3

\* A string takes its terminator, too.
LEMMA StringFits ==
  ASSUME NEW s \in Seq(Byte), NEW before \in Nat
  PROVE  LET p == StringParser(s, before)
         IN  \/ p.tag = "protocol"
             \/ p.tag = "value" /\ p.consumed \in (before + 2)..(Len(s) + before)
<1>1. Len(s) \in Nat
  OBVIOUS
<1>2. CASE Found(s) = 0
  BY <1>2 DEF StringParser, ProtocolError
<1>3. CASE Found(s) # 0
  <2>1. Found(s) \in 1..(Len(s) - 1)
    BY <1>3, FoundIs
  <2>2. Found(s) + 1 + before \in (before + 2)..(Len(s) + before)
    BY <1>1, <2>1
  <2> QED
    BY <1>3, <2>2 DEF StringParser, Positive
<1> QED
  BY <1>2, <1>3

\* ... and so does an error.
LEMMA ErrorFits ==
  ASSUME NEW s \in Seq(Byte), NEW before \in Nat
  PROVE  LET p == ErrorParser(s, before)
         IN  \/ p.tag = "protocol"
             \/ p.tag = "error" /\ p.consumed \in (before + 2)..(Len(s) + before)
BY StringFits DEF ErrorParser, ErrorReply, IsPositive

-----------------------------------------------------------------------------
(* Loops: each function that a recursive definition asks for exists, so   *)
(* that its equation may be used.                                          *)

\* DecimalValue, digit by digit.
LEMMA DecimalDef ==
  ASSUME NEW s, Len(s) \in Nat
  PROVE  \E value : /\ DecimalValue(s) = value[Len(s)] /\ value[0] = 0
                    /\ \A k \in 1..Len(s) : value[k] = 10 * value[k - 1] + DigitValue(s[k])
<1>1. PICK n \in Nat : n = Len(s)
  OBVIOUS
<1> DEFINE Start == 0
           St(v, i) == 10 * v + DigitValue(s[i])
           Eq(f, k) == f = [i \in 0..k |-> IF i = 0 THEN Start ELSE St(f[i - 1], i)]
           S == {k \in 0..n : \E f : Eq(f, k)}
<1> HIDE DEF Start, St
<1>2. 0 \in S
  <2>1. Eq([i \in 0..0 |-> Start], 0)
    OBVIOUS
  <2>2. 0 \in 0..n
    OBVIOUS
  <2> QED
    BY <2>1, <2>2
<1>3. ASSUME NEW k \in 1..n, k - 1 \in S PROVE k \in S
  <2>1. PICK f : Eq(f, k - 1)
    BY <1>3
  <2> DEFINE g == [i \in 0..k |-> IF i < k THEN f[i] ELSE St(f[k - 1], k)]
  <2>2. ASSUME NEW i \in 0..k PROVE g[i] = IF i = 0 THEN Start ELSE St(g[i - 1], i)
    <3>1. CASE i = 0
      BY <2>1, <3>1
    <3>2. CASE i \in 1..(k - 1)
      <4>1. f[i] = St(f[i - 1], i)
        BY <2>1, <3>2
      <4>2. g[i] = f[i] /\ g[i - 1] = f[i - 1]
        BY <3>2
      <4> QED
        BY <3>2, <4>1, <4>2
    <3>3. CASE i = k
      <4>1. g[k] = St(f[k - 1], k) /\ g[k - 1] = f[k - 1]
        OBVIOUS
      <4> QED
        BY <3>3, <4>1
    <3> QED
      BY <3>1, <3>2, <3>3
  <2>3. Eq(g, k)
    BY <2>2
  <2> HIDE DEF Eq
  <2> QED
    BY <2>3
<1> HIDE DEF S
<1>4. \A k \in 0..n : k \in S
  BY <1>2, <1>3, BoundedInduction
<1>5. PICK value : /\ value = CHOOSE f : Eq(f, n)
                 /\ Eq(value, n)
  <2>1. \E f : Eq(f, n)
    <3>1. n \in 0..n
      OBVIOUS
    <3> HIDE DEF Eq
    <3> QED
      BY <1>4, <3>1 DEF S
  <2> HIDE DEF Eq
  <2> QED
    BY <2>1
<1>6. DecimalValue(s) = value[n]
  BY <1>1, <1>5 DEF DecimalValue, Start, St
<1>7. value[0] = Start /\ \A k \in 1..n : value[k] = St(value[k - 1], k)
  <2>1. \A k \in 0..n : value[k] = IF k = 0 THEN Start ELSE St(value[k - 1], k)
    BY <1>5
  <2>2. 0 \in 0..n /\ \A k \in 1..n : k \in 0..n /\ k # 0
    OBVIOUS
  <2> HIDE DEF Eq
  <2> QED
    BY <2>1, <2>2
<1> HIDE DEF Eq
<1> QED
  BY <1>1, <1>6, <1>7 DEF Start, St

\* Elements, one element after the other.
NextElement(a, s, before, P) ==
  LET e == P[From(s, a.consumed - before + 1)]
  IN  IF ~IsPositive(a) THEN a
      ELSE IF ~IsPositive(e) THEN e
      ELSE Positive(Array(Append(a.value.elements, e.value)), a.consumed + e.consumed)

\* Elements, one element after the other.
Filling(arrays, n, s, before, consumed, P) ==
  /\ Elements(n, s, before, consumed, P) = arrays[n]
  /\ arrays[0] = Positive(Array(<<>>), consumed)
  /\ \A k \in 1..n : arrays[k] = NextElement(arrays[k - 1], s, before, P)

\* Such arrays there are.
LEMMA ElementsDef ==
  ASSUME NEW n \in Nat, NEW s, NEW before, NEW consumed, NEW P
  PROVE  \E arrays : Filling(arrays, n, s, before, consumed, P)
<1>1. n \in Nat
  OBVIOUS
<1> DEFINE Start == Positive(Array(<<>>), consumed)
           St(a, i) == NextElement(a, s, before, P)
           Eq(f, k) == f = [i \in 0..k |-> IF i = 0 THEN Start ELSE St(f[i - 1], i)]
           S == {k \in 0..n : \E f : Eq(f, k)}
<1> HIDE DEF Start, St
<1>2. 0 \in S
  <2>1. Eq([i \in 0..0 |-> Start], 0)
    OBVIOUS
  <2>2. 0 \in 0..n
    OBVIOUS
  <2> QED
    BY <2>1, <2>2
<1>3. ASSUME NEW k \in 1..n, k - 1 \in S PROVE k \in S
  <2>1. PICK f : Eq(f, k - 1)
    BY <1>3
  <2> DEFINE g == [i \in 0..k |-> IF i < k THEN f[i] ELSE St(f[k - 1], k)]
  <2>2. ASSUME NEW i \in 0..k PROVE g[i] = IF i = 0 THEN Start ELSE St(g[i - 1], i)
    <3>1. CASE i = 0
      BY <2>1, <3>1
    <3>2. CASE i \in 1..(k - 1)
      <4>1. f[i] = St(f[i - 1], i)
        BY <2>1, <3>2
      <4>2. g[i] = f[i] /\ g[i - 1] = f[i - 1]
        BY <3>2
      <4> QED
        BY <3>2, <4>1, <4>2
    <3>3. CASE i = k
      <4>1. g[k] = St(f[k - 1], k) /\ g[k - 1] = f[k - 1]
        OBVIOUS
      <4> QED
        BY <3>3, <4>1
    <3> QED
      BY <3>1, <3>2, <3>3
  <2>3. Eq(g, k)
    BY <2>2
  <2> HIDE DEF Eq
  <2> QED
    BY <2>3
<1> HIDE DEF S
<1>4. \A k \in 0..n : k \in S
  BY <1>2, <1>3, BoundedInduction
<1>5. PICK arrays : /\ arrays = CHOOSE f : Eq(f, n)
                  /\ Eq(arrays, n)
  <2>1. \E f : Eq(f, n)
    <3>1. n \in 0..n
      OBVIOUS
    <3> HIDE DEF Eq
    <3> QED
      BY <1>4, <3>1 DEF S
  <2> HIDE DEF Eq
  <2> QED
    BY <2>1
<1>6. Elements(n, s, before, consumed, P) = arrays[n]
  BY <1>1, <1>5 DEF Elements, NextElement, Start, St
<1>7. arrays[0] = Start /\ \A k \in 1..n : arrays[k] = St(arrays[k - 1], k)
  <2>1. \A k \in 0..n : arrays[k] = IF k = 0 THEN Start ELSE St(arrays[k - 1], k)
    BY <1>5
  <2>2. 0 \in 0..n /\ \A k \in 1..n : k \in 0..n /\ k # 0
    OBVIOUS
  <2> HIDE DEF Eq
  <2> QED
    BY <2>1, <2>2
<1> HIDE DEF Eq
<1> QED
  BY <1>6, <1>7 DEF Start, St, Filling

-----------------------------------------------------------------------------
(* Numbers and bulk strings take no more than there is.                    *)

\* A number is a number.
LEMMA DecimalType ==
  ASSUME NEW s, Len(s) \in Nat, \A i \in 1..Len(s) : IsDigit(s[i])
  PROVE  DecimalValue(s) \in Nat
<1>1. PICK n \in Nat : n = Len(s)
  OBVIOUS
<1>2. \A i \in 1..n : DigitValue(s[i]) \in Nat
  <2>1. ASSUME NEW i \in 1..n PROVE DigitValue(s[i]) \in Nat
    <3>1. \E j \in 1..10 : Digits[j] = s[i]
      BY <1>1 DEF IsDigit
    <3>2. PICK j \in 1..10 : j = CHOOSE k \in 1..10 : Digits[k] = s[i]
      BY <3>1
    <3>3. DigitValue(s[i]) = j - 1
      BY <3>2 DEF DigitValue
    <3> QED
      BY <3>3
  <2> QED
    BY <2>1
<1>3. PICK value : /\ DecimalValue(s) = value[n] /\ value[0] = 0
                   /\ \A k \in 1..n : value[k] = 10 * value[k - 1] + DigitValue(s[k])
  BY <1>1, DecimalDef
<1> DEFINE N == {k \in 0..n : value[k] \in Nat}
<1>4. 0 \in N
  <2>1. 0 \in 0..n
    OBVIOUS
  <2> QED
    BY <1>3, <2>1
<1>5. ASSUME NEW k \in 1..n, k - 1 \in N PROVE k \in N
  <2>1. value[k] = 10 * value[k - 1] + DigitValue(s[k])
    BY <1>3
  <2>2. value[k - 1] \in Nat /\ DigitValue(s[k]) \in Nat
    BY <1>2, <1>5
  <2> QED
    BY <2>1, <2>2
<1> HIDE DEF N
<1>6. \A k \in 0..n : k \in N
  BY <1>4, <1>5, BoundedInduction
<1>7. n \in 0..n
  OBVIOUS
<1> QED
  BY <1>3, <1>6, <1>7 DEF N

\* ... with a sign or without.
LEMMA NumberType ==
  ASSUME NEW s \in Seq(Byte), IsNumber(s)
  PROVE  ToNumber(s) \in Int
<1>1. PICK u : u = Unsigned(s)
  OBVIOUS
<1>2. u \in Seq(Byte) /\ (s[1] = "-" => u = Tail(s))
  BY <1>1 DEF Unsigned, IsNumber
<1>3. Len(u) \in Nat
  BY <1>2, LenProperties
<1>4. DecimalValue(u) \in Nat
  BY <1>1, <1>3, DecimalType DEF IsNumber
<1>5. 0 - DecimalValue(u) \in Int
  BY <1>4
<1>6. CASE s[1] = "-"
  BY <1>2, <1>5, <1>6 DEF ToNumber
<1>7. CASE s[1] # "-"
  <2>1. DecimalValue(u) \in Int
    BY <1>4
  <2> QED
    BY <1>1, <1>7, <2>1 DEF ToNumber
<1> QED
  BY <1>6, <1>7

\* A number takes its terminator, too.
LEMMA IntFits ==
  ASSUME NEW s \in Seq(Byte), NEW before \in Nat
  PROVE  LET p == IntParser(s, before)
         IN  \/ p.tag = "protocol"
             \/ /\ p.tag = "value" /\ p.consumed \in (before + 2)..(Len(s) + before)
                /\ \E i \in Int : p.value = Number(i)
<1>1. PICK p : p = StringParser(s, before)
  OBVIOUS
<1>2. \/ p.tag = "protocol"
      \/ p.tag = "value" /\ p.consumed \in (before + 2)..(Len(s) + before)
  BY <1>1, StringFits
<1>3. CASE p.tag = "protocol"
  BY <1>1, <1>3 DEF IntParser, IsPositive
<1>4. CASE p.tag = "value" /\ ~IsNumber(p.value.str)
  BY <1>1, <1>4 DEF IntParser, IsPositive, ProtocolError
<1>5. CASE p.tag = "value" /\ IsNumber(p.value.str)
  <2>1. p.value.str \in Seq(Byte)
    <3>1. Found(s) # 0
      BY <1>1, <1>5 DEF StringParser, ProtocolError
    <3>2. Found(s) \in 1..(Len(s) - 1) /\ Len(s) \in Nat
      BY <3>1, FoundIs
    <3>3. p.value.str = SubSeq(s, 1, Found(s) - 1)
      BY <1>1, <3>1 DEF StringParser, Positive, Str
    <3>4. \A i \in 1..(Found(s) - 1) : s[i] \in Byte
      BY <3>2
    <3> QED
      BY <3>2, <3>3, <3>4, SubSeqProperties
  <2>2. ToNumber(p.value.str) \in Int
    BY <1>5, <2>1, NumberType
  <2>3. IntParser(s, before) = Positive(Number(ToNumber(p.value.str)), p.consumed)
    BY <1>1, <1>5 DEF IntParser, IsPositive
  <2> QED
    BY <1>2, <1>5, <2>2, <2>3 DEF Positive
<1> QED
  BY <1>2, <1>3, <1>4, <1>5

\* A count is nil or a size.
LEMMA CountedFits ==
  ASSUME NEW s \in Seq(Byte), NEW before \in Nat
  PROVE  LET p == Counted(s, before)
         IN  \/ p.tag = "protocol"
             \/ /\ p.tag = "value" /\ p.consumed \in (before + 2)..(Len(s) + before)
                /\ IsSize(p) => p.value.int \in Nat
<1>1. PICK p : p = IntParser(s, before)
  OBVIOUS
<1>2. CASE p.tag = "protocol"
  BY <1>1, <1>2 DEF Counted, IsPositive
<1>3. ASSUME NEW i \in Int, p.tag = "value", p.consumed \in (before + 2)..(Len(s) + before),
             p.value = Number(i)
      PROVE  LET q == Counted(s, before)
             IN  \/ q.tag = "protocol"
                 \/ /\ q.tag = "value" /\ q.consumed \in (before + 2)..(Len(s) + before)
                    /\ IsSize(q) => q.value.int \in Nat
  <2>1. p.value.int = i
    BY <1>3 DEF Number
  <2>2. CASE i = -1
    <3>1. Counted(s, before) = Positive(Nil, p.consumed)
      BY <1>1, <1>3, <2>1, <2>2 DEF Counted, IsPositive
    <3>2. ~IsSize(Positive(Nil, p.consumed))
      BY DEF IsSize, Positive
    <3> QED
      BY <1>3, <3>1, <3>2 DEF Positive
  <2>3. CASE i < -1
    <3>1. Counted(s, before) = ProtocolError("count_range")
      BY <1>1, <1>3, <2>1, <2>3 DEF Counted, IsPositive
    <3> QED
      BY <3>1 DEF ProtocolError
  <2>4. CASE i \in Nat
    <3>1. Counted(s, before) = p
      BY <1>1, <1>3, <2>1, <2>4 DEF Counted, IsPositive
    <3> QED
      BY <1>3, <2>1, <2>4, <3>1
  <2> QED
    BY <2>2, <2>3, <2>4
<1> QED
  BY <1>1, <1>2, <1>3, IntFits

\* A bulk string takes its payload and a terminator, which are there.
LEMMA BulkFits ==
  ASSUME NEW s \in Seq(Byte), NEW before \in Nat
  PROVE  LET p == BulkStringParser(s, before)
         IN  \/ p.tag = "protocol"
             \/ p.tag = "value" /\ p.consumed \in (before + 2)..(Len(s) + before)
<1>1. PICK p : p = Counted(s, before)
  OBVIOUS
<1>2. \/ p.tag = "protocol"
      \/ /\ p.tag = "value" /\ p.consumed \in (before + 2)..(Len(s) + before)
         /\ IsSize(p) => p.value.int \in Nat
  BY <1>1, CountedFits
<1>3. CASE ~IsSize(p)
  BY <1>1, <1>2, <1>3 DEF BulkStringParser
<1>4. CASE IsSize(p)
  <2>1. BulkStringParser(s, before) = BulkBody(s, before, p)
    BY <1>1, <1>4 DEF BulkStringParser
  <2>2. p.tag = "value" /\ p.consumed \in (before + 2)..(Len(s) + before) /\ p.value.int \in Nat
    BY <1>2, <1>4 DEF IsSize, IsPositive
  <2>3. PICK count \in Nat, consumed \in (before + 2)..(Len(s) + before), n \in Nat :
          count = p.value.int /\ consumed = p.consumed /\ n = Len(s)
    BY <2>2, LenProperties
  <2>4. PICK body : body = From(s, consumed - before + 1)
    OBVIOUS
  <2>5. Len(body) = n + 1 - (consumed - before + 1)
    <3>1. consumed - before + 1 \in 1..(Len(s) + 1)
      BY <2>3
    <3> QED
      BY <2>3, <2>4, <3>1, FromType
  <2>6. BulkBody(s, before, p) =
          IF Len(body) < count + 2 THEN ProtocolError("not_enough_data")
          ELSE IF SubSeq(body, count + 1, count + 2) # Terminator
            THEN ProtocolError("bulk_terminator")
          ELSE Positive(Str(SubSeq(body, 1, count)), consumed + count + 2)
    BY <2>3, <2>4, Zenon DEF BulkBody
  <2>7. \/ \E code : BulkBody(s, before, p) = ProtocolError(code)
        \/ /\ ~(Len(body) < count + 2)
           /\ \E v : BulkBody(s, before, p) = Positive(v, consumed + count + 2)
    BY <2>6, Zenon
  <2>8. ASSUME ~(Len(body) < count + 2)
        PROVE  consumed + count + 2 \in (before + 2)..(n + before)
    <3>1. consumed \in Nat /\ consumed >= before + 2 /\ count \in Nat /\ n \in Nat
      BY <2>3
    <3>2. ~(n + 1 - (consumed - before + 1) < count + 2)
      BY <2>5, <2>8
    <3> QED
      BY <3>1, <3>2
  <2> QED
    BY <2>1, <2>3, <2>7, <2>8 DEF ProtocolError, Positive
<1> QED
  BY <1>3, <1>4

-----------------------------------------------------------------------------
(* Arrays, and raw_parse.                                                  *)

\* An array after which the buffer goes on, or what an element was parsed to.
Within(a, before, n) == Fits(a, n + before) /\ (a.tag = "value" => a.consumed >= before)

\* If raw_parse takes no more than there is for an element, there is as much for
\* the next one ...
LEMMA NextElementFits ==
  ASSUME NEW s \in Seq(Byte), NEW before \in Nat, NEW P, \A t \in Seq(Byte) : Fits(P[t], Len(t)),
         NEW a, Within(a, before, Len(s))
  PROVE  Within(NextElement(a, s, before, P), before, Len(s))
<1>1. PICK n \in Nat : n = Len(s)
  BY LenProperties
<1>2. CASE ~IsPositive(a)
  BY <1>2 DEF NextElement
<1>3. CASE IsPositive(a)
  <2>1. PICK c \in before..(n + before) : c = a.consumed
    BY <1>1, <1>3 DEF Within, Fits, IsPositive
  <2>2. c - before + 1 \in 1..(n + 1)
    BY <2>1
  <2>3. PICK rest \in Seq(Byte) :
          rest = From(s, c - before + 1) /\ Len(rest) = n + 1 - (c - before + 1)
    BY <1>1, <2>2, FromType
  <2>4. PICK e : e = P[rest] /\ Fits(e, Len(rest))
    OBVIOUS
  <2>5. CASE ~IsPositive(e)
    <3>1. NextElement(a, s, before, P) = e
      BY <1>3, <2>1, <2>3, <2>4, <2>5 DEF NextElement
    <3>2. e.tag # "value"
      BY <2>5 DEF IsPositive
    <3>3. ASSUME NEW x \in 1..(n + 1 - (c - before + 1)) PROVE x \in 1..(n + before)
      <4>1. c >= before /\ c \in Nat /\ n \in Nat /\ before \in Nat
        BY <2>1
      <4>2. n + 1 - (c - before + 1) <= n + before
        BY <4>1
      <4> QED
        BY <4>1, <4>2
    <3>4. Fits(e, n + before)
      BY <2>3, <2>4, <3>3 DEF Fits
    <3> QED
      BY <1>1, <3>1, <3>2, <3>4 DEF Within
  <2>6. CASE IsPositive(e)
    <3>1. PICK v : NextElement(a, s, before, P) = Positive(v, c + e.consumed)
      BY <1>3, <2>1, <2>3, <2>4, <2>6 DEF NextElement
    <3>2. PICK x \in 1..(n + 1 - (c - before + 1)) : x = e.consumed
      BY <2>3, <2>4, <2>6 DEF Fits, IsPositive
    <3>3. c + x \in 1..(n + before) /\ c + x >= before
      <4>1. c >= before /\ c \in Nat /\ n \in Nat /\ before \in Nat
        BY <2>1
      <4>2. x \in Nat \ {0} /\ x <= n + 1 - (c - before + 1)
        BY <3>2
      <4>3. c + x >= before /\ c + x >= 1 /\ c + x <= n + before /\ c + x \in Nat
        BY <4>1, <4>2
      <4> QED
        BY <4>1, <4>3
    <3> QED
      BY <1>1, <3>1, <3>2, <3>3 DEF Positive, Fits, Within
  <2> QED
    BY <2>5, <2>6
<1> QED
  BY <1>2, <1>3

\* ... and the loop over elements takes no more than there is, however many
\* elements are announced; it depends on what raw_parse makes of buffers that are
\* no longer than what follows the count.
LEMMA ElementsFit ==
  ASSUME NEW s \in Seq(Byte), NEW before \in Nat, NEW consumed \in before..(Len(s) + before),
         consumed > 0, NEW count \in Nat, NEW P, \A t \in Seq(Byte) : Fits(P[t], Len(t))
  PROVE  /\ Fits(Elements(count, s, before, consumed, P), Len(s) + before)
         /\ \A Q : (\A t \in Seq(Byte) : Len(t) <= Len(s) => P[t] = Q[t]) =>
              Elements(count, s, before, consumed, P) = Elements(count, s, before, consumed, Q)
<1>1. PICK n \in Nat : n = Len(s)
  BY LenProperties
<1>2. PICK arrays : Filling(arrays, count, s, before, consumed, P)
  BY ElementsDef
<1> DEFINE N == {k \in 0..count : Within(arrays[k], before, n)}
<1>3. 0 \in N
  <2>1. 0 \in 0..count
    OBVIOUS
  <2>2. Within(Positive(Array(<<>>), consumed), before, n)
    BY <1>1 DEF Fits, Positive, Within
  <2> QED
    BY <1>2, <2>1, <2>2 DEF Filling
<1>4. ASSUME NEW k \in 1..count, k - 1 \in N PROVE k \in N
  <2>1. arrays[k] = NextElement(arrays[k - 1], s, before, P)
    BY <1>2 DEF Filling
  <2>2. PICK a : a = arrays[k - 1] /\ Within(a, before, n)
    BY <1>4
  <2>3. Within(NextElement(a, s, before, P), before, n)
    BY <1>1, <2>2, NextElementFits
  <2>4. k \in 0..count
    OBVIOUS
  <2> QED
    BY <2>1, <2>2, <2>3, <2>4
<1> HIDE DEF N
<1>5. \A k \in 0..count : k \in N
  BY <1>3, <1>4, BoundedInduction
<1>6. count \in 0..count
  OBVIOUS
<1>7. Fits(Elements(count, s, before, consumed, P), n + before)
  BY <1>2, <1>5, <1>6 DEF N, Within, Filling
<1>8. ASSUME NEW Q, \A t \in Seq(Byte) : Len(t) <= Len(s) => P[t] = Q[t]
      PROVE  Elements(count, s, before, consumed, P) = Elements(count, s, before, consumed, Q)
  <2>1. PICK others : Filling(others, count, s, before, consumed, Q)
    BY ElementsDef
  <2> DEFINE M == {k \in 0..count : arrays[k] = others[k]}
  <2>2. 0 \in M
    <3>1. 0 \in 0..count
      OBVIOUS
    <3> QED
      BY <1>2, <2>1, <3>1 DEF Filling
  <2>3. ASSUME NEW k \in 1..count, k - 1 \in M PROVE k \in M
    <3>1. PICK a : a = arrays[k - 1] /\ a = others[k - 1] /\ Within(a, before, n)
      <4>1. k - 1 \in 0..count
        OBVIOUS
      <4> QED
        BY <1>5, <2>3, <4>1 DEF N
    <3>2. NextElement(a, s, before, P) = NextElement(a, s, before, Q)
      <4>1. CASE ~IsPositive(a)
        BY <4>1 DEF NextElement
      <4>2. CASE IsPositive(a)
        <5>1. PICK c \in before..(n + before) : c = a.consumed
          BY <1>1, <3>1, <4>2 DEF Within, Fits, IsPositive
        <5>2. c - before + 1 \in 1..(n + 1)
          BY <5>1
        <5>3. PICK rest \in Seq(Byte) :
                rest = From(s, c - before + 1) /\ Len(rest) = n + 1 - (c - before + 1)
          BY <1>1, <5>2, FromType
        <5>4. Len(rest) <= n
          BY <5>1, <5>3
        <5>5. P[rest] = Q[rest]
          BY <1>1, <1>8, <5>4
        <5> QED
          BY <5>1, <5>3, <5>5 DEF NextElement
      <4> QED
        BY <4>1, <4>2
    <3>3. k \in 0..count
      OBVIOUS
    <3>4. arrays[k] = others[k]
      BY <1>2, <2>1, <3>1, <3>2 DEF Filling
    <3> QED
      BY <3>3, <3>4
  <2> HIDE DEF M
  <2>4. \A k \in 0..count : k \in M
    BY <2>2, <2>3, BoundedInduction
  <2> QED
    BY <1>2, <1>6, <2>1, <2>4 DEF M, Filling
<1> QED
  BY <1>1, <1>7, <1>8

\* The parser of a buffer that is not empty takes no more than there is, and
\* depends on what raw_parse makes of shorter buffers only.
LEMMA PrimaryFits ==
  ASSUME NEW b \in Seq(Byte), b # <<>>, NEW P, \A t \in Seq(Byte) : Fits(P[t], Len(t))
  PROVE  /\ Fits(PrimaryParser(b, P), Len(b))
         /\ \A Q : (\A t \in Seq(Byte) : Len(t) < Len(b) => P[t] = Q[t]) =>
              PrimaryParser(b, P) = PrimaryParser(b, Q)
<1>1. PICK s \in Seq(Byte) : s = Tail(b) /\ Len(b) = Len(s) + 1 /\ Len(s) \in Nat
  <2>1. Tail(b) \in Seq(Byte) /\ Len(Tail(b)) = Len(b) - 1
    BY HeadTailProperties
  <2>2. Len(b) \in Nat /\ Len(Tail(b)) \in Nat
    BY <2>1, LenProperties
  <2>3. Len(b) = Len(Tail(b)) + 1
    BY <2>1, <2>2
  <2> QED
    BY <2>1, <2>2, <2>3, Zenon
<1>2. ASSUME NEW p, \/ p.tag = "protocol"
                    \/ /\ p.tag \in {"value", "error"}
                       /\ p.consumed \in (1 + 2)..(Len(s) + 1)
      PROVE  Fits(p, Len(s) + 1)
  BY <1>1, <1>2 DEF Fits
<1>3. /\ Fits(StringParser(s, 1), Len(s) + 1)
      /\ Fits(ErrorParser(s, 1), Len(s) + 1)
      /\ Fits(IntParser(s, 1), Len(s) + 1)
      /\ Fits(BulkStringParser(s, 1), Len(s) + 1)
  BY <1>2, StringFits, ErrorFits, IntFits, BulkFits
<1>4. /\ Fits(ArrayParser(s, 1, P), Len(s) + 1)
      /\ \A Q : (\A t \in Seq(Byte) : Len(t) <= Len(s) => P[t] = Q[t]) =>
           ArrayParser(s, 1, P) = ArrayParser(s, 1, Q)
  <2>1. PICK p : p = Counted(s, 1)
    OBVIOUS
  <2>2. \/ p.tag = "protocol"
        \/ /\ p.tag = "value" /\ p.consumed \in (1 + 2)..(Len(s) + 1)
           /\ IsSize(p) => p.value.int \in Nat
    BY <2>1, CountedFits
  <2>3. CASE ~IsSize(p)
    BY <1>2, <2>1, <2>2, <2>3 DEF ArrayParser
  <2>4. CASE IsSize(p)
    <3>1. p.consumed \in (1 + 2)..(Len(s) + 1) /\ p.value.int \in Nat
      BY <2>2, <2>4 DEF IsSize, IsPositive
    <3>2. p.consumed \in 1..(Len(s) + 1) /\ p.consumed > 0
      BY <1>1, <3>1
    <3>3. /\ Fits(Elements(p.value.int, s, 1, p.consumed, P), Len(s) + 1)
          /\ \A Q : (\A t \in Seq(Byte) : Len(t) <= Len(s) => P[t] = Q[t]) =>
               Elements(p.value.int, s, 1, p.consumed, P) =
                 Elements(p.value.int, s, 1, p.consumed, Q)
      <4>1. PICK c, q : c = p.value.int /\ q = p.consumed
        OBVIOUS
      <4>2. 1 \in Nat /\ c \in Nat /\ q \in 1..(Len(s) + 1) /\ q > 0
        BY <3>1, <3>2, <4>1
      <4>3. Fits(Elements(c, s, 1, q, P), Len(s) + 1)
        BY <4>2, ElementsFit
      <4>4. ASSUME NEW Q, \A t \in Seq(Byte) : Len(t) <= Len(s) => P[t] = Q[t]
            PROVE  Elements(c, s, 1, q, P) = Elements(c, s, 1, q, Q)
        BY <4>2, <4>4, ElementsFit
      <4> QED
        BY <4>1, <4>3, <4>4, Zenon
    <3> QED
      BY <2>1, <2>4, <3>3 DEF ArrayParser
  <2> QED
    BY <2>3, <2>4
<1>5. Fits(ProtocolError("wrong_introduction"), Len(s) + 1)
  BY DEF Fits, ProtocolError
<1>6. ASSUME NEW R
      PROVE  /\ b[1] = "+" => PrimaryParser(b, R) = StringParser(s, 1)
             /\ b[1] = "-" => PrimaryParser(b, R) = ErrorParser(s, 1)
             /\ b[1] = ":" => PrimaryParser(b, R) = IntParser(s, 1)
             /\ b[1] = "$" => PrimaryParser(b, R) = BulkStringParser(s, 1)
             /\ b[1] = "*" => PrimaryParser(b, R) = ArrayParser(s, 1, R)
             /\ b[1] \notin {"+", "-", ":", "$", "*"} =>
                  PrimaryParser(b, R) = ProtocolError("wrong_introduction")
  BY <1>1 DEF PrimaryParser
<1>7. Fits(PrimaryParser(b, P), Len(b))
  BY <1>1, <1>3, <1>4, <1>5, <1>6
<1>8. ASSUME NEW Q, \A t \in Seq(Byte) : Len(t) < Len(b) => P[t] = Q[t]
      PROVE  PrimaryParser(b, P) = PrimaryParser(b, Q)
  <2>1. ASSUME NEW t \in Seq(Byte), Len(t) <= Len(s) PROVE P[t] = Q[t]
    <3>1. Len(t) \in Nat
      BY LenProperties
    <3>2. Len(t) < Len(b)
      BY <1>1, <2>1, <3>1
    <3> QED
      BY <1>8, <3>2
  <2>2. ArrayParser(s, 1, P) = ArrayParser(s, 1, Q)
    BY <1>4, <2>1
  <2> QED
    BY <1>6, <2>2
<1> QED
  BY <1>7, <1>8

\* raw_parse for arrays nested up to m deep.
IsRaw(raw, m) ==
  \A k \in 0..m : \A s \in Seq(Byte) :
    raw[k][s] = IF k = 0 \/ s = <<>> THEN ProtocolError("not_enough_data")
                ELSE PrimaryParser(s, raw[k - 1])

\* raw_parse, by the length of the buffer.
LEMMA RawDef ==
  ASSUME NEW b \in Seq(Byte)
  PROVE  \E raw : IsRaw(raw, Len(b)) /\ RawParse(b) = raw[Len(b)][b]
<1>1. PICK m \in Nat : m = Len(b)
  BY LenProperties
<1> DEFINE Short == ProtocolError("not_enough_data")
           Row(g, n) == [s \in Seq(Byte) |-> IF n = 0 \/ s = <<>> THEN Short
                                             ELSE PrimaryParser(s, g)]
           Eq(f, k) == f = [n \in 0..k |-> Row(f[n - 1], n)]
           S == {k \in 0..m : \E f : Eq(f, k)}
<1>2. ASSUME NEW g, NEW h PROVE Row(g, 0) = Row(h, 0)
  OBVIOUS
<1>3. 0 \in S
  <2>1. PICK r : \A g : Row(g, 0) = r
    <3>1. \A g : Row(g, 0) = Row(0, 0)
      BY <1>2
    <3> HIDE DEF Row
    <3> QED
      BY <3>1
  <2> HIDE DEF Row
  <2>2. Eq([n \in 0..0 |-> r], 0)
    <3> DEFINE f == [n \in 0..0 |-> r]
    <3>1. ASSUME NEW n \in 0..0 PROVE f[n] = Row(f[n - 1], n)
      BY <2>1
    <3> QED
      BY <3>1
  <2>3. 0 \in 0..m
    OBVIOUS
  <2> HIDE DEF Eq
  <2> QED
    BY <2>2, <2>3
<1>4. ASSUME NEW k \in 1..m, k - 1 \in S PROVE k \in S
  <2> HIDE DEF Row
  <2>1. PICK f : Eq(f, k - 1)
    BY <1>4
  <2> DEFINE g == [n \in 0..k |-> IF n < k THEN f[n] ELSE Row(f[k - 1], k)]
  <2>2. ASSUME NEW n \in 0..k PROVE g[n] = Row(g[n - 1], n)
    <3>1. CASE n = 0
      <4>1. f[0] = Row(f[0 - 1], 0) /\ g[0] = f[0]
        <5>1. 0 \in 0..(k - 1) /\ 0 \in 0..k /\ 0 < k
          OBVIOUS
        <5>2. f[0] = Row(f[0 - 1], 0)
          BY <2>1, <5>1
        <5> QED
          BY <5>1, <5>2
      <4>2. Row(f[0 - 1], 0) = Row(g[0 - 1], 0)
        BY <1>2
      <4> QED
        BY <3>1, <4>1, <4>2
    <3>2. CASE n \in 1..(k - 1)
      <4>1. f[n] = Row(f[n - 1], n)
        BY <2>1, <3>2
      <4>2. g[n] = f[n] /\ g[n - 1] = f[n - 1]
        BY <3>2
      <4> QED
        BY <3>2, <4>1, <4>2
    <3>3. CASE n = k
      <4>1. g[k] = Row(f[k - 1], k) /\ g[k - 1] = f[k - 1]
        OBVIOUS
      <4> QED
        BY <3>3, <4>1
    <3> QED
      BY <3>1, <3>2, <3>3
  <2>3. Eq(g, k)
    BY <2>2
  <2> HIDE DEF Eq
  <2> QED
    BY <2>3
<1> HIDE DEF S
<1>5. \A k \in 0..m : k \in S
  BY <1>3, <1>4, BoundedInduction
<1>6. PICK raw : /\ raw = CHOOSE f : Eq(f, m)
                 /\ Eq(raw, m)
  <2>1. \E f : Eq(f, m)
    <3>1. m \in 0..m
      OBVIOUS
    <3> HIDE DEF Eq
    <3> QED
      BY <1>5, <3>1 DEF S
  <2> HIDE DEF Eq
  <2> QED
    BY <2>1
<1>7. RawParse(b) = raw[m][b]
  BY <1>1, <1>6 DEF RawParse
<1>8. ASSUME NEW k \in 0..m, NEW s \in Seq(Byte)
      PROVE  raw[k][s] = IF k = 0 \/ s = <<>> THEN Short ELSE PrimaryParser(s, raw[k - 1])
  <2>1. raw[k] = Row(raw[k - 1], k)
    <3> HIDE DEF Row
    <3> QED
      BY <1>6
  <2> QED
    BY <2>1
<1> HIDE DEF Row, Eq
<1> QED
  BY <1>1, <1>7, <1>8 DEF IsRaw

\* It takes no more than there is.
LEMMA RawRowsFit ==
  ASSUME NEW m \in Nat, NEW raw, IsRaw(raw, m)
  PROVE  \A k \in 0..m : \A s \in Seq(Byte) : Fits(raw[k][s], Len(s))
<1> DEFINE Short == ProtocolError("not_enough_data")
           N == {k \in 0..m : \A s \in Seq(Byte) : Fits(raw[k][s], Len(s))}
<1>1. ASSUME NEW s \in Seq(Byte) PROVE Fits(Short, Len(s))
  BY DEF Fits, ProtocolError
<1>2. ASSUME NEW k \in 0..m, NEW s \in Seq(Byte)
      PROVE  raw[k][s] = IF k = 0 \/ s = <<>> THEN Short ELSE PrimaryParser(s, raw[k - 1])
  BY DEF IsRaw
<1> HIDE DEF Short
<1>3. 0 \in N
  <2>1. 0 \in 0..m
    OBVIOUS
  <2>2. \A s \in Seq(Byte) : raw[0][s] = Short
    BY <1>2, <2>1
  <2> QED
    BY <1>1, <2>1, <2>2
<1>4. ASSUME NEW k \in 1..m, k - 1 \in N PROVE k \in N
  <2>1. k \in 0..m /\ k # 0
    OBVIOUS
  <2>2. PICK P : P = raw[k - 1]
    OBVIOUS
  <2>3. \A t \in Seq(Byte) : Fits(P[t], Len(t))
    BY <1>4, <2>2
  <2>4. ASSUME NEW s \in Seq(Byte) PROVE Fits(raw[k][s], Len(s))
    <3>1. CASE s = <<>>
      <4>1. raw[k][s] = Short
        BY <1>2, <2>1, <3>1
      <4> QED
        BY <1>1, <4>1
    <3>2. CASE s # <<>>
      <4>1. raw[k][s] = PrimaryParser(s, P)
        BY <1>2, <2>1, <2>2, <3>2
      <4> QED
        BY <2>3, <3>2, <4>1, PrimaryFits
    <3> QED
      BY <3>1, <3>2
  <2> QED
    BY <2>1, <2>4
<1> HIDE DEF N
<1>5. \A k \in 0..m : k \in N
  BY <1>3, <1>4, BoundedInduction
<1> QED
  BY <1>5 DEF N

\* So whatever is parsed, no more bytes are used than there are, and at least one.
LEMMA RawFits ==
  ASSUME NEW b \in Seq(Byte)
  PROVE  Fits(RawParse(b), Len(b))
<1>1. PICK m \in Nat : m = Len(b)
  BY LenProperties
<1>2. PICK raw : IsRaw(raw, m) /\ RawParse(b) = raw[m][b]
  BY <1>1, RawDef
<1>3. m \in 0..m
  OBVIOUS
<1> QED
  BY <1>1, <1>2, <1>3, RawRowsFit

\* It makes the same of a buffer however deep it may go, if that is as deep as the
\* buffer is long.
LEMMA RawAgrees ==
  ASSUME NEW m \in Nat, NEW f, IsRaw(f, m), NEW n \in Nat, NEW g, IsRaw(g, n)
  PROVE  \A s \in Seq(Byte) : \A k \in Len(s)..m, j \in Len(s)..n : f[k][s] = g[j][s]
<1> DEFINE Same(s) == \A k \in Len(s)..m, j \in Len(s)..n : f[k][s] = g[j][s]
           S == {l \in Nat : \A s \in Seq(Byte) : Len(s) <= l => Same(s)}
           Short == ProtocolError("not_enough_data")
<1>1. /\ \A k \in 0..m : \A s \in Seq(Byte) :
           f[k][s] = IF k = 0 \/ s = <<>> THEN Short ELSE PrimaryParser(s, f[k - 1])
      /\ \A k \in 0..n : \A s \in Seq(Byte) :
           g[k][s] = IF k = 0 \/ s = <<>> THEN Short ELSE PrimaryParser(s, g[k - 1])
  BY DEF IsRaw
<1> HIDE DEF Short
<1>2. ASSUME NEW s \in Seq(Byte), s = <<>> PROVE Same(s)
  <2>1. Len(s) = 0
    BY <1>2
  <2>2. ASSUME NEW k \in 0..m PROVE f[k][s] = Short
    BY <1>1, <1>2, Zenon
  <2>3. ASSUME NEW j \in 0..n PROVE g[j][s] = Short
    BY <1>1, <1>2, Zenon
  <2> QED
    BY <2>1, <2>2, <2>3
<1>3. ASSUME NEW l \in Nat, NEW s \in Seq(Byte), s # <<>>, Len(s) <= l + 1,
             \A t \in Seq(Byte) : Len(t) <= l => Same(t)
      PROVE  Same(s)
  <2>1. Len(s) \in Nat \ {0}
    BY <1>3, EmptySeq
  <2>2. ASSUME NEW k \in Len(s)..m, NEW j \in Len(s)..n PROVE f[k][s] = g[j][s]
    <3>1. k \in 0..m /\ k # 0 /\ j \in 0..n /\ j # 0 /\ k - 1 \in 0..m
      BY <2>1
    <3>2. f[k][s] = PrimaryParser(s, f[k - 1]) /\ g[j][s] = PrimaryParser(s, g[j - 1])
      BY <1>1, <1>3, <3>1
    <3>3. PICK P, Q : P = f[k - 1] /\ Q = g[j - 1]
      OBVIOUS
    <3>4. ASSUME NEW t \in Seq(Byte), Len(t) < Len(s) PROVE P[t] = Q[t]
      <4>1. Len(t) \in Nat
        BY LenProperties
      <4>2. Len(t) <= l /\ k - 1 \in Len(t)..m /\ j - 1 \in Len(t)..n
        BY <1>3, <2>1, <3>1, <3>4, <4>1
      <4> QED
        BY <1>3, <3>3, <4>2
    <3>5. \A t \in Seq(Byte) : Fits(P[t], Len(t))
      BY <3>1, <3>3, RawRowsFit
    <3>6. PrimaryParser(s, P) = PrimaryParser(s, Q)
      BY <1>3, <3>4, <3>5, PrimaryFits
    <3> QED
      BY <3>2, <3>3, <3>6
  <2> QED
    BY <2>2
<1> HIDE DEF Same
<1>4. 0 \in S
  <2>1. ASSUME NEW s \in Seq(Byte), Len(s) <= 0 PROVE Same(s)
    <3>1. s = <<>>
      BY <2>1, EmptySeq
    <3> QED
      BY <1>2, <3>1
  <2> QED
    BY <2>1
<1>5. ASSUME NEW l \in Nat, l \in S PROVE l + 1 \in S
  <2>1. ASSUME NEW s \in Seq(Byte), Len(s) <= l + 1 PROVE Same(s)
    <3>1. CASE s = <<>>
      BY <1>2, <3>1
    <3>2. CASE s # <<>>
      BY <1>3, <1>5, <2>1, <3>2
    <3> QED
      BY <3>1, <3>2
  <2> QED
    BY <2>1
<1> HIDE DEF S
<1>6. \A l \in Nat : l \in S
  BY <1>4, <1>5, Induction
<1>7. ASSUME NEW s \in Seq(Byte) PROVE Same(s)
  <2>1. Len(s) \in Nat /\ Len(s) <= Len(s)
    BY LenProperties
  <2> QED
    BY <1>6, <2>1 DEF S
<1> QED
  BY <1>7 DEF Same

\* raw_parse is the recursion of the code: the parser that the first byte asks
\* for, with raw_parse itself for the elements.
Raw == [s \in Seq(Byte) |-> RawParse(s)]

\* raw_parse of the model, a function on buffers up to a length, is that of the code,
\* which calls itself for the elements of an array, whatever the length.
THEOREM RawIsRecursive ==
  ASSUME NEW b \in Seq(Byte)
  PROVE  RawParse(b) = IF b = <<>> THEN ProtocolError("not_enough_data")
                       ELSE PrimaryParser(b, Raw)
<1>1. PICK m \in Nat : m = Len(b)
  BY LenProperties
<1>2. PICK f : IsRaw(f, m) /\ RawParse(b) = f[m][b]
  BY <1>1, RawDef
<1>3. m \in 0..m
  OBVIOUS
<1>4. CASE b = <<>>
  BY <1>2, <1>3, <1>4 DEF IsRaw
<1>5. CASE b # <<>>
  <2>1. m # 0
    BY <1>1, <1>5, EmptySeq
  <2>2. RawParse(b) = PrimaryParser(b, f[m - 1])
    BY <1>2, <1>3, <1>5, <2>1 DEF IsRaw
  <2>3. PICK P : P = f[m - 1]
    OBVIOUS
  <2>4. ASSUME NEW t \in Seq(Byte), Len(t) < Len(b) PROVE P[t] = Raw[t]
    <3>1. PICK n \in Nat : n = Len(t)
      BY LenProperties
    <3>2. PICK g : IsRaw(g, n) /\ RawParse(t) = g[n][t]
      BY <3>1, RawDef
    <3>3. m - 1 \in Len(t)..m /\ n \in Len(t)..n
      BY <1>1, <2>4, <3>1
    <3>4. f[m - 1][t] = g[n][t]
      BY <1>2, <3>2, <3>3, RawAgrees
    <3> QED
      BY <2>3, <3>2, <3>4 DEF Raw
  <2>5. \A t \in Seq(Byte) : Fits(P[t], Len(t))
    <3>1. m - 1 \in 0..m
      BY <2>1
    <3> QED
      BY <1>2, <2>3, <3>1, RawRowsFit
  <2>6. PrimaryParser(b, P) = PrimaryParser(b, Raw)
    BY <1>5, <2>4, <2>5, PrimaryFits
  <2> QED
    BY <1>5, <2>2, <2>3, <2>6
<1> QED
  BY <1>4, <1>5

-----------------------------------------------------------------------------
(* The loop.                                                               *)

\* The counter is the number of bytes that are left.
LoopInv == incoming \in Seq(Byte) /\ max_bytes = Len(incoming)

\* A round takes at least one of them, and no more than there are.
LEMMA Round ==
  ASSUME LoopInv, ReadOne
  PROVE  LoopInv' /\ max_bytes' \in 0..(max_bytes - 1) /\ Len(incoming') = max_bytes'
<1>1. PICK p, n : /\ p = RawParse(incoming)
                  /\ n = IF Consumed(p) = 0 THEN max_bytes ELSE Consumed(p)
                  /\ incoming' = From(incoming, n + 1) /\ max_bytes' = max_bytes - n
  BY DEF ReadOne
<1>2. PICK m \in Nat : m = max_bytes /\ m = Len(incoming) /\ m > 0
  BY LenProperties DEF LoopInv, ReadOne
<1>3. Fits(p, m)
  BY <1>1, <1>2, RawFits DEF LoopInv
<1>4. n \in 1..m
  BY <1>1, <1>2, <1>3 DEF Fits, Consumed
<1>5. n + 1 \in 1..(Len(incoming) + 1)
  BY <1>2, <1>4
<1>6. incoming' \in Seq(Byte) /\ Len(incoming') = m + 1 - (n + 1)
  BY <1>1, <1>2, <1>5, FromType DEF LoopInv
<1> QED
  BY <1>1, <1>2, <1>4, <1>6 DEF LoopInv

\* Whatever a read leaves in the buffer, each round of the loop of read_message takes
\* at least one byte and no more than there are: the loop ends, and its unsigned
\* counter does not wrap around.
THEOREM ProgressCorrect == Spec => LoopProgress
<1>1. Init => LoopInv
  BY BuffersAssumption DEF Init, Received, LoopInv
<1>2. LoopInv /\ [ReadOne]_vars => LoopInv'
  <2> SUFFICES ASSUME LoopInv, [ReadOne]_vars PROVE LoopInv'
    OBVIOUS
  <2>1. CASE ReadOne
    BY <2>1, Round
  <2>2. CASE UNCHANGED vars
    BY <2>2 DEF vars, LoopInv
  <2> QED
    BY <2>1, <2>2
<1>3. LoopInv /\ [ReadOne]_vars =>
        [max_bytes' \in 0..(max_bytes - 1) /\ Len(incoming') = max_bytes']_vars
  BY Round
<1> QED
  BY <1>1, <1>2, <1>3, PTL DEF Spec, LoopProgress
=============================================================================
