------------------------ MODULE RespRoundTripProofs -------------------------
(***************************************************************************)
(* What a server writes is read as what it was, and what serialize writes  *)
(* is read by a server as the arguments of the command, for any replies,   *)
(* any commands and any cut.  First the numbers, then the texts and the    *)
(* lines, then each parser on what was written for it and on a part of it, *)
(* then the replies by induction on the length of their text, then         *)
(* serialize, and last the loop of read_message.                           *)
(***************************************************************************)
EXTENDS RespRoundTrip, RespReaderProofs

-----------------------------------------------------------------------------
(* Digits.                                                                 *)

\* The digits, one by one.
LEMMA DigitsAre ==
  /\ Digits[1] = "0" /\ Digits[2] = "1" /\ Digits[3] = "2" /\ Digits[4] = "3"
  /\ Digits[5] = "4" /\ Digits[6] = "5" /\ Digits[7] = "6" /\ Digits[8] = "7"
  /\ Digits[9] = "8" /\ Digits[10] = "9"
BY DEF Digits

\* No two digits are the same byte.
LEMMA DigitsDiffer ==
  ASSUME NEW i \in 1..10, NEW j \in 1..10, Digits[i] = Digits[j]
  PROVE  i = j
BY DigitsAre

\* A digit is none of the other bytes.
LEMMA DigitIs ==
  ASSUME NEW d, IsDigit(d)
  PROVE  d \in Byte /\ d # CR /\ d # "-" /\ d # "+"
<1>1. PICK i \in 1..10 : d = Digits[i]
  BY DEF IsDigit
<1>2. d \in Byte
  BY <1>1, ByteAssumption
<1>3. d # CR /\ d # "-" /\ d # "+"
  BY <1>1, DigitsAre DEF CR
<1> QED
  BY <1>2, <1>3

\* A digit is worth its place.
LEMMA DigitValueIs ==
  ASSUME NEW j \in 0..9
  PROVE  IsDigit(Digits[j + 1]) /\ DigitValue(Digits[j + 1]) = j
<1>1. j + 1 \in 1..10
  OBVIOUS
<1>2. PICK d : d = Digits[j + 1]
  OBVIOUS
<1>3. PICK k \in 1..10 : /\ k = CHOOSE i \in 1..10 : Digits[i] = d
                         /\ Digits[k] = d
  <2>1. \E i \in 1..10 : Digits[i] = d
    BY <1>1, <1>2
  <2> QED
    BY <2>1
<1>4. k = j + 1
  BY <1>1, <1>2, <1>3, DigitsDiffer
<1>5. DigitValue(d) = k - 1
  BY <1>3 DEF DigitValue
<1> QED
  BY <1>1, <1>2, <1>4, <1>5 DEF IsDigit

\* The division that prints a number.
LEMMA Division ==
  ASSUME NEW k \in Nat, k >= 10
  PROVE  /\ k \div 10 \in 1..(k - 1) /\ k % 10 \in 0..9
         /\ 10 * (k \div 10) + (k % 10) = k
OBVIOUS

\* Nothing comes before the last digit of a number less than ten.
LEMMA SmallDivision ==
  ASSUME NEW k \in 1..9
  PROVE  k \div 10 = 0
OBVIOUS

-----------------------------------------------------------------------------
(* The text of a number.                                                   *)

\* One digit more.
LEMMA DecimalAppend ==
  ASSUME NEW T, NEW s \in Seq(T), NEW d \in T
  PROVE  DecimalValue(Append(s, d)) = 10 * DecimalValue(s) + DigitValue(d)
<1>1. PICK n \in Nat : n = Len(s)
  BY LenProperties
<1>2. PICK t : t = Append(s, d)
  OBVIOUS
<1>3. Len(t) = n + 1 /\ t[n + 1] = d /\ \A i \in 1..n : t[i] = s[i]
  BY <1>1, <1>2, AppendProperties
<1>4. PICK f : /\ DecimalValue(s) = f[n] /\ f[0] = 0
               /\ \A k \in 1..n : f[k] = 10 * f[k - 1] + DigitValue(s[k])
  BY <1>1, DecimalDef
<1>5. PICK g : /\ DecimalValue(t) = g[n + 1] /\ g[0] = 0
               /\ \A k \in 1..(n + 1) : g[k] = 10 * g[k - 1] + DigitValue(t[k])
  <2>1. Len(t) \in Nat
    BY <1>3
  <2> QED
    BY <1>3, <2>1, DecimalDef
<1> DEFINE S == {k \in 0..n : f[k] = g[k]}
<1>6. 0 \in S
  <2>1. 0 \in 0..n
    OBVIOUS
  <2> QED
    BY <1>4, <1>5, <2>1
<1>7. ASSUME NEW k \in 1..n, k - 1 \in S PROVE k \in S
  <2>1. k \in 1..(n + 1) /\ k \in 0..n
    OBVIOUS
  <2>2. f[k] = 10 * f[k - 1] + DigitValue(s[k]) /\ g[k] = 10 * g[k - 1] + DigitValue(s[k])
    BY <1>3, <1>4, <1>5, <2>1
  <2> QED
    BY <1>7, <2>1, <2>2
<1> HIDE DEF S
<1>8. \A k \in 0..n : k \in S
  BY <1>6, <1>7, BoundedInduction
<1>9. g[n + 1] = 10 * g[n] + DigitValue(d)
  <2>1. n + 1 \in 1..(n + 1) /\ (n + 1) - 1 = n
    OBVIOUS
  <2> QED
    BY <1>3, <1>5, <2>1
<1>10. n \in 0..n
  OBVIOUS
<1> QED
  BY <1>2, <1>4, <1>5, <1>8, <1>9, <1>10 DEF S

\* A number of one digit.
LEMMA DecimalOne ==
  ASSUME NEW d, DigitValue(d) \in Nat
  PROVE  DecimalValue(<<d>>) = DigitValue(d)
<1>1. Len(<<d>>) = 1 /\ <<d>>[1] = d
  OBVIOUS
<1>2. PICK f : /\ DecimalValue(<<d>>) = f[1] /\ f[0] = 0
               /\ \A k \in 1..1 : f[k] = 10 * f[k - 1] + DigitValue(<<d>>[k])
  BY <1>1, DecimalDef
<1>3. f[1] = 10 * f[0] + DigitValue(d)
  BY <1>1, <1>2
<1> QED
  BY <1>2, <1>3

\* DecimalText prints a number after the one without its last digit.
LEMMA DecimalTextDef ==
  ASSUME NEW n \in Nat
  PROVE  \E text : /\ DecimalText(n) = text[n]
                   /\ \A k \in 0..n :
                        text[k] = IF k < 10 THEN <<Digits[k + 1]>>
                                  ELSE Append(text[k \div 10], Digits[(k % 10) + 1])
<1> DEFINE St(v, k) == Append(v, Digits[(k % 10) + 1])
           Base(k) == <<Digits[k + 1]>>
           Eq(f, k) == f = [i \in 0..k |-> IF i < 10 THEN Base(i) ELSE St(f[i \div 10], i)]
           S == {k \in 0..n : \E f : Eq(f, k)}
<1>1. ASSUME NEW i \in Nat, ~(i < 10) PROVE i \div 10 \in 0..(i - 1)
  BY <1>1
<1>2. 0 < 10
  OBVIOUS
<1> HIDE DEF St, Base
<1>3. 0 \in S
  <2>1. Eq([i \in 0..0 |-> Base(0)], 0)
    BY <1>2
  <2>2. 0 \in 0..n
    OBVIOUS
  <2> QED
    BY <2>1, <2>2
<1>4. ASSUME NEW k \in 1..n, k - 1 \in S PROVE k \in S
  <2>1. PICK f : Eq(f, k - 1)
    BY <1>4
  <2> DEFINE g == [i \in 0..k |-> IF i < k THEN f[i]
                                 ELSE IF k < 10 THEN Base(k) ELSE St(f[k \div 10], k)]
  <2>2. ASSUME NEW i \in 0..k
        PROVE  g[i] = IF i < 10 THEN Base(i) ELSE St(g[i \div 10], i)
    <3>1. ~(i < 10) => i \div 10 \in 0..(i - 1)
      BY <1>1
    <3>2. CASE i < k
      <4>1. i \in 0..(k - 1)
        BY <3>2
      <4>2. f[i] = IF i < 10 THEN Base(i) ELSE St(f[i \div 10], i)
        BY <2>1, <4>1
      <4>3. g[i] = f[i]
        BY <3>2
      <4>4. ASSUME ~(i < 10) PROVE g[i \div 10] = f[i \div 10]
        <5>1. PICK j \in 0..(i - 1) : j = i \div 10
          BY <3>1, <4>4
        <5>2. g[j] = f[j]
          BY <3>2
        <5> QED
          BY <5>1, <5>2
      <4> QED
        BY <4>2, <4>3, <4>4
    <3>3. CASE i = k
      <4>1. g[k] = IF k < 10 THEN Base(k) ELSE St(f[k \div 10], k)
        OBVIOUS
      <4>2. ASSUME ~(k < 10) PROVE g[k \div 10] = f[k \div 10]
        <5>1. PICK j \in 0..(k - 1) : j = k \div 10
          BY <3>1, <3>3, <4>2
        <5>2. g[j] = f[j]
          OBVIOUS
        <5> QED
          BY <5>1, <5>2
      <4> QED
        BY <3>3, <4>1, <4>2
    <3> QED
      BY <3>2, <3>3
  <2>3. Eq(g, k)
    BY <2>2
  <2>4. k \in 0..n
    OBVIOUS
  <2> HIDE DEF Eq
  <2> QED
    BY <2>3, <2>4
<1> HIDE DEF S
<1>5. \A k \in 0..n : k \in S
  BY <1>3, <1>4, BoundedInduction
<1>6. PICK text : text = (CHOOSE f : Eq(f, n)) /\ Eq(text, n)
  <2>1. \E f : Eq(f, n)
    <3>1. n \in 0..n
      OBVIOUS
    <3> HIDE DEF Eq
    <3> QED
      BY <1>5, <3>1 DEF S
  <2> HIDE DEF Eq
  <2> QED
    BY <2>1
<1>7. DecimalText(n) = text[n]
  BY <1>6 DEF DecimalText, St, Base
<1>8. \A k \in 0..n : text[k] = IF k < 10 THEN Base(k) ELSE St(text[k \div 10], k)
  BY <1>6
<1> QED
  BY <1>7, <1>8 DEF St, Base

\* ... and size_for_int counts it so.
LEMMA DigitCountDef ==
  ASSUME NEW n \in Nat
  PROVE  \E count : /\ DigitCount(n) = count[n]
                    /\ \A k \in 0..n :
                         count[k] = IF k = 0 THEN 0 ELSE 1 + count[k \div 10]
<1> DEFINE St(v, k) == 1 + v
           Base(k) == 0
           Eq(f, k) == f = [i \in 0..k |-> IF i = 0 THEN Base(i) ELSE St(f[i \div 10], i)]
           S == {k \in 0..n : \E f : Eq(f, k)}
<1>1. ASSUME NEW i \in Nat, ~(i = 0) PROVE i \div 10 \in 0..(i - 1)
  BY <1>1
<1>2. 0 = 0
  OBVIOUS
<1> HIDE DEF St, Base
<1>3. 0 \in S
  <2>1. Eq([i \in 0..0 |-> Base(0)], 0)
    BY <1>2
  <2>2. 0 \in 0..n
    OBVIOUS
  <2> QED
    BY <2>1, <2>2
<1>4. ASSUME NEW k \in 1..n, k - 1 \in S PROVE k \in S
  <2>1. PICK f : Eq(f, k - 1)
    BY <1>4
  <2> DEFINE g == [i \in 0..k |-> IF i < k THEN f[i]
                                 ELSE IF k = 0 THEN Base(k) ELSE St(f[k \div 10], k)]
  <2>2. ASSUME NEW i \in 0..k
        PROVE  g[i] = IF i = 0 THEN Base(i) ELSE St(g[i \div 10], i)
    <3>1. ~(i = 0) => i \div 10 \in 0..(i - 1)
      BY <1>1
    <3>2. CASE i < k
      <4>1. i \in 0..(k - 1)
        BY <3>2
      <4>2. f[i] = IF i = 0 THEN Base(i) ELSE St(f[i \div 10], i)
        BY <2>1, <4>1
      <4>3. g[i] = f[i]
        BY <3>2
      <4>4. ASSUME ~(i = 0) PROVE g[i \div 10] = f[i \div 10]
        <5>1. PICK j \in 0..(i - 1) : j = i \div 10
          BY <3>1, <4>4
        <5>2. g[j] = f[j]
          BY <3>2
        <5> QED
          BY <5>1, <5>2
      <4> QED
        BY <4>2, <4>3, <4>4
    <3>3. CASE i = k
      <4>1. g[k] = IF k = 0 THEN Base(k) ELSE St(f[k \div 10], k)
        OBVIOUS
      <4>2. ASSUME ~(k = 0) PROVE g[k \div 10] = f[k \div 10]
        <5>1. PICK j \in 0..(k - 1) : j = k \div 10
          BY <3>1, <3>3, <4>2
        <5>2. g[j] = f[j]
          OBVIOUS
        <5> QED
          BY <5>1, <5>2
      <4> QED
        BY <3>3, <4>1, <4>2
    <3> QED
      BY <3>2, <3>3
  <2>3. Eq(g, k)
    BY <2>2
  <2>4. k \in 0..n
    OBVIOUS
  <2> HIDE DEF Eq
  <2> QED
    BY <2>3, <2>4
<1> HIDE DEF S
<1>5. \A k \in 0..n : k \in S
  BY <1>3, <1>4, BoundedInduction
<1>6. PICK count : count = (CHOOSE f : Eq(f, n)) /\ Eq(count, n)
  <2>1. \E f : Eq(f, n)
    <3>1. n \in 0..n
      OBVIOUS
    <3> HIDE DEF Eq
    <3> QED
      BY <1>5, <3>1 DEF S
  <2> HIDE DEF Eq
  <2> QED
    BY <2>1
<1>7. DigitCount(n) = count[n]
  BY <1>6 DEF DigitCount, St, Base
<1>8. \A k \in 0..n : count[k] = IF k = 0 THEN Base(k) ELSE St(count[k \div 10], k)
  BY <1>6
<1> QED
  BY <1>7, <1>8 DEF St, Base

\* The text of a number is made of digits, is read as that number, and is as long
\* as size_for_int says.
LEMMA DecimalTextIs ==
  ASSUME NEW n \in Nat
  PROVE  /\ DecimalText(n) \in Seq(Byte) /\ Len(DecimalText(n)) = SizeForInt(n)
         /\ SizeForInt(n) \in Nat \ {0}
         /\ \A i \in 1..Len(DecimalText(n)) : IsDigit(DecimalText(n)[i])
         /\ DecimalValue(DecimalText(n)) = n
<1>1. PICK text : /\ DecimalText(n) = text[n]
                  /\ \A k \in 0..n :
                       text[k] = IF k < 10 THEN <<Digits[k + 1]>>
                                 ELSE Append(text[k \div 10], Digits[(k % 10) + 1])
  BY DecimalTextDef
<1>2. PICK count : /\ DigitCount(n) = count[n]
                   /\ \A k \in 0..n : count[k] = IF k = 0 THEN 0 ELSE 1 + count[k \div 10]
  BY DigitCountDef
<1> DEFINE D == {d \in Byte : IsDigit(d)}
           Good(k) == /\ text[k] \in Seq(D)
                      /\ count[k] \in Nat /\ (count[k] = 0 <=> k = 0)
                      /\ Len(text[k]) = IF k = 0 THEN 1 ELSE count[k]
                      /\ DecimalValue(text[k]) = k
           S == {k \in 0..n : \A j \in 0..k : Good(j)}
<1>3. ASSUME NEW k \in 0..n, k < 10 PROVE Good(k)
  <2>1. k \in 0..9
    BY <1>3
  <2>2. PICK d : d = Digits[k + 1] /\ IsDigit(d) /\ DigitValue(d) = k
    BY <2>1, DigitValueIs
  <2>3. text[k] = <<d>>
    BY <1>1, <1>3, <2>2
  <2>4. d \in D
    BY <2>2, DigitIs
  <2>5. text[k] \in Seq(D) /\ Len(text[k]) = 1
    <3> HIDE DEF D
    <3> QED
      BY <2>3, <2>4
  <2>6. DecimalValue(text[k]) = k
    BY <2>2, <2>3, DecimalOne
  <2>7. count[k] = IF k = 0 THEN 0 ELSE 1
    <3>1. CASE k = 0
      BY <1>2, <3>1
    <3>2. CASE k # 0
      <4>1. k \div 10 = 0
        BY <2>1, <3>2
      <4>2. 0 \in 0..n
        OBVIOUS
      <4>3. count[0] = 0
        BY <1>2, <4>2
      <4> QED
        BY <1>2, <3>2, <4>1, <4>3
    <3> QED
      BY <3>1, <3>2
  <2> QED
    BY <2>5, <2>6, <2>7
<1>4. ASSUME NEW k \in 0..n, ~(k < 10), \A j \in 0..(k - 1) : Good(j) PROVE Good(k)
  <2> HIDE DEF Good, D
  <2>1. k \in Nat /\ k >= 10 /\ k # 0
    BY <1>4
  <2>2. PICK j \in 1..(k - 1), r \in 0..9 : j = k \div 10 /\ r = k % 10 /\ 10 * j + r = k
    BY <2>1, Division
  <2>3. Good(j) /\ j # 0
    <3>1. j \in 0..(k - 1) /\ j # 0
      OBVIOUS
    <3> QED
      BY <1>4, <3>1
  <2>4. PICK d : d = Digits[r + 1] /\ IsDigit(d) /\ DigitValue(d) = r
    BY DigitValueIs
  <2>5. d \in D
    BY <2>4, DigitIs DEF D
  <2>6. text[k] = Append(text[j], d)
    BY <1>1, <1>4, <2>2, <2>4
  <2>7. PICK t \in Seq(D), c \in Nat \ {0} :
          t = text[j] /\ c = count[j] /\ Len(t) = c /\ DecimalValue(t) = j
    BY <2>3 DEF Good
  <2>8. count[k] = 1 + c
    BY <1>2, <2>1, <2>2, <2>7
  <2>9. Append(t, d) \in Seq(D) /\ Len(Append(t, d)) = c + 1
    BY <2>5, <2>7, AppendProperties
  <2>10. DecimalValue(Append(t, d)) = 10 * j + r
    BY <2>4, <2>5, <2>7, DecimalAppend
  <2>11. DecimalValue(text[k]) = k /\ text[k] \in Seq(D) /\ Len(text[k]) = c + 1
    BY <2>2, <2>6, <2>7, <2>9, <2>10
  <2>12. count[k] \in Nat /\ count[k] # 0 /\ Len(text[k]) = count[k]
    BY <2>8, <2>11
  <2> QED
    BY <2>1, <2>11, <2>12 DEF Good
<1> HIDE DEF Good
<1>5. 0 \in S
  <2>1. 0 \in 0..n /\ 0 < 10
    OBVIOUS
  <2>2. Good(0)
    BY <1>3, <2>1
  <2> QED
    BY <2>1, <2>2
<1>6. ASSUME NEW k \in 1..n, k - 1 \in S PROVE k \in S
  <2>1. k \in 0..n /\ \A j \in 0..(k - 1) : Good(j)
    BY <1>6
  <2>2. Good(k)
    BY <1>3, <1>4, <2>1
  <2>3. ASSUME NEW j \in 0..k PROVE Good(j)
    <3>1. j \in 0..(k - 1) \/ j = k
      OBVIOUS
    <3> QED
      BY <2>1, <2>2, <3>1
  <2> QED
    BY <2>1, <2>3
<1> HIDE DEF S
<1>7. \A k \in 0..n : k \in S
  BY <1>5, <1>6, BoundedInduction
<1>8. Good(n)
  <2>1. n \in 0..n
    OBVIOUS
  <2> QED
    BY <1>7, <2>1 DEF S
<1>9. DecimalText(n) \in Seq(D)
  BY <1>1, <1>8 DEF Good
<1>10. DecimalText(n) \in Seq(Byte)
  <2>1. D \subseteq Byte
    OBVIOUS
  <2> HIDE DEF D
  <2> QED
    BY <1>9, <2>1, SeqMonotonic
<1>11. \A i \in 1..Len(DecimalText(n)) : IsDigit(DecimalText(n)[i])
  <2>1. \A i \in 1..Len(DecimalText(n)) : DecimalText(n)[i] \in D
    <3> HIDE DEF D
    <3> QED
      BY <1>9, ElementOfSeq
  <2> QED
    BY <2>1
<1>12. SizeForInt(n) = IF n = 0 THEN 1 ELSE count[n]
  BY <1>2, <1>8 DEF SizeForInt, Good
<1> QED
  BY <1>1, <1>8, <1>10, <1>11, <1>12 DEF Good

-----------------------------------------------------------------------------
(* Texts: sequences of bytes put together.                                 *)

\* Two texts, one behind the other.
LEMMA Cat ==
  ASSUME NEW a \in Seq(Byte), NEW b \in Seq(Byte)
  PROVE  /\ a \o b \in Seq(Byte) /\ Len(a) \in Nat /\ Len(b) \in Nat
         /\ Len(a \o b) = Len(a) + Len(b)
BY ConcatProperties, LenProperties

\* Which of three texts are put together first does not matter.
LEMMA CatAssociative ==
  ASSUME NEW a \in Seq(Byte), NEW b \in Seq(Byte), NEW c \in Seq(Byte)
  PROVE  (a \o b) \o c = a \o (b \o c)
BY ConcatAssociative

\* The law with a name: an equality is no pattern to the provers.
Assoc(a, b, c) == (a \o b) \o c = a \o (b \o c)

LEMMA CatAssoc ==
  ASSUME NEW a \in Seq(Byte), NEW b \in Seq(Byte), NEW c \in Seq(Byte)
  PROVE  Assoc(a, b, c)
BY CatAssociative DEF Assoc

\* The empty text adds nothing.
LEMMA CatEmpty ==
  ASSUME NEW a \in Seq(Byte)
  PROVE  a \o <<>> = a /\ <<>> \o a = a
BY ConcatEmptySeq

\* The bytes of the first text come first ...
LEMMA CatFirst ==
  ASSUME NEW a \in Seq(Byte), NEW b \in Seq(Byte), NEW i \in 1..Len(a)
  PROVE  (a \o b)[i] = a[i]
<1>1. PICK n \in Nat, m \in Nat : n = Len(a) /\ m = Len(b)
  BY LenProperties
<1>2. \A j \in 1..(Len(a) + Len(b)) : (a \o b)[j] = IF j <= Len(a) THEN a[j] ELSE b[j - Len(a)]
  BY ConcatProperties
<1>3. i \in 1..(n + m) /\ i <= n
  BY <1>1
<1> QED
  BY <1>1, <1>2, <1>3

\* ... and those of the second behind them.
LEMMA CatSecond ==
  ASSUME NEW a \in Seq(Byte), NEW b \in Seq(Byte), NEW i \in 1..Len(b)
  PROVE  (a \o b)[Len(a) + i] = b[i]
<1>1. PICK n \in Nat, m \in Nat : n = Len(a) /\ m = Len(b)
  BY LenProperties
<1>2. \A j \in 1..(Len(a) + Len(b)) : (a \o b)[j] = IF j <= Len(a) THEN a[j] ELSE b[j - Len(a)]
  BY ConcatProperties
<1>3. n + i \in 1..(n + m) /\ ~(n + i <= n) /\ (n + i) - n = i
  BY <1>1
<1> QED
  BY <1>1, <1>2, <1>3

\* A text behind a byte.
LEMMA CatTail ==
  ASSUME NEW m \in Byte, NEW a \in Seq(Byte)
  PROVE  LET s == <<m>> \o a
         IN s \in Seq(Byte) /\ s # <<>> /\ s[1] = m /\ Tail(s) = a /\ Len(s) = 1 + Len(a)
<1>1. <<m>> \in Seq(Byte) /\ Len(<<m>>) = 1 /\ <<m>>[1] = m
  OBVIOUS
<1>2. PICK n \in Nat : n = Len(a)
  BY LenProperties
<1>3. PICK s \in Seq(Byte) : s = <<m>> \o a /\ Len(s) = 1 + n
  BY <1>1, <1>2, Cat
<1>4. s # <<>>
  BY <1>3, EmptySeq
<1>5. s[1] = m
  <2>1. 1 \in 1..Len(<<m>>)
    BY <1>1
  <2>2. (<<m>> \o a)[1] = <<m>>[1]
    BY <1>1, <2>1, CatFirst
  <2> QED
    BY <1>1, <1>3, <2>2
<1>6. Tail(s) = a
  <2>1. /\ Tail(s) \in Seq(Byte) /\ Len(Tail(s)) = Len(s) - 1
        /\ \A i \in 1..Len(Tail(s)) : Tail(s)[i] = s[i + 1]
    BY <1>4, HeadTailProperties
  <2>2. Len(Tail(s)) = n
    BY <1>3, <2>1
  <2>3. ASSUME NEW i \in 1..n PROVE Tail(s)[i] = a[i]
    <3>1. (<<m>> \o a)[Len(<<m>>) + i] = a[i]
      BY <1>1, <1>2, CatSecond
    <3>2. Len(<<m>>) + i = i + 1
      BY <1>1
    <3>3. Tail(s)[i] = s[i + 1]
      BY <2>1, <2>2
    <3> QED
      BY <1>3, <3>1, <3>2, <3>3
  <2> QED
    BY <1>2, <2>1, <2>2, <2>3, SeqEqual
<1> QED
  BY <1>2, <1>3, <1>4, <1>5, <1>6

\* What two texts put together are cut into again.
LEMMA Halves ==
  ASSUME NEW a \in Seq(Byte), NEW b \in Seq(Byte)
  PROVE  /\ SubSeq(a \o b, 1, Len(a)) = a
         /\ From(a \o b, Len(a) + 1) = b
<1>1. PICK n \in Nat, m \in Nat : n = Len(a) /\ m = Len(b)
  BY LenProperties
<1>2. PICK s \in Seq(Byte) : s = a \o b /\ Len(s) = n + m
  BY <1>1, Cat
<1>3. SubSeq(s, 1, n) = a
  <2>1. \A i \in 1..n : s[i] = a[i] /\ a[i] \in Byte
    BY <1>1, <1>2, CatFirst, ElementOfSeq
  <2>2. /\ SubSeq(s, 1, n) \in Seq(Byte)
        /\ Len(SubSeq(s, 1, n)) = IF 1 <= n THEN n - 1 + 1 ELSE 0
        /\ \A i \in 1..(n - 1 + 1) : SubSeq(s, 1, n)[i] = s[1 + i - 1]
    <3>1. \A i \in 1..n : s[i] \in Byte
      BY <2>1
    <3> QED
      BY <3>1, SubSeqProperties
  <2>3. PICK c \in Seq(Byte) : /\ c = SubSeq(s, 1, n)
                               /\ Len(c) = IF 1 <= n THEN n - 1 + 1 ELSE 0
                               /\ \A i \in 1..(n - 1 + 1) : c[i] = s[1 + i - 1]
    BY <2>2
  <2>4. Len(c) = n
    BY <2>3
  <2>5. \A i \in 1..n : c[i] = a[i]
    <3>1. \A i \in 1..n : i \in 1..(n - 1 + 1) /\ 1 + i - 1 = i
      OBVIOUS
    <3> QED
      BY <2>1, <2>3, <3>1
  <2> QED
    BY <1>1, <2>3, <2>4, <2>5, SeqEqual
<1>4. SubSeq(s, n + 1, n + m) = b
  <2>1. \A i \in 1..m : s[n + i] = b[i] /\ b[i] \in Byte
    BY <1>1, <1>2, CatSecond, ElementOfSeq
  <2>2. \A i \in (n + 1)..(n + m) : s[i] \in Byte
    BY <1>2, ElementOfSeq
  <2>3. /\ SubSeq(s, n + 1, n + m) \in Seq(Byte)
        /\ Len(SubSeq(s, n + 1, n + m)) = IF n + 1 <= n + m THEN (n + m) - (n + 1) + 1 ELSE 0
        /\ \A i \in 1..((n + m) - (n + 1) + 1) : SubSeq(s, n + 1, n + m)[i] = s[(n + 1) + i - 1]
    <3>1. n + 1 \in Int /\ n + m \in Int
      OBVIOUS
    <3> QED
      BY <2>2, <3>1, SubSeqProperties
  <2>4. PICK c \in Seq(Byte) : /\ c = SubSeq(s, n + 1, n + m)
                               /\ Len(c) = IF n + 1 <= n + m THEN (n + m) - (n + 1) + 1 ELSE 0
                               /\ \A i \in 1..((n + m) - (n + 1) + 1) : c[i] = s[(n + 1) + i - 1]
    BY <2>3
  <2>5. Len(c) = m
    BY <2>4
  <2>6. \A i \in 1..m : c[i] = b[i]
    <3>1. \A i \in 1..m : i \in 1..((n + m) - (n + 1) + 1) /\ (n + 1) + i - 1 = n + i
      OBVIOUS
    <3> QED
      BY <2>1, <2>4, <3>1
  <2> QED
    BY <1>1, <2>4, <2>5, <2>6, SeqEqual
<1> QED
  BY <1>1, <1>2, <1>3, <1>4 DEF From

\* What is behind a text is one thing only.
LEMMA CatCancel ==
  ASSUME NEW a \in Seq(Byte), NEW b \in Seq(Byte), NEW c \in Seq(Byte), a \o b = a \o c
  PROVE  b = c
<1>1. From(a \o b, Len(a) + 1) = b
  BY Halves
<1>2. From(a \o c, Len(a) + 1) = c
  BY Halves
<1> QED
  BY <1>1, <1>2

\* s is a and, behind it, b.
Joined(s, a, b) == s = a \o b

\* Of two cuts through a text, one is the first.
LEMMA CutTwice ==
  ASSUME NEW a \in Seq(Byte), NEW b \in Seq(Byte), NEW c \in Seq(Byte), NEW d \in Seq(Byte),
         NEW s, Joined(s, a, b), Joined(s, c, d), Len(a) <= Len(c)
  PROVE  \E m \in Seq(Byte) : Joined(c, a, m) /\ Joined(b, m, d)
<1> USE DEF Joined
<1>1. PICK n \in Nat, l \in Nat : n = Len(a) /\ l = Len(c) /\ n <= l
  BY LenProperties
<1>2. PICK m \in Seq(Byte) : m = SubSeq(c, n + 1, l)
  <2>1. n + 1 \in 1..(Len(c) + 1)
    BY <1>1
  <2> QED
    BY <1>1, <2>1, FromType DEF From
<1>3. SubSeq(c, 1, n) = a
  <2>1. CASE n = 0
    <3>1. SubSeq(c, 1, n) = <<>>
      BY <2>1, SubSeqEmpty
    <3>2. a = <<>>
      BY <1>1, <2>1, EmptySeq
    <3> QED
      BY <3>1, <3>2
  <2>2. CASE n # 0
    <3>1. 1 \in 1..Len(c) /\ n \in 1..Len(c)
      BY <1>1, <2>2
    <3>2. SubSeq(c \o d, 1, n) = SubSeq(c, 1, n)
      BY <3>1, SubSeqOfConcat1
    <3>3. SubSeq(a \o b, 1, n) = a
      BY <1>1, Halves
    <3> QED
      BY <3>2, <3>3
  <2> QED
    BY <2>1, <2>2
<1>4. c = a \o m
  <2>1. 1 \in 1..(Len(c) + 1) /\ n \in (1 - 1)..Len(c) /\ Len(c) \in n..Len(c)
    BY <1>1
  <2>2. SubSeq(c, 1, n) \o SubSeq(c, n + 1, Len(c)) = SubSeq(c, 1, Len(c))
    BY <2>1, ConcatAdjacentSubSeq
  <2>3. SubSeq(c, 1, Len(c)) = c
    BY SubSeqFull
  <2> QED
    BY <1>1, <1>2, <1>3, <2>2, <2>3
<1>5. b = m \o d
  <2>1. (a \o m) \o d = a \o (m \o d)
    BY CatAssociative
  <2>2. m \o d \in Seq(Byte)
    BY Cat
  <2>3. a \o b = a \o (m \o d)
    BY <1>4, <2>1
  <2> QED
    BY <2>2, <2>3, CatCancel
<1> QED
  BY <1>4, <1>5

-----------------------------------------------------------------------------
(* Lines.                                                                  *)

\* The terminator is two bytes ...
LEMMA TerminatorIs ==
  Terminator \in Seq(Byte) /\ Len(Terminator) = 2 /\ Terminator[1] = CR /\ Terminator[2] = LF
<1>1. CR \in Byte /\ LF \in Byte
  BY ByteAssumption
<1> QED
  BY <1>1 DEF Terminator

\* ... which differ.
LEMMA BytesDiffer ==
  CR # LF
BY DEF CR, LF

\* A text in which no terminator is found has none ...
LEMMA FoundNone ==
  ASSUME NEW s \in Seq(Byte)
  PROVE  Found(s) = 0 <=> \A i \in 1..(Len(s) - 1) : ~(s[i] = CR /\ s[i + 1] = LF)
<1>1. PICK at : at = {i \in 1..(Len(s) - 1) : s[i] = CR /\ s[i + 1] = LF}
  OBVIOUS
<1>2. CASE at = {}
  <2>1. Found(s) = 0
    BY <1>1, <1>2 DEF Found
  <2>2. ASSUME NEW i \in 1..(Len(s) - 1), s[i] = CR /\ s[i + 1] = LF PROVE FALSE
    BY <1>1, <1>2, <2>2
  <2> QED
    BY <2>1, <2>2
<1>3. CASE at # {}
  <2>1. \E i \in at : \A j \in at : i <= j
    <3>1. at \subseteq Nat
      BY <1>1
    <3> QED
      BY <1>3, <3>1, Least
  <2>2. Found(s) \in at
    BY <1>1, <1>3, <2>1 DEF Found
  <2>3. Found(s) # 0
    BY <1>1, <2>2
  <2> QED
    BY <1>1, <2>2, <2>3
<1> QED
  BY <1>2, <1>3

\* ... and what is found is the first one.
LEMMA FoundFirst ==
  ASSUME NEW s \in Seq(Byte), NEW i \in 1..(Len(s) - 1), s[i] = CR, s[i + 1] = LF,
         \A j \in 1..(i - 1) : ~(s[j] = CR /\ s[j + 1] = LF)
  PROVE  Found(s) = i
<1>1. PICK at : at = {j \in 1..(Len(s) - 1) : s[j] = CR /\ s[j + 1] = LF}
  OBVIOUS
<1>2. i \in at
  BY <1>1
<1>3. ASSUME NEW j \in at PROVE i <= j
  <2>1. j \in Int /\ i \in Int /\ 1 <= j /\ s[j] = CR /\ s[j + 1] = LF
    BY <1>1
  <2>2. ~(j \in 1..(i - 1))
    BY <2>1
  <2> QED
    BY <2>1, <2>2
<1>4. PICK f : f = Found(s) /\ f \in at /\ \A j \in at : f <= j
  <2>1. \E f \in at : \A j \in at : f <= j
    BY <1>2, <1>3
  <2> QED
    BY <1>1, <1>2, <2>1 DEF Found
<1>5. f \in Nat
  BY <1>1, <1>4
<1>6. i <= f /\ f <= i
  BY <1>2, <1>3, <1>4
<1> QED
  BY <1>4, <1>5, <1>6

\* A line behind which the buffer goes on.
LEMMA LineParts ==
  ASSUME NEW t \in Seq(Byte), NEW rest \in Seq(Byte)
  PROVE  LET s == t \o (Terminator \o rest)
         IN  /\ s \in Seq(Byte) /\ Len(s) = Len(t) + 2 + Len(rest)
             /\ \A i \in 1..Len(t) : s[i] = t[i]
             /\ s[Len(t) + 1] = CR /\ s[Len(t) + 2] = LF
<1>1. PICK n \in Nat, m \in Nat : n = Len(t) /\ m = Len(rest)
  BY LenProperties
<1>2. PICK u : u = Terminator \o rest
  OBVIOUS
<1>3. u \in Seq(Byte) /\ Len(u) = 2 + m
  BY <1>1, <1>2, TerminatorIs, Cat
<1>4. u[1] = CR /\ u[2] = LF
  <2>1. 1 \in 1..Len(Terminator) /\ 2 \in 1..Len(Terminator)
    BY TerminatorIs
  <2>2. (Terminator \o rest)[1] = Terminator[1] /\ (Terminator \o rest)[2] = Terminator[2]
    BY <2>1, TerminatorIs, CatFirst
  <2> QED
    BY <1>2, <2>2, TerminatorIs
<1>5. PICK s : s = t \o u
  OBVIOUS
<1>6. s \in Seq(Byte) /\ Len(s) = n + 2 + m
  <2>1. t \o u \in Seq(Byte) /\ Len(t \o u) = Len(t) + Len(u)
    BY <1>3, Cat
  <2> QED
    BY <1>1, <1>3, <1>5, <2>1
<1>7. \A i \in 1..Len(t) : s[i] = t[i]
  BY <1>3, <1>5, CatFirst
<1>8. s[n + 1] = CR /\ s[n + 2] = LF
  <2>1. 1 \in 1..Len(u) /\ 2 \in 1..Len(u)
    BY <1>3
  <2>2. (t \o u)[Len(t) + 1] = u[1] /\ (t \o u)[Len(t) + 2] = u[2]
    BY <1>3, <2>1, CatSecond
  <2> QED
    BY <1>1, <1>4, <1>5, <2>2
<1> QED
  BY <1>1, <1>2, <1>5, <1>6, <1>7, <1>8

\* A line is found as it was written.
LEMMA LineFound ==
  ASSUME NEW t \in Seq(Byte), Found(t) = 0, NEW rest \in Seq(Byte)
  PROVE  LET s == t \o (Terminator \o rest)
         IN  /\ s \in Seq(Byte) /\ Found(s) = Len(t) + 1
             /\ SubSeq(s, 1, Len(t)) = t
             /\ From(s, Len(t) + 3) = rest
<1>1. PICK n \in Nat, m \in Nat : n = Len(t) /\ m = Len(rest)
  BY LenProperties
<1>2. PICK s : s = t \o (Terminator \o rest)
  OBVIOUS
<1>3. /\ s \in Seq(Byte) /\ Len(s) = n + 2 + m
      /\ \A i \in 1..n : s[i] = t[i]
      /\ s[n + 1] = CR /\ s[n + 2] = LF
  BY <1>1, <1>2, LineParts
<1>4. Found(s) = n + 1
  <2>1. n + 1 \in 1..(Len(s) - 1) /\ (n + 1) + 1 = n + 2
    BY <1>3
  <2>2. ASSUME NEW j \in 1..((n + 1) - 1) PROVE ~(s[j] = CR /\ s[j + 1] = LF)
    <3>1. CASE j = n
      <4>1. s[j + 1] = CR
        BY <1>3, <3>1
      <4> QED
        BY <4>1, BytesDiffer
    <3>2. CASE j # n
      <4>1. j \in 1..(n - 1) /\ j \in 1..n /\ j + 1 \in 1..n
        BY <3>2
      <4>2. ~(t[j] = CR /\ t[j + 1] = LF)
        BY <1>1, <4>1, FoundNone
      <4>3. s[j] = t[j] /\ s[j + 1] = t[j + 1]
        BY <1>3, <4>1
      <4> QED
        BY <4>2, <4>3
    <3> QED
      BY <3>1, <3>2
  <2>3. s[n + 1] = CR /\ s[(n + 1) + 1] = LF
    BY <1>3, <2>1
  <2> HIDE DEF CR, LF
  <2> QED
    BY <1>3, <2>1, <2>2, <2>3, FoundFirst
<1>5. Terminator \o rest \in Seq(Byte)
  BY TerminatorIs, Cat
<1>6. SubSeq(s, 1, n) = t
  BY <1>1, <1>2, <1>5, Halves
<1>7. From(s, n + 3) = rest
  <2>1. t \o Terminator \in Seq(Byte) /\ Len(t \o Terminator) = n + 2
    <3>1. t \o Terminator \in Seq(Byte) /\ Len(t \o Terminator) = Len(t) + Len(Terminator)
      BY TerminatorIs, Cat, Zenon
    <3> QED
      BY <1>1, <3>1, TerminatorIs
  <2>2. s = (t \o Terminator) \o rest
    BY <1>2, TerminatorIs, CatAssociative
  <2>3. From((t \o Terminator) \o rest, Len(t \o Terminator) + 1) = rest
    BY <2>1, Halves
  <2>4. Len(t \o Terminator) + 1 = n + 3
    BY <2>1
  <2> QED
    BY <2>2, <2>3, <2>4
<1> QED
  BY <1>1, <1>2, <1>3, <1>4, <1>6, <1>7

\* In what comes before the end of a line no terminator is found.
LEMMA LineCut ==
  ASSUME NEW t \in Seq(Byte), Found(t) = 0, NEW p \in Seq(Byte), NEW q \in Seq(Byte), q # <<>>,
         p \o q = t \o Terminator
  PROVE  Found(p) = 0
<1>1. PICK n \in Nat, m \in Nat : n = Len(t) /\ m = Len(p)
  BY LenProperties
<1>2. PICK k \in Nat : k = Len(q) /\ k # 0
  BY EmptySeq
<1>3. PICK s : s = t \o Terminator
  OBVIOUS
<1>4. s \in Seq(Byte) /\ Len(s) = n + 2
  <2>1. t \o Terminator \in Seq(Byte) /\ Len(t \o Terminator) = Len(t) + Len(Terminator)
    BY TerminatorIs, Cat
  <2> QED
    BY <1>1, <1>3, <2>1, TerminatorIs
<1>5. \A i \in 1..n : s[i] = t[i]
  BY <1>1, <1>3, TerminatorIs, CatFirst
<1>6. s[n + 1] = CR
  <2>1. 1 \in 1..Len(Terminator)
    BY TerminatorIs
  <2>2. (t \o Terminator)[Len(t) + 1] = Terminator[1]
    BY <2>1, TerminatorIs, CatSecond
  <2> QED
    BY <1>1, <1>3, <2>2, TerminatorIs
<1>7. \A i \in 1..m : s[i] = p[i]
  BY <1>1, <1>3, CatFirst
<1>8. m <= n + 1
  <2>1. Len(p \o q) = m + k
    BY <1>1, <1>2, Cat
  <2> QED
    BY <1>2, <1>3, <1>4, <2>1
<1>9. ASSUME NEW i \in 1..(m - 1) PROVE ~(p[i] = CR /\ p[i + 1] = LF)
  <2>1. i \in 1..m /\ i + 1 \in 1..m /\ i \in 1..n
    BY <1>8
  <2>2. p[i] = s[i] /\ p[i + 1] = s[i + 1] /\ s[i] = t[i]
    BY <1>5, <1>7, <2>1
  <2>3. CASE i = n
    <3>1. p[i + 1] = CR
      BY <1>6, <2>2, <2>3
    <3> QED
      BY <3>1, BytesDiffer
  <2>4. CASE i # n
    <3>1. i \in 1..(n - 1) /\ i + 1 \in 1..n
      BY <2>1, <2>4
    <3>2. ~(t[i] = CR /\ t[i + 1] = LF)
      BY <1>1, <3>1, FoundNone
    <3>3. s[i + 1] = t[i + 1]
      BY <1>5, <3>1
    <3> QED
      BY <2>2, <3>2, <3>3
  <2> QED
    BY <2>3, <2>4
<1> QED
  BY <1>1, <1>9, FoundNone

-----------------------------------------------------------------------------
(* What the parsers make of what a server wrote, and of the beginning of   *)
(* it.                                                                     *)

\* No line ends in a text without carriage returns.
LEMMA FoundNoCR ==
  ASSUME NEW s \in Seq(Byte), \A i \in 1..Len(s) : s[i] # CR
  PROVE  Found(s) = 0
<1>1. Len(s) \in Nat
  BY LenProperties
<1>2. \A i \in 1..(Len(s) - 1) : i \in 1..Len(s)
  BY <1>1
<1> QED
  BY <1>2, FoundNone

\* A number is read as it was written.
LEMMA NumberTextIs ==
  ASSUME NEW i \in Int
  PROVE  /\ NumberText(i) \in Seq(Byte) /\ Found(NumberText(i)) = 0
         /\ IsNumber(NumberText(i)) /\ ToNumber(NumberText(i)) = i
<1>1. CASE i >= 0
  <2>1. i \in Nat
    BY <1>1
  <2>2. PICK t \in Seq(Byte) : /\ t = DecimalText(i) /\ Len(t) \in Nat \ {0}
                               /\ \A k \in 1..Len(t) : IsDigit(t[k])
                               /\ DecimalValue(t) = i
    BY <2>1, DecimalTextIs
  <2>3. NumberText(i) = t
    BY <1>1, <2>2 DEF NumberText
  <2>4. t # <<>>
    BY <2>2, EmptySeq
  <2>5. \A k \in 1..Len(t) : t[k] # CR /\ t[k] # "-" /\ t[k] # "+"
    BY <2>2, DigitIs
  <2>6. t[1] # "-" /\ t[1] # "+"
    <3>1. 1 \in 1..Len(t)
      BY <2>2
    <3> QED
      BY <2>5, <3>1
  <2>7. Unsigned(t) = t
    BY <2>6 DEF Unsigned
  <2>8. Found(t) = 0
    BY <2>5, FoundNoCR
  <2>9. IsNumber(t)
    BY <2>2, <2>4, <2>7 DEF IsNumber
  <2>10. ToNumber(t) = i
    BY <2>2, <2>6, <2>7 DEF ToNumber
  <2> QED
    BY <2>3, <2>8, <2>9, <2>10
<1>2. CASE ~(i >= 0)
  <2>1. PICK n \in Nat : n = 0 - i
    BY <1>2
  <2>2. PICK t \in Seq(Byte) : /\ t = DecimalText(n) /\ Len(t) \in Nat \ {0}
                               /\ \A k \in 1..Len(t) : IsDigit(t[k])
                               /\ DecimalValue(t) = n
    BY <2>1, DecimalTextIs
  <2>3. "-" \in Byte
    BY ByteAssumption
  <2>4. PICK s \in Seq(Byte) : /\ s = <<"-">> \o t /\ s # <<>> /\ s[1] = "-" /\ Tail(s) = t
                               /\ Len(s) = 1 + Len(t)
    BY <2>3, CatTail
  <2>5. NumberText(i) = s
    <3>1. i < 0
      BY <1>2
    <3> QED
      BY <2>1, <2>2, <2>4, <3>1 DEF NumberText
  <2>6. Unsigned(s) = t
    BY <2>4 DEF Unsigned
  <2>7. t # <<>>
    BY <2>2, EmptySeq
  <2>8. Found(s) = 0
    <3>1. ASSUME NEW k \in 1..Len(s) PROVE s[k] # CR
      <4>1. CASE k = 1
        BY <2>4, <4>1 DEF CR
      <4>2. CASE k # 1
        <5>1. PICK j \in 1..Len(t) : k = j + 1
          <6>1. Len(t) \in Nat /\ k - 1 \in 1..Len(t) /\ k = (k - 1) + 1
            BY <2>2, <2>4, <4>2
          <6> QED
            BY <6>1
        <5>2. s[k] = t[j]
          <6>1. <<"-">> \in Seq(Byte) /\ Len(<<"-">>) = 1
            BY <2>3
          <6>2. (<<"-">> \o t)[Len(<<"-">>) + j] = t[j]
            BY <6>1, CatSecond
          <6>3. Len(<<"-">>) + j = k
            BY <5>1, <6>1
          <6> QED
            BY <2>4, <6>2, <6>3
        <5> QED
          BY <2>2, <5>2, DigitIs
      <4> QED
        BY <4>1, <4>2
    <3> QED
      BY <3>1, FoundNoCR
  <2>9. IsNumber(s)
    BY <2>2, <2>6, <2>7 DEF IsNumber
  <2>10. ToNumber(s) = i
    <3>1. ToNumber(s) = 0 - n
      BY <2>2, <2>4 DEF ToNumber
    <3> QED
      BY <2>1, <3>1
  <2> QED
    BY <2>5, <2>8, <2>9, <2>10
<1> QED
  BY <1>1, <1>2

\* A line is read as its text ...
LEMMA StringRead ==
  ASSUME NEW t \in Seq(Byte), Found(t) = 0, NEW rest \in Seq(Byte), NEW before \in Nat
  PROVE  StringParser(t \o (Terminator \o rest), before) = Positive(Str(t), Len(t) + 2 + before)
<1>1. PICK n \in Nat : n = Len(t)
  BY LenProperties
<1>2. PICK s : s = t \o (Terminator \o rest)
  OBVIOUS
<1>3. Found(s) = n + 1 /\ SubSeq(s, 1, n) = t
  BY <1>1, <1>2, LineFound
<1>4. n + 1 # 0 /\ (n + 1) - 1 = n /\ (n + 1) + 1 + before = n + 2 + before
  OBVIOUS
<1>5. StringParser(s, before) = Positive(Str(t), n + 2 + before)
  BY <1>3, <1>4 DEF StringParser
<1> QED
  BY <1>1, <1>2, <1>5

\* ... and not before it is complete.
LEMMA StringCut ==
  ASSUME NEW t \in Seq(Byte), Found(t) = 0, NEW p \in Seq(Byte), NEW q \in Seq(Byte), q # <<>>,
         p \o q = t \o Terminator, NEW before \in Nat
  PROVE  StringParser(p, before) = ProtocolError("not_enough_data")
<1>1. Found(p) = 0
  BY LineCut
<1> QED
  BY <1>1 DEF StringParser

\* A number is read back, whatever is behind it.
LEMMA IntRead ==
  ASSUME NEW i \in Int, NEW rest \in Seq(Byte), NEW before \in Nat
  PROVE  IntParser(NumberText(i) \o (Terminator \o rest), before) =
           Positive(Number(i), Len(NumberText(i)) + 2 + before)
<1>1. PICK t \in Seq(Byte) : t = NumberText(i) /\ Found(t) = 0 /\ IsNumber(t) /\ ToNumber(t) = i
  BY NumberTextIs
<1>2. PICK n : n = Len(t) + 2 + before
  OBVIOUS
<1>3. StringParser(t \o (Terminator \o rest), before) = Positive(Str(t), n)
  BY <1>1, <1>2, StringRead
<1>4. IntParser(t \o (Terminator \o rest), before) = Positive(Number(i), n)
  <2>1. PICK s : s = t \o (Terminator \o rest)
    OBVIOUS
  <2>2. StringParser(s, before) = Positive(Str(t), n)
    BY <1>3, <2>1
  <2>3. IntParser(s, before) = Positive(Number(i), n)
    BY <1>1, <2>2 DEF IntParser, IsPositive, Positive, Str
  <2> QED
    BY <2>1, <2>3
<1> QED
  BY <1>1, <1>2, <1>4

\* So is the count before a bulk string or an array.
LEMMA CountRead ==
  ASSUME NEW i \in Int, i >= -1, NEW rest \in Seq(Byte), NEW before \in Nat
  PROVE  LET s == NumberText(i) \o (Terminator \o rest)
             p == Counted(s, before)
         IN  /\ p = Positive(IF i = -1 THEN Nil ELSE Number(i), Len(NumberText(i)) + 2 + before)
             /\ IsSize(p) <=> i # -1
             /\ From(s, p.consumed - before + 1) = rest
<1>1. PICK t \in Seq(Byte) : t = NumberText(i) /\ Found(t) = 0
  BY NumberTextIs
<1>2. PICK l \in Nat : l = Len(t)
  BY LenProperties
<1>3. PICK n \in Nat : n = l + 2 + before
  BY <1>2
<1>4. PICK s : s = t \o (Terminator \o rest)
  OBVIOUS
<1>5. IntParser(s, before) = Positive(Number(i), n)
  BY <1>1, <1>2, <1>3, <1>4, IntRead
<1>6. From(s, l + 3) = rest
  BY <1>1, <1>2, <1>4, LineFound
<1>7. PICK p : p = Counted(s, before)
  OBVIOUS
<1>8. CASE i = -1
  <2>1. p = Positive(Nil, n)
    BY <1>5, <1>7, <1>8 DEF Counted, IsPositive, Positive, Number
  <2>2. ~IsSize(p)
    BY <2>1 DEF IsSize, Positive
  <2>3. p.consumed - before + 1 = l + 3
    BY <1>3, <2>1 DEF Positive
  <2> QED
    BY <1>1, <1>2, <1>3, <1>4, <1>6, <1>7, <1>8, <2>1, <2>2, <2>3
<1>9. CASE i # -1
  <2>1. i >= 0
    BY <1>9
  <2>2. p = Positive(Number(i), n)
    BY <1>5, <1>7, <2>1 DEF Counted, IsPositive, Positive, Number
  <2>3. IsSize(p)
    BY <2>2 DEF IsSize, IsPositive, Positive, Number, Nil
  <2>4. p.consumed - before + 1 = l + 3
    BY <1>3, <2>2 DEF Positive
  <2> QED
    BY <1>1, <1>2, <1>3, <1>4, <1>6, <1>7, <1>9, <2>2, <2>3, <2>4
<1> QED
  BY <1>8, <1>9

\* Neither is read before its line is complete.
LEMMA CountCut ==
  ASSUME NEW i \in Int, NEW p \in Seq(Byte), NEW q \in Seq(Byte), q # <<>>,
         p \o q = NumberText(i) \o Terminator, NEW before \in Nat
  PROVE  /\ IntParser(p, before) = ProtocolError("not_enough_data")
         /\ Counted(p, before) = ProtocolError("not_enough_data")
         /\ ~IsSize(Counted(p, before))
<1>1. PICK t \in Seq(Byte) : t = NumberText(i) /\ Found(t) = 0
  BY NumberTextIs
<1>2. StringParser(p, before) = ProtocolError("not_enough_data")
  BY <1>1, StringCut
<1>3. IntParser(p, before) = ProtocolError("not_enough_data")
  BY <1>2 DEF IntParser, IsPositive, ProtocolError
<1>4. Counted(p, before) = ProtocolError("not_enough_data")
  BY <1>3 DEF Counted, IsPositive, ProtocolError
<1> QED
  BY <1>3, <1>4 DEF IsSize, IsPositive, ProtocolError

\* A text followed by another one and a terminator.
LEMMA BulkRead ==
  ASSUME NEW t \in Seq(Byte), NEW rest \in Seq(Byte), NEW before \in Nat
  PROVE  BulkStringParser(NumberText(Len(t)) \o (Terminator \o (t \o (Terminator \o rest))), before) =
           Positive(Str(t), Len(NumberText(Len(t))) + 2 + before + Len(t) + 2)
<1>1. PICK c \in Nat : c = Len(t)
  BY LenProperties
<1>2. PICK u : u = Terminator \o rest
  OBVIOUS
<1>3. u \in Seq(Byte) /\ Len(u) = 2 + Len(rest) /\ Len(rest) \in Nat
  BY <1>2, TerminatorIs, Cat
<1>4. PICK body : body = t \o u
  OBVIOUS
<1>5. body \in Seq(Byte) /\ Len(body) = c + Len(u)
  <2>1. t \o u \in Seq(Byte) /\ Len(t \o u) = Len(t) + Len(u)
    BY <1>3, Cat
  <2> QED
    BY <1>1, <1>4, <2>1
<1>6. SubSeq(body, 1, c) = t
  BY <1>1, <1>3, <1>4, Halves
<1>7. SubSeq(body, c + 1, c + 2) = Terminator
  <2>1. c + 1 \in (Len(t) + 1)..(Len(t) + Len(u)) /\ c + 2 \in (Len(t) + 1)..(Len(t) + Len(u))
    BY <1>1, <1>3
  <2>2. SubSeq(t \o u, c + 1, c + 2) = SubSeq(u, (c + 1) - Len(t), (c + 2) - Len(t))
    BY <1>3, <2>1, SubSeqOfConcat2
  <2>3. (c + 1) - Len(t) = 1 /\ (c + 2) - Len(t) = 2
    BY <1>1
  <2>4. SubSeq(Terminator \o rest, 1, Len(Terminator)) = Terminator
    BY TerminatorIs, Halves
  <2>5. SubSeq(u, 1, 2) = Terminator
    BY <1>2, <2>4, TerminatorIs
  <2> QED
    BY <1>4, <2>2, <2>3, <2>5
<1>8. PICK s : s = NumberText(c) \o (Terminator \o body)
  OBVIOUS
<1>9. PICK n : n = Len(NumberText(c)) + 2 + before
  OBVIOUS
<1>10. PICK p : p = Counted(s, before)
  OBVIOUS
<1>11. p = Positive(Number(c), n) /\ IsSize(p) /\ From(s, p.consumed - before + 1) = body
  <2>1. c \in Int /\ c >= -1 /\ c # -1
    OBVIOUS
  <2> QED
    BY <1>5, <1>8, <1>9, <1>10, <2>1, CountRead
<1>12. p.value.int = c /\ p.consumed = n
  BY <1>11 DEF Positive, Number
<1>13. BulkBody(s, before, p) = Positive(Str(t), n + c + 2)
  <2>1. ~(Len(body) < c + 2)
    BY <1>3, <1>5
  <2> QED
    BY <1>6, <1>7, <1>11, <1>12, <2>1 DEF BulkBody
<1>14. BulkStringParser(s, before) = Positive(Str(t), n + c + 2)
  BY <1>10, <1>11, <1>13 DEF BulkStringParser
<1> QED
  BY <1>1, <1>2, <1>4, <1>8, <1>9, <1>14

\* The beginning of a text that starts with a line: part of the line, or the line
\* and the beginning of what is behind it.
LEMMA LineOrBehind ==
  ASSUME NEW t \in Seq(Byte), NEW w \in Seq(Byte), NEW p \in Seq(Byte), NEW q \in Seq(Byte),
         q # <<>>, Joined(t \o (Terminator \o w), p, q)
  PROVE  \/ \E m \in Seq(Byte) : m # <<>> /\ Joined(t \o Terminator, p, m)
         \/ \E m \in Seq(Byte) : Joined(p, t, Terminator \o m) /\ Joined(w, m, q)
<1>1. PICK h : h = t \o Terminator
  OBVIOUS
<1>2. PICK s : s = t \o (Terminator \o w)
  OBVIOUS
<1>3. h \in Seq(Byte) /\ s = h \o w
  <2>1. t \o Terminator \in Seq(Byte)
    BY TerminatorIs, Cat
  <2>2. (t \o Terminator) \o w = t \o (Terminator \o w)
    <3>1. Assoc(t, Terminator, w)
      BY TerminatorIs, CatAssoc, Zenon
    <3> QED
      BY <3>1, Zenon DEF Assoc
  <2> QED
    BY <1>1, <1>2, <2>1, <2>2
<1>4. Joined(s, h, w) /\ Joined(s, p, q)
  BY <1>2, <1>3 DEF Joined
<1>5. Len(h) \in Nat /\ Len(p) \in Nat
  BY <1>3, LenProperties
<1>6. CASE Len(p) < Len(h)
  <2>1. Len(p) <= Len(h)
    BY <1>5, <1>6
  <2>2. PICK m \in Seq(Byte) : Joined(h, p, m) /\ Joined(q, m, w)
    BY <1>3, <1>4, <2>1, CutTwice, Zenon
  <2>3. m # <<>>
    <3>1. ASSUME m = <<>> PROVE FALSE
      <4>1. h = p
        BY <2>2, <3>1, CatEmpty DEF Joined
      <4> QED
        BY <1>5, <1>6, <4>1
    <3> QED
      BY <3>1
  <2> QED
    BY <1>1, <2>2, <2>3
<1>7. CASE ~(Len(p) < Len(h))
  <2>1. Len(h) <= Len(p)
    BY <1>5, <1>7
  <2>2. PICK m \in Seq(Byte) : Joined(p, h, m) /\ Joined(w, m, q)
    BY <1>3, <1>4, <2>1, CutTwice, Zenon
  <2>3. p = t \o (Terminator \o m)
    <3>1. Assoc(t, Terminator, m)
      BY TerminatorIs, CatAssoc, Zenon
    <3>2. p = (t \o Terminator) \o m
      BY <1>1, <2>2, Zenon DEF Joined
    <3> QED
      BY <3>1, <3>2, Zenon DEF Assoc
  <2>4. Joined(p, t, Terminator \o m)
    BY <2>3 DEF Joined
  <2> QED
    BY <2>2, <2>4
<1> QED
  BY <1>6, <1>7

\* A bulk string is not read before its terminator, whatever its bytes.
LEMMA BulkCut ==
  ASSUME NEW t \in Seq(Byte), NEW p \in Seq(Byte), NEW q \in Seq(Byte), q # <<>>,
         Joined(NumberText(Len(t)) \o (Terminator \o (t \o Terminator)), p, q), NEW before \in Nat
  PROVE  BulkStringParser(p, before) = ProtocolError("not_enough_data")
<1>1. PICK c \in Nat : c = Len(t)
  BY LenProperties
<1>2. PICK h \in Seq(Byte) : h = NumberText(c)
  BY NumberTextIs
<1>3. PICK w : w = t \o Terminator
  OBVIOUS
<1>4. w \in Seq(Byte) /\ Len(w) = c + 2
  <2>1. t \o Terminator \in Seq(Byte) /\ Len(t \o Terminator) = Len(t) + Len(Terminator)
    BY TerminatorIs, Cat
  <2> QED
    BY <1>1, <1>3, <2>1, TerminatorIs
<1>5. Joined(h \o (Terminator \o w), p, q)
  BY <1>1, <1>2, <1>3
<1>6. CASE \E m \in Seq(Byte) : m # <<>> /\ Joined(h \o Terminator, p, m)
  <2>1. PICK m \in Seq(Byte) : m # <<>> /\ Joined(h \o Terminator, p, m)
    BY <1>6
  <2>2. /\ Counted(p, before) = ProtocolError("not_enough_data")
        /\ ~IsSize(Counted(p, before))
    <3>1. c \in Int /\ p \o m = NumberText(c) \o Terminator
      BY <1>2, <2>1 DEF Joined
    <3> QED
      BY <2>1, <3>1, CountCut
  <2> QED
    BY <2>2 DEF BulkStringParser
<1>7. CASE \E m \in Seq(Byte) : Joined(p, h, Terminator \o m) /\ Joined(w, m, q)
  <2>1. PICK m \in Seq(Byte) : Joined(p, h, Terminator \o m) /\ Joined(w, m, q)
    BY <1>7
  <2>2. Len(m) < c + 2
    <3>1. Len(q) \in Nat \ {0}
      BY EmptySeq
    <3>2. Len(m \o q) = Len(m) + Len(q) /\ Len(m) \in Nat
      BY Cat
    <3> QED
      BY <1>4, <2>1, <3>1, <3>2 DEF Joined
  <2>3. PICK d : d = Counted(p, before)
    OBVIOUS
  <2>4. /\ d = Positive(Number(c), Len(h) + 2 + before) /\ IsSize(d)
        /\ From(p, d.consumed - before + 1) = m
    <3>1. c \in Int /\ c >= -1 /\ c # -1
      OBVIOUS
    <3> QED
      BY <1>2, <2>1, <2>3, <3>1, CountRead DEF Joined
  <2>5. d.value.int = c
    BY <2>4 DEF Positive, Number
  <2>6. BulkBody(p, before, d) = ProtocolError("not_enough_data")
    BY <2>2, <2>4, <2>5 DEF BulkBody
  <2> QED
    BY <2>3, <2>4, <2>6 DEF BulkStringParser
<1>8. \/ \E m \in Seq(Byte) : m # <<>> /\ Joined(h \o Terminator, p, m)
      \/ \E m \in Seq(Byte) : Joined(p, h, Terminator \o m) /\ Joined(w, m, q)
  BY <1>2, <1>4, <1>5, LineOrBehind, Zenon
<1> QED
  BY <1>6, <1>7, <1>8

-----------------------------------------------------------------------------
(* Several texts, one behind the other, and arrays of what they say.       *)

\* A reply, of so many bytes, as raw_parse returns it.
Report(v, n) == IF v.type = "error" THEN ErrorReply(v.str, n) ELSE Positive(v, n)

\* w is read as v, whatever comes behind it ...
Reads(w, v) == \A rest \in Seq(Byte) : Raw[w \o rest] = Report(v, Len(w))

\* ... and not before it is complete.
Waits(w) == \A p, q \in Seq(Byte) : q # <<>> /\ Joined(w, p, q) =>
              Raw[p] = ProtocolError("not_enough_data")

\* text[k] is the first k of the n texts ws.
Texts(text, ws, n) ==
  /\ text[0] = <<>>
  /\ \A k \in 1..n : ws[k] \in Seq(Byte) /\ Joined(text[k], text[k - 1], ws[k])

\* Texts put together are texts.
LEMMA TextsType ==
  ASSUME NEW n \in Nat, NEW text, NEW ws, Texts(text, ws, n)
  PROVE  \A k \in 0..n : text[k] \in Seq(Byte)
<1> DEFINE S == {k \in 0..n : text[k] \in Seq(Byte)}
<1>1. 0 \in S
  <2>1. 0 \in 0..n
    OBVIOUS
  <2>2. text[0] \in Seq(Byte)
    BY EmptySeq DEF Texts
  <2> QED
    BY <2>1, <2>2
<1>2. ASSUME NEW k \in 1..n, k - 1 \in S PROVE k \in S
  <2>1. k \in 0..n
    OBVIOUS
  <2>2. text[k - 1] \in Seq(Byte)
    BY <1>2
  <2>3. ws[k] \in Seq(Byte) /\ Joined(text[k], text[k - 1], ws[k])
    BY DEF Texts
  <2>4. text[k - 1] \o ws[k] \in Seq(Byte)
    BY <2>2, <2>3, Cat
  <2>5. text[k] \in Seq(Byte)
    BY <2>3, <2>4 DEF Joined
  <2> QED
    BY <2>1, <2>5
<1> HIDE DEF S
<1>3. \A k \in 0..n : k \in S
  BY <1>1, <1>2, BoundedInduction
<1> QED
  BY <1>3 DEF S

\* Joining is associative.
LEMMA JoinedTwice ==
  ASSUME NEW a \in Seq(Byte), NEW b \in Seq(Byte), NEW c \in Seq(Byte), NEW s, NEW t,
         Joined(t, a, b), Joined(s, t, c)
  PROVE  Joined(s, a, b \o c)
<1>1. (a \o b) \o c = a \o (b \o c)
  BY CatAssociative
<1> QED
  BY <1>1 DEF Joined

\* The first of the texts are the beginning of all.
LEMMA TextsBegin ==
  ASSUME NEW n \in Nat, NEW text, NEW ws, Texts(text, ws, n)
  PROVE  \A k \in 0..n : \E tail \in Seq(Byte) : Joined(text[n], text[k], tail)
<1> DEFINE Begins(m, k) == \E tail \in Seq(Byte) : Joined(text[m], text[k], tail)
           S == {m \in 0..n : \A k \in 0..m : Begins(m, k)}
<1>1. \A m \in 0..n : text[m] \in Seq(Byte)
  BY TextsType
<1>2. ASSUME NEW m \in 0..n PROVE Begins(m, m)
  <2>1. Joined(text[m], text[m], <<>>)
    BY <1>1, CatEmpty DEF Joined
  <2>2. <<>> \in Seq(Byte)
    BY EmptySeq
  <2> QED
    BY <2>1, <2>2
<1>3. 0 \in S
  <2>1. 0 \in 0..n /\ \A k \in 0..0 : k = 0
    OBVIOUS
  <2>2. Begins(0, 0)
    BY <1>2, <2>1
  <2> HIDE DEF Begins
  <2> QED
    BY <2>1, <2>2
<1>4. ASSUME NEW m \in 1..n, m - 1 \in S PROVE m \in S
  <2>1. ASSUME NEW k \in 0..m PROVE Begins(m, k)
    <3>1. CASE k = m
      BY <1>2, <3>1
    <3>2. CASE k # m
      <4>1. k \in 0..(m - 1) /\ m - 1 \in 0..n /\ k \in 0..n
        BY <3>2
      <4>2. PICK tail \in Seq(Byte) : Joined(text[m - 1], text[k], tail)
        BY <1>4, <4>1
      <4>3. ws[m] \in Seq(Byte) /\ Joined(text[m], text[m - 1], ws[m])
        BY DEF Texts
      <4>4. text[k] \in Seq(Byte)
        BY <1>1, <4>1
      <4>5. Joined(text[m], text[k], tail \o ws[m])
        BY <4>2, <4>3, <4>4, JoinedTwice, Zenon
      <4>6. tail \o ws[m] \in Seq(Byte)
        BY <4>3, Cat
      <4> QED
        BY <4>5, <4>6
    <3> QED
      BY <3>1, <3>2
  <2>2. m \in 0..n
    OBVIOUS
  <2> HIDE DEF Begins
  <2> QED
    BY <2>1, <2>2
<1> HIDE DEF S, Begins
<1>5. \A m \in 0..n : m \in S
  BY <1>3, <1>4, BoundedInduction
<1>6. n \in S
  <2>1. n \in 0..n
    OBVIOUS
  <2> QED
    BY <1>5, <2>1
<1> QED
  BY <1>6 DEF S, Begins

\* One more element.
LEMMA AppendNext ==
  ASSUME NEW V, NEW vs \in Seq(V), NEW k \in 1..Len(vs)
  PROVE  Append(SubSeq(vs, 1, k - 1), vs[k]) = SubSeq(vs, 1, k)
<1>1. PICK n \in Nat : n = Len(vs)
  BY LenProperties
<1>2. 1 \in 1..Len(vs) /\ k \in 1..Len(vs)
  BY <1>1
<1>3. SubSeq(vs, 1, k) = SubSeq(vs, 1, k - 1) \o <<vs[k]>>
  BY <1>2, SubSeqRecursiveSecond
<1>4. vs[k] \in V
  BY ElementOfSeq
<1>5. SubSeq(vs, 1, k - 1) \in Seq(V)
  <2>1. \A i \in 1..(k - 1) : vs[i] \in V
    <3>1. \A i \in 1..(k - 1) : i \in 1..Len(vs)
      BY <1>1
    <3> QED
      BY <3>1, ElementOfSeq
  <2>2. 1 \in Int /\ k - 1 \in Int
    OBVIOUS
  <2> QED
    BY <2>1, <2>2, SubSeqProperties
<1>6. Append(SubSeq(vs, 1, k - 1), vs[k]) = SubSeq(vs, 1, k - 1) \o <<vs[k]>>
  BY <1>4, <1>5, AppendIsConcat
<1> QED
  BY <1>3, <1>6

\* Where an element is looked for: behind the line and the elements before.
LEMMA Behind ==
  ASSUME NEW h \in Seq(Byte), NEW w \in Seq(Byte), NEW x \in Seq(Byte), NEW y \in Seq(Byte),
         Joined(w, x, y)
  PROVE  From(h \o (Terminator \o w), Len(h) + 2 + Len(x) + 1) = y
<1>1. PICK l \in Nat, m \in Nat : l = Len(h) /\ m = Len(x)
  BY LenProperties
<1>2. PICK b : b = (h \o Terminator) \o x
  OBVIOUS
<1>3. h \o Terminator \in Seq(Byte) /\ Len(h \o Terminator) = l + 2
  <2>1. h \o Terminator \in Seq(Byte) /\ Len(h \o Terminator) = Len(h) + Len(Terminator)
    BY TerminatorIs, Cat
  <2> QED
    BY <1>1, <2>1, TerminatorIs
<1>4. b \in Seq(Byte) /\ Len(b) = l + 2 + m
  <2>1. /\ (h \o Terminator) \o x \in Seq(Byte)
        /\ Len((h \o Terminator) \o x) = Len(h \o Terminator) + Len(x)
    BY <1>3, Cat
  <2> QED
    BY <1>1, <1>2, <1>3, <2>1
<1>5. h \o (Terminator \o w) = b \o y
  <2>1. (h \o Terminator) \o w = h \o (Terminator \o w)
    <3>1. Assoc(h, Terminator, w)
      BY TerminatorIs, CatAssoc, Zenon
    <3> QED
      BY <3>1, Zenon DEF Assoc
  <2>2. ((h \o Terminator) \o x) \o y = (h \o Terminator) \o (x \o y)
    BY <1>3, CatAssociative
  <2>3. w = x \o y
    BY DEF Joined
  <2> QED
    BY <1>2, <2>1, <2>2, <2>3
<1>6. From(b \o y, Len(b) + 1) = y
  BY <1>4, Halves
<1>7. Len(b) + 1 = l + 2 + m + 1
  BY <1>4
<1> QED
  BY <1>1, <1>5, <1>6, <1>7

\* The texts are those of the elements vs, and none is an error.
Spell(ws, vs, n) ==
  Len(vs) = n /\ \A k \in 1..n : Reads(ws[k], vs[k]) /\ vs[k].type # "error"

\* None of them is read before it is complete.
AllWait(ws, n) == \A k \in 1..n : Waits(ws[k])

\* What the loop over the elements has made of m, which is behind the line h, when
\* it has k of them.
Parsed(arrays, n, h, m, before) ==
  /\ arrays[0] = Positive(Array(<<>>), Len(h) + 2 + before)
  /\ \A k \in 1..n : arrays[k] = NextElement(arrays[k - 1], h \o (Terminator \o m), before, Raw)

\* For every k, if the first k elements are in the buffer, it is an array of those.
Grown(arrays, n, text, vs, h, m, before) ==
  \A k \in 0..n : \A r \in Seq(Byte) : Joined(m, text[k], r) =>
    arrays[k] = Positive(Array(SubSeq(vs, 1, k)), Len(h) + 2 + before + Len(text[k]))

\* The loop over the elements reads them, one after the other ...
LEMMA ElementsRead ==
  ASSUME NEW n \in Nat, NEW text, NEW ws, Texts(text, ws, n), NEW V, NEW vs \in Seq(V),
         Spell(ws, vs, n),
         NEW h \in Seq(Byte), NEW before \in Nat, NEW m \in Seq(Byte),
         NEW arrays, Parsed(arrays, n, h, m, before)
  PROVE  Grown(arrays, n, text, vs, h, m, before)
<1> USE DEF Spell, Parsed
<1> DEFINE After(k) == Positive(Array(SubSeq(vs, 1, k)), Len(h) + 2 + before + Len(text[k]))
           S == {k \in 0..n : \A r \in Seq(Byte) : Joined(m, text[k], r) => arrays[k] = After(k)}
<1>1. \A k \in 0..n : text[k] \in Seq(Byte) /\ Len(text[k]) \in Nat
  BY TextsType, LenProperties
<1>2. Len(h) \in Nat
  BY LenProperties
<1>3. 0 \in S
  <2>1. text[0] = <<>> /\ Len(<<>>) = 0
    BY EmptySeq DEF Texts
  <2>2. SubSeq(vs, 1, 0) = <<>>
    BY SubSeqEmpty
  <2>3. Len(h) + 2 + before + 0 = Len(h) + 2 + before
    BY <1>2
  <2>4. arrays[0] = After(0)
    BY <2>1, <2>2, <2>3
  <2>5. 0 \in 0..n
    OBVIOUS
  <2> HIDE DEF After
  <2> QED
    BY <2>4, <2>5
<1>4. ASSUME NEW k \in 1..n, k - 1 \in S PROVE k \in S
  <2>1. k \in 0..n /\ k - 1 \in 0..n
    OBVIOUS
  <2>2. ASSUME NEW r \in Seq(Byte), Joined(m, text[k], r) PROVE arrays[k] = After(k)
    <3>1. ws[k] \in Seq(Byte) /\ Joined(text[k], text[k - 1], ws[k])
      BY DEF Texts
    <3>2. PICK x : x = text[k - 1]
      OBVIOUS
    <3>3. x \in Seq(Byte) /\ Len(x) \in Nat
      BY <1>1, <2>1, <3>2
    <3>4. PICK w : w = ws[k]
      OBVIOUS
    <3>5. PICK y : y = w \o r
      OBVIOUS
    <3>6. w \in Seq(Byte) /\ y \in Seq(Byte) /\ Len(w) \in Nat
      BY <3>1, <3>4, <3>5, Cat
    <3>7. Joined(m, x, y)
      <4>1. Joined(text[k], x, w)
        BY <3>1, <3>2, <3>4
      <4>2. Joined(m, x, w \o r)
        BY <2>2, <3>3, <3>6, <4>1, JoinedTwice, Zenon
      <4> QED
        BY <3>5, <4>2
    <3>8. arrays[k - 1] = After(k - 1)
      BY <1>4, <3>2, <3>6, <3>7
    <3>9. PICK a : a = arrays[k - 1]
      OBVIOUS
    <3>10. PICK c \in Nat : c = Len(h) + 2 + before + Len(x)
      BY <1>2, <3>3
    <3>11. a = Positive(Array(SubSeq(vs, 1, k - 1)), c)
      BY <3>2, <3>8, <3>9, <3>10
    <3>12. a.consumed = c /\ IsPositive(a) /\ a.value.elements = SubSeq(vs, 1, k - 1)
      BY <3>11 DEF IsPositive, Positive, Array
    <3>13. PICK s : s = h \o (Terminator \o m)
      OBVIOUS
    <3>14. From(s, a.consumed - before + 1) = y
      <4>1. From(s, Len(h) + 2 + Len(x) + 1) = y
        BY <3>3, <3>6, <3>7, <3>13, Behind
      <4>2. a.consumed - before + 1 = Len(h) + 2 + Len(x) + 1
        BY <1>2, <3>3, <3>10, <3>12
      <4> QED
        BY <4>1, <4>2
    <3>15. PICK v : v = vs[k]
      OBVIOUS
    <3>16. Raw[y] = Positive(v, Len(w))
      BY <3>4, <3>5, <3>15 DEF Reads, Report
    <3>17. PICK e : e = Raw[From(s, a.consumed - before + 1)]
      OBVIOUS
    <3>18. IsPositive(e) /\ e.value = v /\ e.consumed = Len(w)
      BY <3>14, <3>16, <3>17 DEF IsPositive, Positive
    <3>19. NextElement(a, s, before, Raw) =
             Positive(Array(Append(SubSeq(vs, 1, k - 1), v)), c + Len(w))
      BY <3>12, <3>17, <3>18 DEF NextElement
    <3>20. Append(SubSeq(vs, 1, k - 1), v) = SubSeq(vs, 1, k)
      BY <3>15, AppendNext
    <3>21. c + Len(w) = Len(h) + 2 + before + Len(text[k])
      <4>1. Len(x \o w) = Len(x) + Len(w)
        BY <3>3, <3>6, Cat
      <4>2. text[k] = x \o w
        BY <3>1, <3>2, <3>4 DEF Joined
      <4> QED
        BY <1>2, <3>3, <3>6, <3>10, <4>1, <4>2
    <3> QED
      BY <3>9, <3>13, <3>19, <3>20, <3>21
  <2> HIDE DEF After
  <2> QED
    BY <2>1, <2>2
<1> HIDE DEF S
<1>5. \A k \in 0..n : k \in S
  BY <1>3, <1>4, BoundedInduction
<1> QED
  BY <1>5 DEF S, Grown

\* If they are not all there, the first that is not is waited for.
LEMMA ElementsCut ==
  ASSUME NEW n \in Nat, NEW text, NEW ws, Texts(text, ws, n), NEW V, NEW vs \in Seq(V),
         Spell(ws, vs, n),
         AllWait(ws, n),
         NEW h \in Seq(Byte), NEW before \in Nat, NEW m \in Seq(Byte),
         NEW arrays, Parsed(arrays, n, h, m, before),
         NEW q \in Seq(Byte), q # <<>>, Joined(text[n], m, q)
  PROVE  arrays[n] = ProtocolError("not_enough_data")
<1>1. Grown(arrays, n, text, vs, h, m, before)
  BY ElementsRead, Zenon
<1> USE DEF Spell, Parsed, AllWait
<1> DEFINE Short == ProtocolError("not_enough_data")
           S == {k \in 0..n : Len(m) < Len(text[k]) => arrays[k] = Short}
<1>2. \A k \in 0..n : text[k] \in Seq(Byte) /\ Len(text[k]) \in Nat
  BY TextsType, LenProperties
<1>3. Len(h) \in Nat /\ Len(m) \in Nat
  BY LenProperties
<1>4. 0 \in S
  <2>1. text[0] = <<>> /\ Len(<<>>) = 0
    BY EmptySeq DEF Texts
  <2>2. ~(Len(m) < Len(text[0]))
    BY <1>3, <2>1
  <2>3. 0 \in 0..n
    OBVIOUS
  <2> QED
    BY <2>2, <2>3
<1>5. ASSUME NEW k \in 1..n, k - 1 \in S PROVE k \in S
  <2>1. k \in 0..n /\ k - 1 \in 0..n
    OBVIOUS
  <2>2. ASSUME Len(m) < Len(text[k]) PROVE arrays[k] = Short
    <3>1. PICK s : s = h \o (Terminator \o m)
      OBVIOUS
    <3>2. PICK a : a = arrays[k - 1]
      OBVIOUS
    <3>3. arrays[k] = NextElement(a, s, before, Raw)
      BY <3>1, <3>2
    <3>4. CASE Len(m) < Len(text[k - 1])
      <4>1. a = Short
        BY <1>5, <3>2, <3>4
      <4> QED
        BY <3>3, <4>1 DEF NextElement, IsPositive, ProtocolError
    <3>5. CASE ~(Len(m) < Len(text[k - 1]))
      <4>1. PICK x : x = text[k - 1]
        OBVIOUS
      <4>2. PICK t : t = text[k]
        OBVIOUS
      <4>3. x \in Seq(Byte) /\ Len(x) \in Nat /\ t \in Seq(Byte) /\ Len(t) \in Nat
        BY <1>2, <2>1, <4>1, <4>2
      <4>4. PICK w \in Seq(Byte) : w = ws[k] /\ Joined(t, x, w)
        BY <4>1, <4>2 DEF Texts
      <4>5. PICK z \in Seq(Byte) : Joined(t, m, z)
        <5>1. PICK tail \in Seq(Byte) : Joined(text[n], t, tail)
          BY <2>1, <4>2, TextsBegin
        <5>2. Len(m) <= Len(t)
          BY <1>3, <2>2, <4>2, <4>3
        <5>3. PICK z \in Seq(Byte) : Joined(t, m, z) /\ Joined(q, z, tail)
          BY <4>3, <5>1, <5>2, CutTwice, Zenon
        <5> QED
          BY <5>3
      <4>6. Len(x) <= Len(m)
        BY <1>3, <3>5, <4>1, <4>3
      <4>7. PICK r \in Seq(Byte) : Joined(m, x, r) /\ Joined(w, r, z)
        BY <4>3, <4>4, <4>5, <4>6, CutTwice, Zenon
      <4>8. z # <<>>
        <5>1. ASSUME z = <<>> PROVE FALSE
          <6>1. t = m
            BY <4>5, <5>1, CatEmpty DEF Joined
          <6> QED
            BY <1>3, <2>2, <4>2, <6>1
        <5> QED
          BY <5>1
      <4>9. Raw[r] = Short
        <5>1. Waits(w)
          BY <4>4
        <5> QED
          BY <4>7, <4>8, <5>1 DEF Waits
      <4>10. PICK c \in Nat : c = Len(h) + 2 + before + Len(x)
        BY <1>3, <4>3
      <4>11. a = Positive(Array(SubSeq(vs, 1, k - 1)), c)
        <5>1. Joined(m, text[k - 1], r)
          BY <4>1, <4>7
        <5>2. arrays[k - 1] =
                Positive(Array(SubSeq(vs, 1, k - 1)), Len(h) + 2 + before + Len(text[k - 1]))
          BY <1>1, <2>1, <4>7, <5>1 DEF Grown
        <5> QED
          BY <3>2, <4>1, <4>10, <5>2
      <4>12. a.consumed = c /\ IsPositive(a)
        BY <4>11 DEF IsPositive, Positive
      <4>13. From(s, a.consumed - before + 1) = r
        <5>1. From(s, Len(h) + 2 + Len(x) + 1) = r
          BY <3>1, <4>3, <4>7, Behind
        <5>2. a.consumed - before + 1 = Len(h) + 2 + Len(x) + 1
          BY <1>3, <4>3, <4>10, <4>12
        <5> QED
          BY <5>1, <5>2
      <4>14. NextElement(a, s, before, Raw) = Short
        BY <4>9, <4>12, <4>13 DEF NextElement, IsPositive, ProtocolError
      <4> QED
        BY <3>3, <4>14
    <3> QED
      BY <3>4, <3>5
  <2> HIDE DEF Short
  <2> QED
    BY <2>1, <2>2
<1> HIDE DEF S
<1>6. \A k \in 0..n : k \in S
  BY <1>4, <1>5, BoundedInduction
<1>7. n \in 0..n
  OBVIOUS
<1>8. Len(m) < Len(text[n])
  <2>1. Len(m \o q) = Len(m) + Len(q)
    BY Cat
  <2>2. Len(q) \in Nat \ {0}
    BY EmptySeq
  <2>3. text[n] = m \o q
    BY DEF Joined
  <2> QED
    BY <1>3, <2>1, <2>2, <2>3
<1> QED
  BY <1>6, <1>7, <1>8 DEF S

-----------------------------------------------------------------------------
(* The replies, by their first byte.                                       *)

\* The first byte of a reply is a byte.
LEMMA MarksAre ==
  "+" \in Byte /\ "-" \in Byte /\ ":" \in Byte /\ "$" \in Byte /\ "*" \in Byte
BY ByteAssumption

\* A line is its mark, its text and the terminator.
LEMMA LineIs ==
  ASSUME NEW mark \in Byte, NEW t \in Seq(Byte)
  PROVE  /\ Line(mark, t) \in Seq(Byte) /\ t \o Terminator \in Seq(Byte)
         /\ Line(mark, t) = <<mark>> \o (t \o Terminator)
         /\ \A x \in Seq(Byte) : Line(mark, t) \o x = <<mark>> \o (t \o (Terminator \o x))
<1>1. <<mark>> \in Seq(Byte)
  OBVIOUS
<1>2. t \o Terminator \in Seq(Byte)
  BY TerminatorIs, Cat
<1>3. (<<mark>> \o t) \o Terminator = <<mark>> \o (t \o Terminator)
  BY <1>1, TerminatorIs, CatAssociative
<1>4. <<mark>> \o (t \o Terminator) \in Seq(Byte)
  BY <1>1, <1>2, Cat
<1>5. ASSUME NEW x \in Seq(Byte)
      PROVE  (<<mark>> \o (t \o Terminator)) \o x = <<mark>> \o (t \o (Terminator \o x))
  <2>1. (<<mark>> \o (t \o Terminator)) \o x = <<mark>> \o ((t \o Terminator) \o x)
    BY <1>1, <1>2, CatAssociative
  <2>2. (t \o Terminator) \o x = t \o (Terminator \o x)
    BY TerminatorIs, CatAssociative
  <2> QED
    BY <2>1, <2>2
<1> QED
  BY <1>2, <1>3, <1>4, <1>5 DEF Line

\* raw_parse takes the parser that the first byte asks for.
LEMMA RawByMark ==
  ASSUME NEW mark \in Byte, NEW c \in Seq(Byte)
  PROVE  LET b == <<mark>> \o c
         IN  /\ mark = "+" => Raw[b] = StringParser(c, 1)
             /\ mark = "-" => Raw[b] = ErrorParser(c, 1)
             /\ mark = ":" => Raw[b] = IntParser(c, 1)
             /\ mark = "$" => Raw[b] = BulkStringParser(c, 1)
             /\ mark = "*" => Raw[b] = ArrayParser(c, 1, Raw)
<1>1. PICK b \in Seq(Byte) : b = <<mark>> \o c /\ b # <<>> /\ b[1] = mark /\ Tail(b) = c
  BY CatTail
<1>2. Raw[b] = PrimaryParser(b, Raw)
  <2>1. Raw[b] = RawParse(b)
    BY DEF Raw
  <2> QED
    BY <1>1, <2>1, RawIsRecursive
<1>3. /\ mark = "+" => PrimaryParser(b, Raw) = StringParser(c, 1)
      /\ mark = "-" => PrimaryParser(b, Raw) = ErrorParser(c, 1)
      /\ mark = ":" => PrimaryParser(b, Raw) = IntParser(c, 1)
      /\ mark = "$" => PrimaryParser(b, Raw) = BulkStringParser(c, 1)
      /\ mark = "*" => PrimaryParser(b, Raw) = ArrayParser(c, 1, Raw)
  BY <1>1 DEF PrimaryParser
<1> QED
  BY <1>1, <1>2, <1>3

\* c, behind the first byte, is read as v ...
ReadsBehind(mark, c, v) ==
  \A rest \in Seq(Byte) : Raw[<<mark>> \o (c \o rest)] = Report(v, Len(c) + 1)
\* ... and not before it is complete.
WaitsBehind(mark, c) ==
  \A p, q \in Seq(Byte) : q # <<>> /\ Joined(c, p, q) =>
    Raw[<<mark>> \o p] = ProtocolError("not_enough_data")

\* So a reply is read if that parser reads it.
LEMMA Marked ==
  ASSUME NEW mark \in Byte, NEW c \in Seq(Byte), NEW v
  PROVE  /\ ReadsBehind(mark, c, v) => Reads(<<mark>> \o c, v)
         /\ WaitsBehind(mark, c) => Waits(<<mark>> \o c)
<1>1. <<mark>> \in Seq(Byte) /\ Len(<<mark>>) = 1
  OBVIOUS
<1>2. PICK w : w = <<mark>> \o c
  OBVIOUS
<1>3. w \in Seq(Byte) /\ Len(w) = Len(c) + 1
  <2>1. Len(w) = 1 + Len(c) /\ w \in Seq(Byte)
    BY <1>2, CatTail
  <2>2. Len(c) \in Nat
    BY LenProperties
  <2> QED
    BY <2>1, <2>2
<1>4. ASSUME ReadsBehind(mark, c, v), NEW rest \in Seq(Byte) PROVE Raw[w \o rest] = Report(v, Len(w))
  <2>1. (<<mark>> \o c) \o rest = <<mark>> \o (c \o rest)
    BY <1>1, CatAssociative
  <2>2. Raw[<<mark>> \o (c \o rest)] = Report(v, Len(c) + 1)
    BY <1>4 DEF ReadsBehind
  <2> QED
    BY <1>2, <1>3, <2>1, <2>2
<1>5. ASSUME WaitsBehind(mark, c), NEW p \in Seq(Byte), NEW q \in Seq(Byte), q # <<>>, Joined(w, p, q)
      PROVE  Raw[p] = ProtocolError("not_enough_data")
  <2>1. CASE p = <<>>
    BY <2>1, RawIsRecursive DEF Raw
  <2>2. CASE p # <<>>
    <3>1. Len(p) \in Nat \ {0}
      BY <2>2, EmptySeq
    <3>2. Len(<<mark>>) <= Len(p)
      BY <1>1, <3>1
    <3>3. Joined(w, <<mark>>, c)
      BY <1>2 DEF Joined
    <3>4. PICK r \in Seq(Byte) : Joined(p, <<mark>>, r) /\ Joined(c, r, q)
      BY <1>1, <1>5, <3>2, <3>3, CutTwice, Zenon
    <3>5. Raw[<<mark>> \o r] = ProtocolError("not_enough_data")
      BY <1>5, <3>4 DEF WaitsBehind
    <3> QED
      BY <3>4, <3>5 DEF Joined
  <2> QED
    BY <2>1, <2>2
<1> QED
  BY <1>2, <1>4, <1>5 DEF Reads, Waits

\* A simple string.
LEMMA SimpleReads ==
  ASSUME NEW t \in Seq(Byte), Found(t) = 0
  PROVE  Reads(Line("+", t), Str(t)) /\ Waits(Line("+", t))
<1>1. Found(t) = 0
  OBVIOUS
<1>2. PICK c : c = t \o Terminator
  OBVIOUS
<1>3. c \in Seq(Byte) /\ Len(c) = Len(t) + 2 /\ Len(t) \in Nat
  <2>1. t \o Terminator \in Seq(Byte) /\ Len(t \o Terminator) = Len(t) + Len(Terminator)
    BY TerminatorIs, Cat
  <2>2. Len(t) \in Nat
    BY LenProperties
  <2> QED
    BY <1>2, <2>1, <2>2, TerminatorIs
<1>4. "+" \in Byte
  BY MarksAre
<1>5. ASSUME NEW rest \in Seq(Byte)
      PROVE  Raw[<<"+">> \o (c \o rest)] = Report(Str(t), Len(c) + 1)
  <2>1. c \o rest \in Seq(Byte)
    BY <1>3, Cat
  <2>2. Raw[<<"+">> \o (c \o rest)] = StringParser(c \o rest, 1)
    BY <1>4, <2>1, RawByMark
  <2>3. c \o rest = t \o (Terminator \o rest)
    BY <1>2, TerminatorIs, CatAssociative
  <2>4. PICK n : n = Len(t) + 2 + 1
    OBVIOUS
  <2>5. n = Len(c) + 1
    BY <1>3, <2>4
  <2>7. StringParser(t \o (Terminator \o rest), 1) = Positive(Str(t), n)
    BY <1>1, <2>4, StringRead
  <2> QED
    BY <2>2, <2>3, <2>5, <2>7 DEF Report, Str
<1>6. ASSUME NEW p \in Seq(Byte), NEW q \in Seq(Byte), q # <<>>, Joined(c, p, q)
      PROVE  Raw[<<"+">> \o p] = ProtocolError("not_enough_data")
  <2>1. Raw[<<"+">> \o p] = StringParser(p, 1)
    BY <1>4, RawByMark
  <2>2. p \o q = t \o Terminator
    BY <1>1, <1>2, <1>6 DEF Joined
  <2>3. StringParser(p, 1) = ProtocolError("not_enough_data")
    BY <1>1, <1>6, <2>2, StringCut
  <2> QED
    BY <2>1, <2>3
<1>7. Reads(<<"+">> \o c, Str(t)) /\ Waits(<<"+">> \o c)
  <2>1. ReadsBehind("+", c, Str(t)) /\ WaitsBehind("+", c)
    BY <1>5, <1>6 DEF ReadsBehind, WaitsBehind
  <2> QED
    BY <1>3, <1>4, <2>1, Marked
<1>8. Line("+", t) = <<"+">> \o c
  BY <1>2, <1>4, LineIs
<1> QED
  BY <1>1, <1>7, <1>8

\* An error.
LEMMA ErrorReads ==
  ASSUME NEW t \in Seq(Byte), Found(t) = 0
  PROVE  Reads(Line("-", t), Error(t)) /\ Waits(Line("-", t))
<1>1. Found(t) = 0
  OBVIOUS
<1>2. PICK c : c = t \o Terminator
  OBVIOUS
<1>3. c \in Seq(Byte) /\ Len(c) = Len(t) + 2 /\ Len(t) \in Nat
  <2>1. t \o Terminator \in Seq(Byte) /\ Len(t \o Terminator) = Len(t) + Len(Terminator)
    BY TerminatorIs, Cat
  <2>2. Len(t) \in Nat
    BY LenProperties
  <2> QED
    BY <1>2, <2>1, <2>2, TerminatorIs
<1>4. "-" \in Byte
  BY MarksAre
<1>5. ASSUME NEW rest \in Seq(Byte)
      PROVE  Raw[<<"-">> \o (c \o rest)] = Report(Error(t), Len(c) + 1)
  <2>1. c \o rest \in Seq(Byte)
    BY <1>3, Cat
  <2>2. Raw[<<"-">> \o (c \o rest)] = ErrorParser(c \o rest, 1)
    BY <1>4, <2>1, RawByMark
  <2>3. c \o rest = t \o (Terminator \o rest)
    BY <1>2, TerminatorIs, CatAssociative
  <2>4. PICK n : n = Len(t) + 2 + 1
    OBVIOUS
  <2>5. n = Len(c) + 1
    BY <1>3, <2>4
  <2>6. StringParser(t \o (Terminator \o rest), 1) = Positive(Str(t), n)
    BY <1>1, <2>4, StringRead
  <2>7. ErrorParser(t \o (Terminator \o rest), 1) = ErrorReply(t, n)
    BY <2>6 DEF ErrorParser, IsPositive, Positive, Str
  <2> QED
    BY <2>2, <2>3, <2>5, <2>7 DEF Report, Error
<1>6. ASSUME NEW p \in Seq(Byte), NEW q \in Seq(Byte), q # <<>>, Joined(c, p, q)
      PROVE  Raw[<<"-">> \o p] = ProtocolError("not_enough_data")
  <2>1. Raw[<<"-">> \o p] = ErrorParser(p, 1)
    BY <1>4, RawByMark
  <2>2. p \o q = t \o Terminator
    BY <1>1, <1>2, <1>6 DEF Joined
  <2>3. StringParser(p, 1) = ProtocolError("not_enough_data")
    BY <1>1, <1>6, <2>2, StringCut
  <2> QED
    BY <2>1, <2>3 DEF ErrorParser, IsPositive, ProtocolError
<1>7. Reads(<<"-">> \o c, Error(t)) /\ Waits(<<"-">> \o c)
  <2>1. ReadsBehind("-", c, Error(t)) /\ WaitsBehind("-", c)
    BY <1>5, <1>6 DEF ReadsBehind, WaitsBehind
  <2> QED
    BY <1>3, <1>4, <2>1, Marked
<1>8. Line("-", t) = <<"-">> \o c
  BY <1>2, <1>4, LineIs
<1> QED
  BY <1>1, <1>7, <1>8

\* A number.
LEMMA IntReads ==
  ASSUME NEW i \in Int
  PROVE  Reads(Line(":", NumberText(i)), Number(i)) /\ Waits(Line(":", NumberText(i)))
<1>1. PICK t \in Seq(Byte) : t = NumberText(i)
  BY NumberTextIs
<1>2. PICK c : c = t \o Terminator
  OBVIOUS
<1>3. c \in Seq(Byte) /\ Len(c) = Len(t) + 2 /\ Len(t) \in Nat
  <2>1. t \o Terminator \in Seq(Byte) /\ Len(t \o Terminator) = Len(t) + Len(Terminator)
    BY TerminatorIs, Cat
  <2>2. Len(t) \in Nat
    BY LenProperties
  <2> QED
    BY <1>2, <2>1, <2>2, TerminatorIs
<1>4. ":" \in Byte
  BY MarksAre
<1>5. ASSUME NEW rest \in Seq(Byte)
      PROVE  Raw[<<":">> \o (c \o rest)] = Report(Number(i), Len(c) + 1)
  <2>1. c \o rest \in Seq(Byte)
    BY <1>3, Cat
  <2>2. Raw[<<":">> \o (c \o rest)] = IntParser(c \o rest, 1)
    BY <1>4, <2>1, RawByMark
  <2>3. c \o rest = t \o (Terminator \o rest)
    BY <1>2, TerminatorIs, CatAssociative
  <2>4. PICK n : n = Len(t) + 2 + 1
    OBVIOUS
  <2>5. n = Len(c) + 1
    BY <1>3, <2>4
  <2>7. IntParser(t \o (Terminator \o rest), 1) = Positive(Number(i), n)
    BY <1>1, <2>4, IntRead
  <2> QED
    BY <2>2, <2>3, <2>5, <2>7 DEF Report, Number
<1>6. ASSUME NEW p \in Seq(Byte), NEW q \in Seq(Byte), q # <<>>, Joined(c, p, q)
      PROVE  Raw[<<":">> \o p] = ProtocolError("not_enough_data")
  <2>1. Raw[<<":">> \o p] = IntParser(p, 1)
    BY <1>4, RawByMark
  <2>2. p \o q = NumberText(i) \o Terminator
    BY <1>1, <1>2, <1>6 DEF Joined
  <2>3. IntParser(p, 1) = ProtocolError("not_enough_data")
    BY <1>1, <1>6, <2>2, CountCut
  <2> QED
    BY <2>1, <2>3
<1>7. Reads(<<":">> \o c, Number(i)) /\ Waits(<<":">> \o c)
  <2>1. ReadsBehind(":", c, Number(i)) /\ WaitsBehind(":", c)
    BY <1>5, <1>6 DEF ReadsBehind, WaitsBehind
  <2> QED
    BY <1>3, <1>4, <2>1, Marked
<1>8. Line(":", t) = <<":">> \o c
  BY <1>2, <1>4, LineIs
<1> QED
  BY <1>1, <1>7, <1>8

\* Nil, as a string ...
LEMMA NilBulkReads ==
  Reads(Line("$", NumberText(-1)), Nil) /\ Waits(Line("$", NumberText(-1)))
<1>0. -1 \in Int /\ -1 >= -1
  OBVIOUS
<1>1. PICK t \in Seq(Byte) : t = NumberText(-1)
  BY <1>0, NumberTextIs
<1>2. PICK c : c = t \o Terminator
  OBVIOUS
<1>3. c \in Seq(Byte) /\ Len(c) = Len(t) + 2 /\ Len(t) \in Nat
  <2>1. t \o Terminator \in Seq(Byte) /\ Len(t \o Terminator) = Len(t) + Len(Terminator)
    BY TerminatorIs, Cat
  <2>2. Len(t) \in Nat
    BY LenProperties
  <2> QED
    BY <1>2, <2>1, <2>2, TerminatorIs
<1>4. "$" \in Byte
  BY MarksAre
<1>5. ASSUME NEW rest \in Seq(Byte)
      PROVE  Raw[<<"$">> \o (c \o rest)] = Report(Nil, Len(c) + 1)
  <2>1. c \o rest \in Seq(Byte)
    BY <1>3, Cat
  <2>2. Raw[<<"$">> \o (c \o rest)] = BulkStringParser(c \o rest, 1)
    BY <1>4, <2>1, RawByMark
  <2>3. c \o rest = t \o (Terminator \o rest)
    BY <1>2, TerminatorIs, CatAssociative
  <2>4. PICK n : n = Len(t) + 2 + 1
    OBVIOUS
  <2>5. n = Len(c) + 1
    BY <1>3, <2>4
  <2>6. /\ Counted(c \o rest, 1) = Positive(Nil, n)
        /\ ~IsSize(Counted(c \o rest, 1))
    <3>1. PICK i \in Int : i = -1 /\ i >= -1
      BY <1>0
    <3>2. PICK s : s = NumberText(i) \o (Terminator \o rest)
      OBVIOUS
    <3>3. /\ Counted(s, 1) = Positive(Nil, Len(NumberText(i)) + 2 + 1)
          /\ ~IsSize(Counted(s, 1))
      BY <3>1, <3>2, CountRead
    <3>4. s = c \o rest
      BY <1>1, <2>3, <3>1, <3>2
    <3> QED
      BY <1>1, <2>4, <3>1, <3>3, <3>4
  <2>7. BulkStringParser(c \o rest, 1) = Positive(Nil, n)
    BY <2>6 DEF BulkStringParser, ArrayParser
  <2> QED
    BY <2>2, <2>3, <2>5, <2>7 DEF Report, Nil
<1>6. ASSUME NEW p \in Seq(Byte), NEW q \in Seq(Byte), q # <<>>, Joined(c, p, q)
      PROVE  Raw[<<"$">> \o p] = ProtocolError("not_enough_data")
  <2>1. Raw[<<"$">> \o p] = BulkStringParser(p, 1)
    BY <1>4, RawByMark
  <2>2. p \o q = NumberText(-1) \o Terminator
    BY <1>1, <1>2, <1>6 DEF Joined
  <2>3. Counted(p, 1) = ProtocolError("not_enough_data") /\ ~IsSize(Counted(p, 1))
    BY <1>1, <1>6, <2>2, <1>0, CountCut
  <2> QED
    BY <2>1, <2>3 DEF BulkStringParser, ArrayParser
<1>7. Reads(<<"$">> \o c, Nil) /\ Waits(<<"$">> \o c)
  <2>1. ReadsBehind("$", c, Nil) /\ WaitsBehind("$", c)
    BY <1>5, <1>6 DEF ReadsBehind, WaitsBehind
  <2> QED
    BY <1>3, <1>4, <2>1, Marked
<1>8. Line("$", t) = <<"$">> \o c
  BY <1>2, <1>4, LineIs
<1> QED
  BY <1>1, <1>7, <1>8

\* ... or as an array.
LEMMA NilArrayReads ==
  Reads(Line("*", NumberText(-1)), Nil) /\ Waits(Line("*", NumberText(-1)))
<1>0. -1 \in Int /\ -1 >= -1
  OBVIOUS
<1>1. PICK t \in Seq(Byte) : t = NumberText(-1)
  BY <1>0, NumberTextIs
<1>2. PICK c : c = t \o Terminator
  OBVIOUS
<1>3. c \in Seq(Byte) /\ Len(c) = Len(t) + 2 /\ Len(t) \in Nat
  <2>1. t \o Terminator \in Seq(Byte) /\ Len(t \o Terminator) = Len(t) + Len(Terminator)
    BY TerminatorIs, Cat
  <2>2. Len(t) \in Nat
    BY LenProperties
  <2> QED
    BY <1>2, <2>1, <2>2, TerminatorIs
<1>4. "*" \in Byte
  BY MarksAre
<1>5. ASSUME NEW rest \in Seq(Byte)
      PROVE  Raw[<<"*">> \o (c \o rest)] = Report(Nil, Len(c) + 1)
  <2>1. c \o rest \in Seq(Byte)
    BY <1>3, Cat
  <2>2. Raw[<<"*">> \o (c \o rest)] = ArrayParser(c \o rest, 1, Raw)
    BY <1>4, <2>1, RawByMark
  <2>3. c \o rest = t \o (Terminator \o rest)
    BY <1>2, TerminatorIs, CatAssociative
  <2>4. PICK n : n = Len(t) + 2 + 1
    OBVIOUS
  <2>5. n = Len(c) + 1
    BY <1>3, <2>4
  <2>6. /\ Counted(c \o rest, 1) = Positive(Nil, n)
        /\ ~IsSize(Counted(c \o rest, 1))
    <3>1. PICK i \in Int : i = -1 /\ i >= -1
      BY <1>0
    <3>2. PICK s : s = NumberText(i) \o (Terminator \o rest)
      OBVIOUS
    <3>3. /\ Counted(s, 1) = Positive(Nil, Len(NumberText(i)) + 2 + 1)
          /\ ~IsSize(Counted(s, 1))
      BY <3>1, <3>2, CountRead
    <3>4. s = c \o rest
      BY <1>1, <2>3, <3>1, <3>2
    <3> QED
      BY <1>1, <2>4, <3>1, <3>3, <3>4
  <2>7. ArrayParser(c \o rest, 1, Raw) = Positive(Nil, n)
    BY <2>6 DEF BulkStringParser, ArrayParser
  <2> QED
    BY <2>2, <2>3, <2>5, <2>7 DEF Report, Nil
<1>6. ASSUME NEW p \in Seq(Byte), NEW q \in Seq(Byte), q # <<>>, Joined(c, p, q)
      PROVE  Raw[<<"*">> \o p] = ProtocolError("not_enough_data")
  <2>1. Raw[<<"*">> \o p] = ArrayParser(p, 1, Raw)
    BY <1>4, RawByMark
  <2>2. p \o q = NumberText(-1) \o Terminator
    BY <1>1, <1>2, <1>6 DEF Joined
  <2>3. Counted(p, 1) = ProtocolError("not_enough_data") /\ ~IsSize(Counted(p, 1))
    BY <1>1, <1>6, <2>2, <1>0, CountCut
  <2> QED
    BY <2>1, <2>3 DEF BulkStringParser, ArrayParser
<1>7. Reads(<<"*">> \o c, Nil) /\ Waits(<<"*">> \o c)
  <2>1. ReadsBehind("*", c, Nil) /\ WaitsBehind("*", c)
    BY <1>5, <1>6 DEF ReadsBehind, WaitsBehind
  <2> QED
    BY <1>3, <1>4, <2>1, Marked
<1>8. Line("*", t) = <<"*">> \o c
  BY <1>2, <1>4, LineIs
<1> QED
  BY <1>1, <1>7, <1>8

\* A bulk string.
LEMMA BulkReads ==
  ASSUME NEW t \in Seq(Byte)
  PROVE  LET w == Line("$", NumberText(Len(t))) \o t \o Terminator
         IN  Reads(w, Str(t)) /\ Waits(w)
<1>1. PICK k \in Nat : k = Len(t)
  BY LenProperties
<1>2. PICK h \in Seq(Byte) : h = NumberText(k) /\ Len(h) \in Nat
  BY NumberTextIs, LenProperties
<1>3. PICK u : u = t \o Terminator
  OBVIOUS
<1>4. u \in Seq(Byte) /\ Len(u) = k + 2
  <2>1. t \o Terminator \in Seq(Byte) /\ Len(t \o Terminator) = Len(t) + Len(Terminator)
    BY TerminatorIs, Cat
  <2> QED
    BY <1>1, <1>3, <2>1, TerminatorIs
<1>5. PICK e : e = Terminator \o u
  OBVIOUS
<1>6. e \in Seq(Byte) /\ Len(e) = k + 4
  <2>1. Terminator \o u \in Seq(Byte) /\ Len(Terminator \o u) = Len(Terminator) + Len(u)
    BY <1>4, TerminatorIs, Cat
  <2> QED
    BY <1>4, <1>5, <2>1, TerminatorIs
<1>7. PICK c : c = h \o e
  OBVIOUS
<1>8. c \in Seq(Byte) /\ Len(c) = Len(h) + k + 4
  <2>1. h \o e \in Seq(Byte) /\ Len(h \o e) = Len(h) + Len(e)
    BY <1>6, Cat
  <2> QED
    BY <1>2, <1>6, <1>7, <2>1
<1>9. "$" \in Byte
  BY MarksAre
<1>10. ASSUME NEW rest \in Seq(Byte)
       PROVE  Raw[<<"$">> \o (c \o rest)] = Report(Str(t), Len(c) + 1)
  <2>1. c \o rest \in Seq(Byte)
    BY <1>8, Cat
  <2>2. Raw[<<"$">> \o (c \o rest)] = BulkStringParser(c \o rest, 1)
    BY <1>9, <2>1, RawByMark
  <2>3. c \o rest = h \o (Terminator \o (t \o (Terminator \o rest)))
    <3>1. (t \o Terminator) \o rest = t \o (Terminator \o rest)
      BY TerminatorIs, CatAssociative
    <3>2. (Terminator \o u) \o rest = Terminator \o (u \o rest)
      BY <1>4, TerminatorIs, CatAssociative
    <3>3. (h \o e) \o rest = h \o (e \o rest)
      BY <1>6, CatAssociative
    <3> QED
      BY <1>3, <1>5, <1>7, <3>1, <3>2, <3>3
  <2>4. PICK n : n = Len(c) + 1
    OBVIOUS
  <2>5. n = Len(h) + 2 + 1 + k + 2
    BY <1>2, <1>8, <2>4
  <2>6. BulkStringParser(h \o (Terminator \o (t \o (Terminator \o rest))), 1) = Positive(Str(t), n)
    BY <1>1, <1>2, <2>5, BulkRead
  <2> QED
    BY <2>2, <2>3, <2>4, <2>6 DEF Report, Str
<1>11. ASSUME NEW p \in Seq(Byte), NEW q \in Seq(Byte), q # <<>>, Joined(c, p, q)
       PROVE  Raw[<<"$">> \o p] = ProtocolError("not_enough_data")
  <2>1. Raw[<<"$">> \o p] = BulkStringParser(p, 1)
    BY <1>9, RawByMark
  <2>2. Joined(NumberText(Len(t)) \o (Terminator \o (t \o Terminator)), p, q)
    BY <1>1, <1>2, <1>3, <1>5, <1>7, <1>11
  <2>3. BulkStringParser(p, 1) = ProtocolError("not_enough_data")
    BY <1>11, <2>2, BulkCut
  <2> QED
    BY <2>1, <2>3
<1>12. Reads(<<"$">> \o c, Str(t)) /\ Waits(<<"$">> \o c)
  <2>1. ReadsBehind("$", c, Str(t)) /\ WaitsBehind("$", c)
    BY <1>10, <1>11 DEF ReadsBehind, WaitsBehind
  <2> QED
    BY <1>8, <1>9, <2>1, Marked
<1>13. Line("$", h) \o t \o Terminator = <<"$">> \o c
  <2>1. Line("$", h) \in Seq(Byte) /\ Line("$", h) \o u = <<"$">> \o (h \o (Terminator \o u))
    BY <1>4, <1>9, LineIs
  <2>2. (Line("$", h) \o t) \o Terminator = Line("$", h) \o (t \o Terminator)
    BY <2>1, TerminatorIs, CatAssociative
  <2> QED
    BY <1>3, <1>5, <1>7, <2>1, <2>2
<1> QED
  BY <1>1, <1>2, <1>12, <1>13

\* The loop over the elements.
LEMMA ParsedDef ==
  ASSUME NEW n \in Nat, NEW h, NEW m
  PROVE  \E arrays : /\ Elements(n, h \o (Terminator \o m), 1, Len(h) + 2 + 1, Raw) = arrays[n]
                     /\ Parsed(arrays, n, h, m, 1)
<1>1. PICK s, b, d, P : s = h \o (Terminator \o m) /\ b = 1 /\ d = Len(h) + 2 + b /\ P = Raw
  OBVIOUS
<1>2. PICK arrays : Filling(arrays, n, s, b, d, P)
  BY ElementsDef
<1>3. Parsed(arrays, n, h, m, b)
  BY <1>1, <1>2 DEF Parsed, Filling
<1>4. Elements(n, s, b, d, P) = arrays[n]
  BY <1>2 DEF Filling
<1> QED
  BY <1>1, <1>3, <1>4

\* An array of n elements whose texts are ws: it is what they are.
LEMMA ArrayReads ==
  ASSUME NEW n \in Nat, NEW text, NEW ws, Texts(text, ws, n), NEW V, NEW vs \in Seq(V),
         Spell(ws, vs, n)
  PROVE  LET w == Line("*", NumberText(n)) \o text[n]
         IN  Reads(w, Array(vs)) /\ (AllWait(ws, n) => Waits(w))
<1>1. PICK h \in Seq(Byte) : h = NumberText(n) /\ Len(h) \in Nat
  BY NumberTextIs, LenProperties
<1>2. PICK u \in Seq(Byte) : u = text[n] /\ Len(u) \in Nat
  <2>1. n \in 0..n
    OBVIOUS
  <2>2. text[n] \in Seq(Byte)
    BY <2>1, TextsType
  <2> QED
    BY <2>2, LenProperties
<1>3. PICK e : e = Terminator \o u
  OBVIOUS
<1>4. e \in Seq(Byte) /\ Len(e) = Len(u) + 2
  <2>1. Terminator \o u \in Seq(Byte) /\ Len(Terminator \o u) = Len(Terminator) + Len(u)
    BY TerminatorIs, Cat
  <2> QED
    BY <1>2, <1>3, <2>1, TerminatorIs
<1>5. PICK c : c = h \o e
  OBVIOUS
<1>6. c \in Seq(Byte) /\ Len(c) = Len(h) + 2 + Len(u)
  <2>1. h \o e \in Seq(Byte) /\ Len(h \o e) = Len(h) + Len(e)
    BY <1>4, Cat
  <2>2. PICK i \in Nat, j \in Nat : i = Len(h) /\ j = Len(u)
    BY <1>1, <1>2
  <2>3. Len(c) = i + (j + 2)
    BY <1>4, <1>5, <2>1, <2>2
  <2>4. i + (j + 2) = i + 2 + j
    OBVIOUS
  <2> QED
    BY <1>5, <2>1, <2>2, <2>3, <2>4
<1>7. "*" \in Byte
  BY MarksAre
<1>8. ASSUME NEW m \in Seq(Byte)
      PROVE  \E arrays : /\ ArrayParser(h \o (Terminator \o m), 1, Raw) = arrays[n]
                         /\ Parsed(arrays, n, h, m, 1)
  <2>1. PICK s : s = h \o (Terminator \o m)
    OBVIOUS
  <2>2. PICK p : p = Counted(s, 1)
    OBVIOUS
  <2>3. p = Positive(Number(n), Len(h) + 2 + 1) /\ IsSize(p)
    <3>1. n \in Int /\ n >= -1 /\ n # -1
      OBVIOUS
    <3> QED
      BY <1>1, <2>1, <2>2, <3>1, CountRead
  <2>4. p.value.int = n /\ p.consumed = Len(h) + 2 + 1
    BY <2>3 DEF Positive, Number
  <2>5. ArrayParser(s, 1, Raw) = Elements(n, s, 1, Len(h) + 2 + 1, Raw)
    BY <2>2, <2>3, <2>4 DEF ArrayParser
  <2>6. PICK arrays : /\ Elements(n, s, 1, Len(h) + 2 + 1, Raw) = arrays[n]
                      /\ Parsed(arrays, n, h, m, 1)
    BY <2>1, ParsedDef
  <2> QED
    BY <2>1, <2>5, <2>6
<1>9. ASSUME NEW rest \in Seq(Byte)
      PROVE  Raw[<<"*">> \o (c \o rest)] = Report(Array(vs), Len(c) + 1)
  <2>1. c \o rest \in Seq(Byte)
    BY <1>6, Cat
  <2>2. Raw[<<"*">> \o (c \o rest)] = ArrayParser(c \o rest, 1, Raw)
    BY <1>7, <2>1, RawByMark
  <2>3. PICK m : m = u \o rest
    OBVIOUS
  <2>4. m \in Seq(Byte) /\ Joined(m, u, rest)
    BY <2>3, Cat DEF Joined
  <2>5. c \o rest = h \o (Terminator \o m)
    <3>1. (Terminator \o u) \o rest = Terminator \o (u \o rest)
      <4>1. Assoc(Terminator, u, rest)
        BY TerminatorIs, CatAssoc
      <4> QED
        BY <4>1, Zenon DEF Assoc
    <3>2. (h \o e) \o rest = h \o (e \o rest)
      <4>1. Assoc(h, e, rest)
        BY <1>4, CatAssoc
      <4> QED
        BY <4>1, Zenon DEF Assoc
    <3> QED
      BY <1>3, <1>5, <2>3, <3>1, <3>2
  <2>6. PICK arrays : /\ ArrayParser(h \o (Terminator \o m), 1, Raw) = arrays[n]
                      /\ Parsed(arrays, n, h, m, 1)
    BY <1>8, <2>4
  <2>7. Grown(arrays, n, text, vs, h, m, 1)
    <3>1. 1 \in Nat
      OBVIOUS
    <3> QED
      BY <2>4, <2>6, <3>1, ElementsRead, Zenon
  <2>8. arrays[n] = Positive(Array(SubSeq(vs, 1, n)), Len(h) + 2 + 1 + Len(u))
    <3>1. n \in 0..n
      OBVIOUS
    <3>2. Joined(m, text[n], rest)
      BY <1>2, <2>4
    <3> QED
      BY <1>2, <2>7, <3>1, <3>2 DEF Grown
  <2>9. SubSeq(vs, 1, n) = vs
    <3>1. Len(vs) = n
      BY DEF Spell
    <3> QED
      BY <3>1, SubSeqFull
  <2>10. Len(h) + 2 + 1 + Len(u) = Len(c) + 1
    <3>1. PICK i \in Nat, j \in Nat : i = Len(h) /\ j = Len(u)
      BY <1>1, <1>2
    <3>2. Len(c) = i + 2 + j
      BY <1>6, <3>1
    <3>3. i + 2 + 1 + j = (i + 2 + j) + 1
      OBVIOUS
    <3> QED
      BY <3>1, <3>2, <3>3
  <2>11. Report(Array(vs), Len(c) + 1) = Positive(Array(vs), Len(c) + 1)
    BY DEF Report, Array
  <2> QED
    BY <2>2, <2>5, <2>6, <2>8, <2>9, <2>10, <2>11
<1>10. ASSUME AllWait(ws, n),
              NEW p \in Seq(Byte), NEW q \in Seq(Byte), q # <<>>, Joined(c, p, q)
       PROVE  Raw[<<"*">> \o p] = ProtocolError("not_enough_data")
  <2>1. Raw[<<"*">> \o p] = ArrayParser(p, 1, Raw)
    BY <1>7, RawByMark
  <2>2. Joined(h \o (Terminator \o u), p, q)
    BY <1>3, <1>5, <1>10
  <2>3. \/ \E m \in Seq(Byte) : m # <<>> /\ Joined(h \o Terminator, p, m)
        \/ \E m \in Seq(Byte) : Joined(p, h, Terminator \o m) /\ Joined(u, m, q)
    BY <1>10, <2>2, LineOrBehind, Zenon
  <2>4. CASE \E m \in Seq(Byte) : m # <<>> /\ Joined(h \o Terminator, p, m)
    <3>1. PICK m \in Seq(Byte) : m # <<>> /\ Joined(h \o Terminator, p, m)
      BY <2>4
    <3>2. n \in Int /\ p \o m = NumberText(n) \o Terminator
      BY <1>1, <3>1 DEF Joined
    <3>3. /\ Counted(p, 1) = ProtocolError("not_enough_data")
          /\ ~IsSize(Counted(p, 1))
      BY <3>1, <3>2, CountCut
    <3>4. ArrayParser(p, 1, Raw) = ProtocolError("not_enough_data")
      BY <3>3 DEF ArrayParser
    <3> QED
      BY <2>1, <3>4
  <2>5. CASE \E m \in Seq(Byte) : Joined(p, h, Terminator \o m) /\ Joined(u, m, q)
    <3>1. PICK m \in Seq(Byte) : Joined(p, h, Terminator \o m) /\ Joined(u, m, q)
      BY <2>5
    <3>2. PICK arrays : /\ ArrayParser(h \o (Terminator \o m), 1, Raw) = arrays[n]
                        /\ Parsed(arrays, n, h, m, 1)
      BY <1>8
    <3>3. 1 \in Nat /\ Joined(text[n], m, q)
      BY <1>2, <3>1
    <3>4. arrays[n] = ProtocolError("not_enough_data")
      BY <1>10, <3>2, <3>3, ElementsCut, SMT
    <3>5. p = h \o (Terminator \o m)
      BY <3>1 DEF Joined
    <3> QED
      BY <2>1, <3>2, <3>4, <3>5
  <2> QED
    BY <2>3, <2>4, <2>5
<1>11. Reads(<<"*">> \o c, Array(vs)) /\ (AllWait(ws, n) => Waits(<<"*">> \o c))
  <2>1. ReadsBehind("*", c, Array(vs))
    BY <1>9 DEF ReadsBehind
  <2>2. AllWait(ws, n) => WaitsBehind("*", c)
    BY <1>10 DEF WaitsBehind
  <2> QED
    BY <1>6, <1>7, <2>1, <2>2, Marked
<1>12. Line("*", h) \o u = <<"*">> \o c
  BY <1>3, <1>5, <1>7, LineIs
<1> QED
  BY <1>1, <1>2, <1>11, <1>12

-----------------------------------------------------------------------------
(* The replies of a server.                                                *)

\* EncodeAll, one reply after the other.
LEMMA EncodeAllDef ==
  ASSUME NEW vs, Len(vs) \in Nat
  PROVE  \E text : /\ EncodeAll(vs) = text[Len(vs)] /\ text[0] = <<>>
                   /\ \A k \in 1..Len(vs) : text[k] = text[k - 1] \o Encode[vs[k]]
<1>1. PICK n \in Nat : n = Len(vs)
  OBVIOUS
<1> DEFINE Start == <<>>
           St(t, i) == t \o Encode[vs[i]]
           Eq(f, k) == f = [i \in 0..k |-> IF i = 0 THEN Start ELSE St(f[i - 1], i)]
           S == {k \in 0..n : \E f : Eq(f, k)}
<1> HIDE DEF Start, St
<1>2. 0 \in S
  <2>1. Eq([i \in 0..0 |-> Start], 0)
    OBVIOUS
  <2>2. 0 \in 0..n
    OBVIOUS
  <2> QED
    BY <2>1, <2>2
<1>3. ASSUME NEW k \in 1..n, k - 1 \in S PROVE k \in S
  <2>1. PICK f : Eq(f, k - 1)
    BY <1>3
  <2> DEFINE g == [i \in 0..k |-> IF i < k THEN f[i] ELSE St(f[k - 1], k)]
  <2>2. ASSUME NEW i \in 0..k PROVE g[i] = IF i = 0 THEN Start ELSE St(g[i - 1], i)
    <3>1. CASE i = 0
      BY <2>1, <3>1
    <3>2. CASE i \in 1..(k - 1)
      <4>1. f[i] = St(f[i - 1], i)
        BY <2>1, <3>2
      <4>2. g[i] = f[i] /\ g[i - 1] = f[i - 1]
        BY <3>2
      <4> QED
        BY <3>2, <4>1, <4>2
    <3>3. CASE i = k
      <4>1. g[k] = St(f[k - 1], k) /\ g[k - 1] = f[k - 1]
        OBVIOUS
      <4> QED
        BY <3>3, <4>1
    <3> QED
      BY <3>1, <3>2, <3>3
  <2>3. Eq(g, k)
    BY <2>2
  <2> HIDE DEF Eq
  <2> QED
    BY <2>3
<1> HIDE DEF S
<1>4. \A k \in 0..n : k \in S
  BY <1>2, <1>3, BoundedInduction
<1>5. PICK text : /\ text = CHOOSE f : Eq(f, n)
                /\ Eq(text, n)
  <2>1. \E f : Eq(f, n)
    <3>1. n \in 0..n
      OBVIOUS
    <3> HIDE DEF Eq
    <3> QED
      BY <1>4, <3>1 DEF S
  <2> HIDE DEF Eq
  <2> QED
    BY <2>1
<1>6. EncodeAll(vs) = text[n]
  BY <1>1, <1>5 DEF EncodeAll, Start, St
<1>7. text[0] = Start /\ \A k \in 1..n : text[k] = St(text[k - 1], k)
  <2>1. \A k \in 0..n : text[k] = IF k = 0 THEN Start ELSE St(text[k - 1], k)
    BY <1>5
  <2>2. 0 \in 0..n /\ \A k \in 1..n : k \in 0..n /\ k # 0
    OBVIOUS
  <2> HIDE DEF Eq
  <2> QED
    BY <2>1, <2>2
<1> HIDE DEF Eq
<1> QED
  BY <1>1, <1>6, <1>7 DEF Start, St

\* A text is no longer than the texts together.
LEMMA ElementShorter ==
  ASSUME NEW n \in Nat, NEW text, NEW ws, Texts(text, ws, n), NEW k \in 1..n
  PROVE  Len(ws[k]) <= Len(text[n])
<1>1. k \in 0..n /\ k - 1 \in 0..n /\ n \in 0..n
  OBVIOUS
<1>2. PICK w \in Seq(Byte) : w = ws[k] /\ Joined(text[k], text[k - 1], w)
  BY DEF Texts
<1>3. PICK a \in Seq(Byte), b \in Seq(Byte), c \in Seq(Byte) :
        a = text[k - 1] /\ b = text[k] /\ c = text[n]
  BY <1>1, TextsType
<1>4. PICK tail \in Seq(Byte) : Joined(c, b, tail)
  BY <1>1, <1>3, TextsBegin
<1>5. Len(b) = Len(a) + Len(w) /\ Len(a) \in Nat /\ Len(w) \in Nat
  <2>1. b = a \o w
    BY <1>2, <1>3 DEF Joined
  <2> QED
    BY <2>1, Cat
<1>6. Len(c) = Len(b) + Len(tail) /\ Len(tail) \in Nat
  <2>1. c = b \o tail
    BY <1>4 DEF Joined
  <2> QED
    BY <2>1, Cat
<1>7. PICK i \in Nat, j \in Nat, l \in Nat : i = Len(a) /\ j = Len(w) /\ l = Len(tail)
  BY <1>5, <1>6
<1>8. Len(c) = (i + j) + l
  BY <1>5, <1>6, <1>7
<1>9. j <= (i + j) + l
  OBVIOUS
<1> QED
  BY <1>2, <1>3, <1>7, <1>8, <1>9

\* The text of several replies, one after the other.
LEMMA EncodeAllIs ==
  ASSUME NEW vs \in Seq(Values), NEW n \in Nat, n = Len(vs)
  PROVE  \E text : EncodeAll(vs) = text[n] /\ Texts(text, [k \in 1..n |-> Encode[vs[k]]], n)
<1>1. PICK text : /\ EncodeAll(vs) = text[n] /\ text[0] = <<>>
                  /\ \A k \in 1..n : text[k] = text[k - 1] \o Encode[vs[k]]
  BY EncodeAllDef
<1>2. PICK ws : ws = [k \in 1..n |-> Encode[vs[k]]]
  OBVIOUS
<1>3. ASSUME NEW k \in 1..n PROVE ws[k] \in Seq(Byte) /\ Joined(text[k], text[k - 1], ws[k])
  <2>1. vs[k] \in Values
    BY ElementOfSeq
  <2>2. ws[k] = Encode[vs[k]] /\ Encode[vs[k]] \in Seq(Byte)
    BY <1>2, <2>1, ServerAssumption
  <2>3. text[k] = text[k - 1] \o Encode[vs[k]]
    BY <1>1
  <2> QED
    BY <2>2, <2>3 DEF Joined
<1>4. Texts(text, ws, n)
  BY <1>1, <1>3 DEF Texts
<1> QED
  BY <1>1, <1>2, <1>4

\* A reply is what its elements are, which are shorter.
LEMMA ServerStep ==
  ASSUME Plain, NEW v \in Values,
         \A u \in Values : Len(Encode[u]) < Len(Encode[v]) => Reads(Encode[u], u) /\ Waits(Encode[u])
  PROVE  Reads(Encode[v], v) /\ Waits(Encode[v])
<1>1. IsReply(v) /\ Encode[v] \in Forms(v)
  BY ServerAssumption
<1>2. CASE v.type = "int" /\ v.int \in Int /\ v = Number(v.int)
  <2>1. Encode[v] = Line(":", NumberText(v.int))
    BY <1>1, <1>2 DEF Forms
  <2>2. PICK i \in Int : i = v.int /\ v = Number(i)
    BY <1>2
  <2>3. Reads(Line(":", NumberText(i)), Number(i)) /\ Waits(Line(":", NumberText(i)))
    BY IntReads
  <2> QED
    BY <2>1, <2>2, <2>3
<1>3. CASE v.type = "string" /\ v.str \in Seq(Byte) /\ v = Str(v.str)
  <2>1. PICK t \in Seq(Byte) : t = v.str /\ v = Str(t)
    BY <1>3
  <2>2. \/ Encode[v] = Line("$", NumberText(Len(t))) \o t \o Terminator
        \/ Encode[v] = Line("+", t) /\ Found(t) = 0
    BY <1>1, <1>3, <2>1 DEF Forms
  <2>3. CASE Encode[v] = Line("$", NumberText(Len(t))) \o t \o Terminator
    <3>1. PICK w : w = Line("$", NumberText(Len(t))) \o t \o Terminator
      OBVIOUS
    <3>2. Reads(w, Str(t)) /\ Waits(w)
      BY <3>1, BulkReads
    <3> QED
      BY <2>1, <2>3, <3>1, <3>2
  <2>4. CASE Encode[v] = Line("+", t) /\ Found(t) = 0
    <3>1. Reads(Line("+", t), Str(t)) /\ Waits(Line("+", t))
      BY <2>4, SimpleReads
    <3> QED
      BY <2>1, <2>4, <3>1
  <2> QED
    BY <2>2, <2>3, <2>4
<1>4. CASE v.type = "error" /\ v.str \in Seq(Byte) /\ v = Error(v.str) /\ Found(v.str) = 0
  <2>1. Encode[v] = Line("-", v.str)
    BY <1>1, <1>4 DEF Forms
  <2>2. PICK t \in Seq(Byte) : t = v.str /\ v = Error(t) /\ Found(t) = 0
    BY <1>4
  <2>3. Reads(Line("-", t), Error(t)) /\ Waits(Line("-", t))
    BY <2>2, ErrorReads
  <2> QED
    BY <2>1, <2>2, <2>3
<1>5. CASE v.type = "nil" /\ v = Nil
  <2>1. Encode[v] = Line("$", NumberText(-1)) \/ Encode[v] = Line("*", NumberText(-1))
    BY <1>1, <1>5 DEF Forms
  <2> QED
    BY <1>5, <2>1, NilBulkReads, NilArrayReads
<1>6. CASE v.type = "array" /\ v.elements \in Seq(Values) /\ v = Array(v.elements)
  <2>1. PICK vs \in Seq(Values) : vs = v.elements /\ v = Array(vs)
    BY <1>6
  <2>2. PICK n \in Nat : n = Len(vs)
    BY LenProperties
  <2>3. Encode[v] = Line("*", NumberText(n)) \o EncodeAll(vs)
    BY <1>1, <1>6, <2>1, <2>2 DEF Forms
  <2>4. PICK ws : ws = [k \in 1..n |-> Encode[vs[k]]]
    OBVIOUS
  <2>5. PICK text : EncodeAll(vs) = text[n] /\ Texts(text, ws, n)
    BY <2>2, <2>4, EncodeAllIs
  <2>6. Len(text[n]) < Len(Encode[v]) /\ Len(text[n]) \in Nat
    <3>1. PICK h \in Seq(Byte) : h = NumberText(n)
      BY NumberTextIs
    <3>2. n \in 0..n
      OBVIOUS
    <3>3. PICK u \in Seq(Byte) : u = text[n]
      BY <2>5, <3>2, TextsType
    <3>4. "*" \in Byte
      BY MarksAre
    <3>5. PICK l \in Seq(Byte) : l = Line("*", h) /\ l = <<"*">> \o (h \o Terminator)
      BY <3>4, LineIs
    <3>6. Len(l) \in Nat /\ Len(l) > 0
      <4>1. h \o Terminator \in Seq(Byte)
        BY TerminatorIs, Cat
      <4>2. Len(l) = 1 + Len(h \o Terminator)
        BY <3>4, <3>5, <4>1, CatTail
      <4> QED
        BY <4>1, <4>2, LenProperties
    <3>7. Len(l \o u) = Len(l) + Len(u) /\ Len(u) \in Nat
      BY Cat
    <3>8. Encode[v] = l \o u
      BY <2>3, <2>5, <3>1, <3>3, <3>5
    <3> QED
      BY <3>3, <3>6, <3>7, <3>8
  <2>7. ASSUME NEW k \in 1..n
        PROVE  Reads(ws[k], vs[k]) /\ Waits(ws[k]) /\ vs[k].type # "error"
    <3>1. PICK u \in Values : u = vs[k]
      BY <2>2, ElementOfSeq
    <3>2. ws[k] = Encode[u] /\ Encode[u] \in Seq(Byte)
      BY <2>4, <3>1, ServerAssumption
    <3>3. Len(ws[k]) <= Len(text[n])
      BY <2>5, ElementShorter
    <3>4. Len(Encode[u]) < Len(Encode[v])
      <4>1. PICK a \in Nat, b \in Nat : a = Len(Encode[u]) /\ b = Len(text[n])
        BY <2>6, <3>2, LenProperties
      <4>2. Encode[v] \in Seq(Byte)
        BY ServerAssumption
      <4>3. PICK c \in Nat : c = Len(Encode[v])
        BY <4>2, LenProperties
      <4>4. a <= b /\ b < c
        BY <2>6, <3>2, <3>3, <4>1, <4>3
      <4> QED
        BY <4>1, <4>3, <4>4
    <3>5. u.type # "error"
      BY <1>6, <2>1, <2>2, <3>1 DEF Plain
    <3> QED
      BY <3>1, <3>2, <3>4, <3>5
  <2>8. Spell(ws, vs, n) /\ AllWait(ws, n)
    BY <2>2, <2>7 DEF Spell, AllWait
  <2>9. PICK w : w = Line("*", NumberText(n)) \o text[n]
    OBVIOUS
  <2>10. Reads(w, Array(vs)) /\ Waits(w)
    <3>1. Reads(w, Array(vs)) /\ (AllWait(ws, n) => Waits(w))
      BY <2>5, <2>8, <2>9, ArrayReads
    <3> QED
      BY <2>8, <3>1
  <2> QED
    BY <2>1, <2>3, <2>5, <2>9, <2>10
<1> QED
  BY <1>1, <1>2, <1>3, <1>4, <1>5, <1>6 DEF IsReply

\* Whatever a server writes for a reply, if no array has an error inside, raw_parse
\* reads as that reply, with any bytes behind it; and it takes no part of it for a
\* reply, nor for a malformed one, but asks for more until the last byte is there.
THEOREM ServerReads ==
  ASSUME Plain
  PROVE  \A v \in Values : Reads(Encode[v], v) /\ Waits(Encode[v])
<1> DEFINE Good(v) == Reads(Encode[v], v) /\ Waits(Encode[v])
           S == {l \in Nat : \A v \in Values : Len(Encode[v]) < l => Good(v)}
<1>1. \A v \in Values : Len(Encode[v]) \in Nat
  BY ServerAssumption, LenProperties
<1>2. 0 \in S
  <2>1. \A v \in Values : ~(Len(Encode[v]) < 0)
    BY <1>1
  <2> HIDE DEF Good
  <2> QED
    BY <2>1
<1>3. ASSUME NEW l \in Nat, l \in S PROVE l + 1 \in S
  <2>1. ASSUME NEW v \in Values, Len(Encode[v]) < l + 1 PROVE Good(v)
    <3>1. ASSUME NEW u \in Values, Len(Encode[u]) < Len(Encode[v]) PROVE Good(u)
      <4>1. Len(Encode[u]) < l
        BY <1>1, <2>1, <3>1
      <4> HIDE DEF Good
      <4> QED
        BY <1>3, <4>1
    <3> QED
      BY <3>1, ServerStep
  <2> HIDE DEF Good
  <2> QED
    BY <2>1
<1> HIDE DEF S
<1>4. \A l \in Nat : l \in S
  BY <1>2, <1>3, Induction
<1>5. ASSUME NEW v \in Values PROVE Good(v)
  <2>1. Len(Encode[v]) + 1 \in Nat /\ Len(Encode[v]) < Len(Encode[v]) + 1
    BY <1>1
  <2>2. Len(Encode[v]) + 1 \in S
    BY <1>4, <2>1
  <2> HIDE DEF Good
  <2> QED
    BY <2>1, <2>2 DEF S
<1> QED
  BY <1>5

-----------------------------------------------------------------------------
(* The requests: what serialize writes.                                    *)

\* command_size, argument by argument.
LEMMA CommandSizeDef ==
  ASSUME NEW args, Len(args) \in Nat
  PROVE  \E sz : /\ CommandSize(args) = sz[Len(args)]
                 /\ sz[0] = 1 + SizeForInt(Len(args)) + 2
                 /\ \A k \in 1..Len(args) :
                      sz[k] = sz[k - 1] + 1 + SizeForInt(Len(args[k])) + 2 + Len(args[k]) + 2
<1>1. PICK n \in Nat : n = Len(args)
  OBVIOUS
<1> DEFINE Start == 1 + SizeForInt(Len(args)) + 2
           St(x, i) == x + 1 + SizeForInt(Len(args[i])) + 2 + Len(args[i]) + 2
           Eq(f, k) == f = [i \in 0..k |-> IF i = 0 THEN Start ELSE St(f[i - 1], i)]
           S == {k \in 0..n : \E f : Eq(f, k)}
<1> HIDE DEF Start, St
<1>2. 0 \in S
  <2>1. Eq([i \in 0..0 |-> Start], 0)
    OBVIOUS
  <2>2. 0 \in 0..n
    OBVIOUS
  <2> QED
    BY <2>1, <2>2
<1>3. ASSUME NEW k \in 1..n, k - 1 \in S PROVE k \in S
  <2>1. PICK f : Eq(f, k - 1)
    BY <1>3
  <2> DEFINE g == [i \in 0..k |-> IF i < k THEN f[i] ELSE St(f[k - 1], k)]
  <2>2. ASSUME NEW i \in 0..k PROVE g[i] = IF i = 0 THEN Start ELSE St(g[i - 1], i)
    <3>1. CASE i = 0
      BY <2>1, <3>1
    <3>2. CASE i \in 1..(k - 1)
      <4>1. f[i] = St(f[i - 1], i)
        BY <2>1, <3>2
      <4>2. g[i] = f[i] /\ g[i - 1] = f[i - 1]
        BY <3>2
      <4> QED
        BY <3>2, <4>1, <4>2
    <3>3. CASE i = k
      <4>1. g[k] = St(f[k - 1], k) /\ g[k - 1] = f[k - 1]
        OBVIOUS
      <4> QED
        BY <3>3, <4>1
    <3> QED
      BY <3>1, <3>2, <3>3
  <2>3. Eq(g, k)
    BY <2>2
  <2> HIDE DEF Eq
  <2> QED
    BY <2>3
<1> HIDE DEF S
<1>4. \A k \in 0..n : k \in S
  BY <1>2, <1>3, BoundedInduction
<1>5. PICK sz : /\ sz = CHOOSE f : Eq(f, n)
              /\ Eq(sz, n)
  <2>1. \E f : Eq(f, n)
    <3>1. n \in 0..n
      OBVIOUS
    <3> HIDE DEF Eq
    <3> QED
      BY <1>4, <3>1 DEF S
  <2> HIDE DEF Eq
  <2> QED
    BY <2>1
<1>6. CommandSize(args) = sz[n]
  BY <1>1, <1>5 DEF CommandSize, Start, St
<1>7. sz[0] = Start /\ \A k \in 1..n : sz[k] = St(sz[k - 1], k)
  <2>1. \A k \in 0..n : sz[k] = IF k = 0 THEN Start ELSE St(sz[k - 1], k)
    BY <1>5
  <2>2. 0 \in 0..n /\ \A k \in 1..n : k \in 0..n /\ k # 0
    OBVIOUS
  <2> HIDE DEF Eq
  <2> QED
    BY <2>1, <2>2
<1> HIDE DEF Eq
<1> QED
  BY <1>1, <1>6, <1>7 DEF Start, St

\* serialize, argument by argument.
Printed(buff, args) ==
  Snprintf(buff \o [i \in 1..CommandSize(args) |-> NUL], Len(buff), CommandSize(args),
           Header("*", Len(args)))

\* The buffer when n arguments are in it is that of b[n].
Filled(b, buff, args) ==
  /\ Serialize(buff, args) = b[Len(args)].buff
  /\ b[0] = Printed(buff, args)
  /\ \A k \in 1..Len(args) : b[k] = Argument(b[k - 1], CommandSize(args), args[k])

\* Such a b there is ...
LEMMA SerializeDef ==
  ASSUME NEW buff, NEW args, Len(args) \in Nat
  PROVE  \E b : Filled(b, buff, args)
<1>1. PICK n \in Nat : n = Len(args)
  OBVIOUS
<1> DEFINE Start == Printed(buff, args)
           St(x, i) == Argument(x, CommandSize(args), args[i])
           Eq(f, k) == f = [i \in 0..k |-> IF i = 0 THEN Start ELSE St(f[i - 1], i)]
           S == {k \in 0..n : \E f : Eq(f, k)}
<1> HIDE DEF Start, St
<1>2. 0 \in S
  <2>1. Eq([i \in 0..0 |-> Start], 0)
    OBVIOUS
  <2>2. 0 \in 0..n
    OBVIOUS
  <2> QED
    BY <2>1, <2>2
<1>3. ASSUME NEW k \in 1..n, k - 1 \in S PROVE k \in S
  <2>1. PICK f : Eq(f, k - 1)
    BY <1>3
  <2> DEFINE g == [i \in 0..k |-> IF i < k THEN f[i] ELSE St(f[k - 1], k)]
  <2>2. ASSUME NEW i \in 0..k PROVE g[i] = IF i = 0 THEN Start ELSE St(g[i - 1], i)
    <3>1. CASE i = 0
      BY <2>1, <3>1
    <3>2. CASE i \in 1..(k - 1)
      <4>1. f[i] = St(f[i - 1], i)
        BY <2>1, <3>2
      <4>2. g[i] = f[i] /\ g[i - 1] = f[i - 1]
        BY <3>2
      <4> QED
        BY <3>2, <4>1, <4>2
    <3>3. CASE i = k
      <4>1. g[k] = St(f[k - 1], k) /\ g[k - 1] = f[k - 1]
        OBVIOUS
      <4> QED
        BY <3>3, <4>1
    <3> QED
      BY <3>1, <3>2, <3>3
  <2>3. Eq(g, k)
    BY <2>2
  <2> HIDE DEF Eq
  <2> QED
    BY <2>3
<1> HIDE DEF S
<1>4. \A k \in 0..n : k \in S
  BY <1>2, <1>3, BoundedInduction
<1>5. PICK b : /\ b = CHOOSE f : Eq(f, n)
             /\ Eq(b, n)
  <2>1. \E f : Eq(f, n)
    <3>1. n \in 0..n
      OBVIOUS
    <3> HIDE DEF Eq
    <3> QED
      BY <1>4, <3>1 DEF S
  <2> HIDE DEF Eq
  <2> QED
    BY <2>1
<1>6. Serialize(buff, args) = b[n].buff
  BY <1>1, <1>5 DEF Serialize, Printed, Start, St
<1>7. b[0] = Start /\ \A k \in 1..n : b[k] = St(b[k - 1], k)
  <2>1. \A k \in 0..n : b[k] = IF k = 0 THEN Start ELSE St(b[k - 1], k)
    BY <1>5
  <2>2. 0 \in 0..n /\ \A k \in 1..n : k \in 0..n /\ k # 0
    OBVIOUS
  <2> HIDE DEF Eq
  <2> QED
    BY <2>1, <2>2
<1> HIDE DEF Eq
<1> QED
  BY <1>1, <1>6, <1>7 DEF Start, St, Filled

\* ... and command by command.
FilledAll(buff, cmds) ==
  /\ SerializeAll(cmds) = buff[Len(cmds)]
  /\ buff[0] = <<>>
  /\ \A k \in 1..Len(cmds) : buff[k] = Serialize(buff[k - 1], cmds[k])

\* ... and such a buffer.
LEMMA SerializeAllDef ==
  ASSUME NEW cmds, Len(cmds) \in Nat
  PROVE  \E buff : FilledAll(buff, cmds)
<1>1. PICK n \in Nat : n = Len(cmds)
  OBVIOUS
<1> DEFINE Start == <<>>
           St(x, i) == Serialize(x, cmds[i])
           Eq(f, k) == f = [i \in 0..k |-> IF i = 0 THEN Start ELSE St(f[i - 1], i)]
           S == {k \in 0..n : \E f : Eq(f, k)}
<1> HIDE DEF Start, St
<1>2. 0 \in S
  <2>1. Eq([i \in 0..0 |-> Start], 0)
    OBVIOUS
  <2>2. 0 \in 0..n
    OBVIOUS
  <2> QED
    BY <2>1, <2>2
<1>3. ASSUME NEW k \in 1..n, k - 1 \in S PROVE k \in S
  <2>1. PICK f : Eq(f, k - 1)
    BY <1>3
  <2> DEFINE g == [i \in 0..k |-> IF i < k THEN f[i] ELSE St(f[k - 1], k)]
  <2>2. ASSUME NEW i \in 0..k PROVE g[i] = IF i = 0 THEN Start ELSE St(g[i - 1], i)
    <3>1. CASE i = 0
      BY <2>1, <3>1
    <3>2. CASE i \in 1..(k - 1)
      <4>1. f[i] = St(f[i - 1], i)
        BY <2>1, <3>2
      <4>2. g[i] = f[i] /\ g[i - 1] = f[i - 1]
        BY <3>2
      <4> QED
        BY <3>2, <4>1, <4>2
    <3>3. CASE i = k
      <4>1. g[k] = St(f[k - 1], k) /\ g[k - 1] = f[k - 1]
        OBVIOUS
      <4> QED
        BY <3>3, <4>1
    <3> QED
      BY <3>1, <3>2, <3>3
  <2>3. Eq(g, k)
    BY <2>2
  <2> HIDE DEF Eq
  <2> QED
    BY <2>3
<1> HIDE DEF S
<1>4. \A k \in 0..n : k \in S
  BY <1>2, <1>3, BoundedInduction
<1>5. PICK buff : /\ buff = CHOOSE f : Eq(f, n)
                /\ Eq(buff, n)
  <2>1. \E f : Eq(f, n)
    <3>1. n \in 0..n
      OBVIOUS
    <3> HIDE DEF Eq
    <3> QED
      BY <1>4, <3>1 DEF S
  <2> HIDE DEF Eq
  <2> QED
    BY <2>1
<1>6. SerializeAll(cmds) = buff[n]
  BY <1>1, <1>5 DEF SerializeAll, Start, St
<1>7. buff[0] = Start /\ \A k \in 1..n : buff[k] = St(buff[k - 1], k)
  <2>1. \A k \in 0..n : buff[k] = IF k = 0 THEN Start ELSE St(buff[k - 1], k)
    BY <1>5
  <2>2. 0 \in 0..n /\ \A k \in 1..n : k \in 0..n /\ k # 0
    OBVIOUS
  <2> HIDE DEF Eq
  <2> QED
    BY <2>1, <2>2
<1> HIDE DEF Eq
<1> QED
  BY <1>1, <1>6, <1>7 DEF Start, St, FilledAll

\* Writing into a buffer that is right up to there, and long enough.
LEMMA WriteIs ==
  ASSUME NEW a \in Seq(Byte), NEW fill \in Seq(Byte), NEW x \in Seq(Byte), Len(x) <= Len(fill)
  PROVE  \E r \in Seq(Byte) : /\ Write(a \o fill, Len(a), x) = (a \o x) \o r
                              /\ Len(r) = Len(fill) - Len(x)
<1>1. PICK n \in Nat, k \in Nat, m \in Nat : n = Len(a) /\ k = Len(x) /\ m = Len(fill) /\ k <= m
  BY LenProperties
<1>2. PICK r \in Seq(Byte) : r = From(fill, k + 1) /\ Len(r) = m - k
                             /\ \A i \in 1..(m - k) : r[i] = fill[k + i]
  <2>1. k + 1 \in 1..(Len(fill) + 1)
    BY <1>1
  <2>2. From(fill, k + 1) \in Seq(Byte) /\ Len(From(fill, k + 1)) = Len(fill) + 1 - (k + 1)
    BY <2>1, FromType
  <2>3. PICK r \in Seq(Byte) : r = From(fill, k + 1) /\ Len(r) = m - k
    <3>1. PICK r \in Seq(Byte) : r = From(fill, k + 1) /\ Len(r) = Len(fill) + 1 - (k + 1)
      BY <2>2
    <3>2. m + 1 - (k + 1) = m - k
      OBVIOUS
    <3> QED
      BY <1>1, <3>1, <3>2
  <2>4. ASSUME NEW i \in 1..(m - k) PROVE r[i] = fill[k + i]
    <3>1. \A j \in (k + 1)..m : fill[j] \in Byte
      BY <1>1, ElementOfSeq
    <3>2. k + 1 \in Int /\ m \in Int
      OBVIOUS
    <3>3. \A j \in 1..(m - (k + 1) + 1) : SubSeq(fill, k + 1, m)[j] = fill[(k + 1) + j - 1]
      BY <3>1, <3>2, SubSeqProperties
    <3>4. i \in 1..(m - (k + 1) + 1) /\ (k + 1) + i - 1 = k + i
      BY <1>1
    <3>5. r = SubSeq(fill, k + 1, m)
      BY <1>1, <2>3 DEF From
    <3> QED
      BY <3>3, <3>4, <3>5
  <2> QED
    BY <2>3, <2>4
<1>3. PICK b \in Seq(Byte) : /\ b = a \o fill /\ Len(b) = n + m
                             /\ \A i \in 1..n : b[i] = a[i]
                             /\ \A i \in 1..m : b[n + i] = fill[i]
  <2>1. a \o fill \in Seq(Byte) /\ Len(a \o fill) = Len(a) + Len(fill)
    BY Cat
  <2>2. \A i \in 1..Len(a) : (a \o fill)[i] = a[i]
    BY CatFirst
  <2>3. \A i \in 1..Len(fill) : (a \o fill)[Len(a) + i] = fill[i]
    BY CatSecond
  <2> QED
    BY <1>1, <2>1, <2>2, <2>3
<1>4. PICK c \in Seq(Byte) : /\ c = a \o x /\ Len(c) = n + k
                             /\ \A i \in 1..n : c[i] = a[i]
                             /\ \A i \in 1..k : c[n + i] = x[i]
  <2>1. a \o x \in Seq(Byte) /\ Len(a \o x) = Len(a) + Len(x)
    BY Cat
  <2>2. \A i \in 1..Len(a) : (a \o x)[i] = a[i]
    BY CatFirst
  <2>3. \A i \in 1..Len(x) : (a \o x)[Len(a) + i] = x[i]
    BY CatSecond
  <2> QED
    BY <1>1, <2>1, <2>2, <2>3
<1>5. PICK d : d = c \o r
  OBVIOUS
<1>6. /\ d \in Seq(Byte) /\ Len(d) = n + m
      /\ \A i \in 1..(n + k) : d[i] = c[i]
      /\ \A i \in 1..(m - k) : d[(n + k) + i] = r[i]
  <2>1. c \o r \in Seq(Byte) /\ Len(c \o r) = Len(c) + Len(r)
    BY Cat
  <2>2. \A i \in 1..Len(c) : (c \o r)[i] = c[i]
    BY CatFirst
  <2>3. \A i \in 1..Len(r) : (c \o r)[Len(c) + i] = r[i]
    BY CatSecond
  <2>4. (n + k) + (m - k) = n + m
    OBVIOUS
  <2>5. d \in Seq(Byte) /\ Len(d) = n + m
    BY <1>2, <1>4, <1>5, <2>1, <2>4
  <2>6. \A i \in 1..(n + k) : d[i] = c[i]
    BY <1>4, <1>5, <2>2
  <2>7. \A i \in 1..(m - k) : d[(n + k) + i] = r[i]
    BY <1>2, <1>4, <1>5, <2>3
  <2> QED
    BY <2>5, <2>6, <2>7
<1>7. PICK w : w = [i \in 1..(n + m) |-> IF i \in (n + 1)..(n + k) THEN x[i - n] ELSE b[i]]
  OBVIOUS
<1>8. Write(b, n, x) = w
  <2>1. ~(n + k > Len(b)) /\ n + Len(x) = n + k
    BY <1>1, <1>3
  <2> QED
    BY <1>3, <1>7, <2>1 DEF Write
<1>9. ASSUME NEW i \in 1..(n + m) PROVE w[i] = d[i]
  <2>1. CASE i \in 1..n
    <3>1. ~(i \in (n + 1)..(n + k)) /\ i \in 1..(n + k)
      BY <2>1
    <3> QED
      BY <1>3, <1>4, <1>6, <1>7, <2>1, <3>1
  <2>2. CASE i \in (n + 1)..(n + k)
    <3>1. i - n \in 1..k /\ n + (i - n) = i /\ i \in 1..(n + k)
      BY <2>2
    <3>2. c[i] = x[i - n]
      BY <1>4, <3>1
    <3> QED
      BY <1>6, <1>7, <2>2, <3>1, <3>2
  <2>3. CASE i \in (n + k + 1)..(n + m)
    <3>1. /\ i - (n + k) \in 1..(m - k) /\ (n + k) + (i - (n + k)) = i
          /\ k + (i - (n + k)) = i - n /\ i - n \in 1..m /\ n + (i - n) = i
          /\ ~(i \in (n + 1)..(n + k))
      BY <2>3
    <3>2. d[i] = r[i - (n + k)]
      BY <1>6, <3>1
    <3>3. r[i - (n + k)] = fill[i - n]
      BY <1>2, <3>1
    <3>4. b[i] = fill[i - n]
      BY <1>3, <3>1
    <3> QED
      BY <1>7, <3>1, <3>2, <3>3, <3>4
  <2> QED
    BY <1>1, <2>1, <2>2, <2>3
<1>10. w = d
  <2>1. d = [i \in 1..(n + m) |-> d[i]]
    BY <1>6, LenProperties
  <2> QED
    BY <1>7, <1>9, <2>1
<1> QED
  BY <1>1, <1>2, <1>3, <1>4, <1>5, <1>8, <1>10

\* The same with a name: r is left of what was to be filled.
WrittenIs(a, fill, x, r) ==
  Write(a \o fill, Len(a), x) = (a \o x) \o r /\ Len(r) = Len(fill) - Len(x)

LEMMA WriteLeaves ==
  ASSUME NEW a \in Seq(Byte), NEW fill \in Seq(Byte), NEW x \in Seq(Byte), Len(x) <= Len(fill)
  PROVE  \E r \in Seq(Byte) : WrittenIs(a, fill, x, r)
BY WriteIs DEF WrittenIs

\* The buffer is a, and n bytes that nothing has been printed to.
Holds(b, a, n) ==
  \E fill \in Seq(Byte) : Len(fill) = n /\ b.buff = a \o fill /\ b.total = Len(a)

\* snprintf into such a buffer, when the text and its NUL fit.
LEMMA SnprintfIs ==
  ASSUME NEW a \in Seq(Byte), NEW fill \in Seq(Byte), NEW t \in Seq(Byte), NEW size,
         Len(t) < size, Len(t) < Len(fill)
  PROVE  Holds(Snprintf(a \o fill, Len(a), size, t), a \o t, Len(fill) - Len(t))
<1>1. PICK k \in Nat, m \in Nat : k = Len(t) /\ m = Len(fill) /\ k < m
  BY LenProperties
<1>2. PICK z \in Seq(Byte) : z = <<NUL>> /\ Len(z) = 1
  <2>1. PICK d \in Byte : d = NUL
    BY ByteAssumption
  <2>2. <<d>> \in Seq(Byte) /\ Len(<<d>>) = 1
    OBVIOUS
  <2> QED
    BY <2>1, <2>2
<1>3. PICK x \in Seq(Byte) : x = Append(t, NUL) /\ x = t \o z /\ Len(x) = k + 1
  <2>1. NUL \in Byte
    BY ByteAssumption
  <2>2. Append(t, NUL) = t \o <<NUL>>
    BY <2>1, AppendIsConcat
  <2>3. Append(t, NUL) \in Seq(Byte) /\ Len(Append(t, NUL)) = Len(t) + 1
    BY <2>1, AppendProperties
  <2> QED
    BY <1>1, <1>2, <2>2, <2>3
<1>4. PICK s : s = Snprintf(a \o fill, Len(a), size, t)
  OBVIOUS
<1>5. s.buff = Write(a \o fill, Len(a), x) /\ s.total = Len(a) + Len(t)
  BY <1>3, <1>4 DEF Snprintf
<1>6. PICK r \in Seq(Byte) : Write(a \o fill, Len(a), x) = (a \o x) \o r /\ Len(r) = m - (k + 1)
  <2>1. Len(x) <= Len(fill)
    BY <1>1, <1>3
  <2>2. PICK r \in Seq(Byte) : /\ Write(a \o fill, Len(a), x) = (a \o x) \o r
                               /\ Len(r) = Len(fill) - Len(x)
    BY <2>1, WriteIs
  <2> QED
    BY <1>1, <1>3, <2>2
<1>7. PICK f \in Seq(Byte) : f = z \o r /\ Len(f) = m - k
  <2>1. z \o r \in Seq(Byte) /\ Len(z \o r) = Len(z) + Len(r)
    BY Cat
  <2>2. 1 + (m - (k + 1)) = m - k
    OBVIOUS
  <2> QED
    BY <1>2, <1>6, <2>1, <2>2
<1>8. (a \o x) \o r = (a \o t) \o f
  <2>1. a \o t \in Seq(Byte)
    BY Cat
  <2>2. (a \o t) \o z = a \o (t \o z)
    <3>1. Joined(a \o t, a, t) /\ Joined((a \o t) \o z, a \o t, z)
      BY DEF Joined
    <3>2. Joined((a \o t) \o z, a, t \o z)
      BY <3>1, JoinedTwice, Zenon
    <3> QED
      BY <3>2 DEF Joined
  <2>3. ((a \o t) \o z) \o r = (a \o t) \o (z \o r)
    <3>1. Assoc(a \o t, z, r)
      BY <2>1, CatAssoc, Zenon
    <3> QED
      BY <3>1, Zenon DEF Assoc
  <2> QED
    BY <1>3, <1>7, <2>2, <2>3
<1>9. Len(a \o t) = Len(a) + Len(t)
  BY Cat
<1> QED
  BY <1>1, <1>4, <1>5, <1>6, <1>7, <1>8, <1>9 DEF Holds

\* A command's argument on the wire.
BulkText(t) == Line("$", NumberText(Len(t))) \o t \o Terminator

\* A header is a line, of the size computed for it.
LEMMA HeaderIs ==
  ASSUME NEW mark \in Byte, NEW n \in Nat
  PROVE  /\ Header(mark, n) = Line(mark, NumberText(n)) /\ Header(mark, n) \in Seq(Byte)
         /\ Len(Header(mark, n)) = 1 + SizeForInt(n) + 2 /\ SizeForInt(n) \in Nat
<1>1. PICK h \in Seq(Byte) : h = DecimalText(n) /\ Len(h) = SizeForInt(n) /\ SizeForInt(n) \in Nat
  BY DecimalTextIs
<1>2. NumberText(n) = h
  BY <1>1 DEF NumberText
<1>3. Header(mark, n) = Line(mark, h)
  BY <1>1 DEF Header, Line
<1>4. Line(mark, h) \in Seq(Byte) /\ Line(mark, h) = <<mark>> \o (h \o Terminator)
  BY LineIs
<1>5. h \o Terminator \in Seq(Byte) /\ Len(h \o Terminator) = SizeForInt(n) + 2
  <2>1. h \o Terminator \in Seq(Byte) /\ Len(h \o Terminator) = Len(h) + Len(Terminator)
    BY TerminatorIs, Cat
  <2> QED
    BY <1>1, <2>1, TerminatorIs
<1>6. Len(<<mark>> \o (h \o Terminator)) = 1 + Len(h \o Terminator)
  BY <1>5, CatTail
<1>7. 1 + (SizeForInt(n) + 2) = 1 + SizeForInt(n) + 2
  BY <1>1
<1> QED
  BY <1>1, <1>2, <1>3, <1>4, <1>5, <1>6, <1>7

\* The text of an argument, and its size.
LEMMA BulkTextIs ==
  ASSUME NEW t \in Seq(Byte)
  PROVE  /\ BulkText(t) \in Seq(Byte) /\ BulkText(t) = Header("$", Len(t)) \o (t \o Terminator)
         /\ Len(BulkText(t)) = 1 + SizeForInt(Len(t)) + 2 + Len(t) + 2
<1>1. PICK k \in Nat : k = Len(t)
  BY LenProperties
<1>2. "$" \in Byte
  BY MarksAre
<1>3. PICK h \in Seq(Byte) : /\ h = Header("$", k) /\ h = Line("$", NumberText(k))
                             /\ Len(h) = 1 + SizeForInt(k) + 2 /\ SizeForInt(k) \in Nat
  BY <1>2, HeaderIs
<1>4. PICK u \in Seq(Byte) : u = t \o Terminator /\ Len(u) = k + 2
  <2>1. t \o Terminator \in Seq(Byte) /\ Len(t \o Terminator) = Len(t) + Len(Terminator)
    BY TerminatorIs, Cat
  <2> QED
    BY <1>1, <2>1, TerminatorIs
<1>5. (h \o t) \o Terminator = h \o u
  BY <1>4, TerminatorIs, CatAssociative
<1>6. h \o u \in Seq(Byte) /\ Len(h \o u) = Len(h) + Len(u)
  BY Cat
<1>7. (1 + SizeForInt(k) + 2) + (k + 2) = 1 + SizeForInt(k) + 2 + k + 2
  BY <1>3
<1> QED
  BY <1>1, <1>3, <1>4, <1>5, <1>6, <1>7 DEF BulkText

\* One argument more.
LEMMA ArgumentIs ==
  ASSUME NEW b, NEW a \in Seq(Byte), NEW n \in Nat, NEW t \in Seq(Byte), NEW size,
         Holds(b, a, n), Len(BulkText(t)) <= n, n <= size, size \in Nat
  PROVE  Holds(Argument(b, size, t), a \o BulkText(t), n - Len(BulkText(t)))
<1>1. PICK k \in Nat : k = Len(t)
  BY LenProperties
<1>2. "$" \in Byte
  BY MarksAre
<1>3. PICK h \in Seq(Byte), l \in Nat : h = Header("$", k) /\ l = Len(h)
  BY <1>2, HeaderIs, LenProperties
<1>4. PICK u \in Seq(Byte) : u = t \o Terminator /\ Len(u) = k + 2
  <2>1. t \o Terminator \in Seq(Byte) /\ Len(t \o Terminator) = Len(t) + Len(Terminator)
    BY TerminatorIs, Cat
  <2> QED
    BY <1>1, <2>1, TerminatorIs
<1>5. PICK w \in Seq(Byte) : w = BulkText(t) /\ w = h \o u /\ Len(w) = l + (k + 2)
  <2>1. BulkText(t) \in Seq(Byte) /\ BulkText(t) = h \o u
    BY <1>1, <1>3, <1>4, BulkTextIs
  <2>2. Len(h \o u) = Len(h) + Len(u)
    BY Cat
  <2> QED
    BY <1>3, <1>4, <2>1, <2>2
<1>6. PICK fill \in Seq(Byte) : Len(fill) = n /\ b.buff = a \o fill /\ b.total = Len(a)
  BY DEF Holds
<1>7. PICK c : c = Snprintf(b.buff, b.total, size, h)
  OBVIOUS
<1>8. l + (k + 2) <= n /\ l < n /\ l < size
  BY <1>5
<1>9. Holds(c, a \o h, n - l)
  <2>1. Len(h) < size /\ Len(h) < Len(fill)
    BY <1>3, <1>6, <1>8
  <2>2. Holds(Snprintf(a \o fill, Len(a), size, h), a \o h, Len(fill) - Len(h))
    BY <2>1, SnprintfIs
  <2> QED
    BY <1>3, <1>6, <1>7, <2>2
<1>10. PICK f \in Seq(Byte) : Len(f) = n - l /\ c.buff = (a \o h) \o f /\ c.total = Len(a \o h)
  BY <1>9 DEF Holds
<1>11. a \o h \in Seq(Byte)
  BY Cat
<1>12. PICK r \in Seq(Byte) : /\ Write(c.buff, c.total, u) = ((a \o h) \o u) \o r
                              /\ Len(r) = (n - l) - (k + 2)
  <2>1. Len(u) <= Len(f)
    BY <1>4, <1>8, <1>10
  <2>2. PICK e \in Seq(Byte) : e = a \o h
    BY <1>11
  <2>3. \E r \in Seq(Byte) : Write(e \o f, Len(e), u) = (e \o u) \o r /\ Len(r) = Len(f) - Len(u)
    <3>1. u \in Seq(Byte)
      BY <1>4
    <3>2. PICK r \in Seq(Byte) : WrittenIs(e, f, u, r)
      BY <2>1, <3>1, WriteLeaves, Zenon
    <3> QED
      BY <3>2, Zenon DEF WrittenIs
  <2> QED
    BY <1>4, <1>10, <2>2, <2>3
<1>13. (a \o h) \o u = a \o w
  <2>1. h \in Seq(Byte) /\ u \in Seq(Byte)
    BY <1>3, <1>4
  <2>2. Joined(a \o h, a, h) /\ Joined((a \o h) \o u, a \o h, u)
    BY DEF Joined
  <2>3. Joined((a \o h) \o u, a, h \o u)
    BY <2>1, <2>2, JoinedTwice, Zenon
  <2> QED
    BY <1>5, <2>3 DEF Joined
<1>14. PICK d : d = Argument(b, size, t)
  OBVIOUS
<1>15. d.buff = Write(c.buff, c.total, u) /\ d.total = c.total + Len(t) + 2
  BY <1>1, <1>3, <1>4, <1>7, <1>14 DEF Argument
<1>16. d.total = Len(a \o w)
  <2>1. Len(a \o h) = Len(a) + Len(h) /\ Len(a \o w) = Len(a) + Len(w)
    BY Cat
  <2>2. PICK i \in Nat : i = Len(a)
    BY LenProperties
  <2>3. (i + l) + k + 2 = i + (l + (k + 2))
    OBVIOUS
  <2> QED
    BY <1>1, <1>3, <1>5, <1>10, <1>15, <2>1, <2>2, <2>3
<1>17. n - (l + (k + 2)) = (n - l) - (k + 2)
  OBVIOUS
<1> QED
  BY <1>5, <1>12, <1>13, <1>14, <1>15, <1>16, <1>17 DEF Holds

\* Any texts can be put together.
LEMMA TextsExist ==
  ASSUME NEW n \in Nat, NEW ws, \A k \in 1..n : ws[k] \in Seq(Byte)
  PROVE  \E text : Texts(text, ws, n)
<1> DEFINE step == [k \in 1..n |-> [s \in Seq(Byte) |-> s \o ws[k]]]
<1>1. <<>> \in Seq(Byte)
  BY EmptySeq
<1>2. step \in [1..n -> [Seq(Byte) -> Seq(Byte)]]
  <2>1. \A k \in 1..n : \A s \in Seq(Byte) : s \o ws[k] \in Seq(Byte)
    BY Cat
  <2> QED
    BY <2>1
<1>3. \A k \in 1..n : \A s \in Seq(Byte) : step[k][s] = s \o ws[k]
  OBVIOUS
<1> HIDE DEF step
<1>4. PICK text \in [0..n -> Seq(Byte)] :
        text[0] = <<>> /\ \A k \in 1..n : text[k] = step[k][text[k - 1]]
  <2>1. PICK D, b, next : D = Seq(Byte) /\ b = <<>> /\ next = step
    OBVIOUS
  <2>2. b \in D /\ next \in [1..n -> [D -> D]]
    BY <1>1, <1>2, <2>1
  <2>3. PICK f : Iterates(f, D, b, n, next)
    BY <2>2, Iteration
  <2>4. f \in [0..n -> D] /\ f[0] = b /\ \A i \in 1..n : f[i] = next[i][f[i - 1]]
    BY <2>3, Zenon DEF Iterates
  <2> QED
    BY <2>1, <2>4
<1>5. ASSUME NEW k \in 1..n PROVE Joined(text[k], text[k - 1], ws[k])
  <2>1. k - 1 \in 0..n
    OBVIOUS
  <2>2. text[k - 1] \in Seq(Byte)
    BY <1>4, <2>1
  <2> QED
    BY <1>3, <1>4, <2>2 DEF Joined
<1> QED
  BY <1>4, <1>5 DEF Texts

\* The k-th text is longer than the one before by what is appended to it.
Longer(text, ws, k) ==
  Len(ws[k]) \in Nat /\ Len(text[k]) = Len(text[k - 1]) + Len(ws[k])

\* So it always is.
LEMMA TextsNext ==
  ASSUME NEW n \in Nat, NEW text, NEW ws, Texts(text, ws, n), NEW k \in 1..n
  PROVE  Longer(text, ws, k)
<1>1. PICK w \in Seq(Byte) : w = ws[k] /\ Joined(text[k], text[k - 1], w)
  BY DEF Texts
<1>2. PICK a \in Seq(Byte) : a = text[k - 1]
  <2>1. k - 1 \in 0..n
    OBVIOUS
  <2>2. \A i \in 0..n : text[i] \in Seq(Byte)
    BY TextsType
  <2> QED
    BY <2>1, <2>2
<1>3. Len(a \o w) = Len(a) + Len(w) /\ Len(w) \in Nat
  BY Cat
<1>4. text[k] = a \o w
  BY <1>1, <1>2 DEF Joined
<1> QED
  BY <1>1, <1>2, <1>3, <1>4 DEF Longer

\* The first of the texts are no longer than all.
LEMMA TextsGrow ==
  ASSUME NEW n \in Nat, NEW text, NEW ws, Texts(text, ws, n)
  PROVE  \A k \in 0..n : Len(text[k]) \in Nat /\ Len(text[k]) <= Len(text[n])
<1>1. \A k \in 0..n : text[k] \in Seq(Byte)
  BY TextsType
<1>2. ASSUME NEW k \in 0..n PROVE Len(text[k]) \in Nat /\ Len(text[k]) <= Len(text[n])
  <2>1. PICK a \in Seq(Byte), c \in Seq(Byte) : a = text[k] /\ c = text[n]
    <3>1. n \in 0..n
      OBVIOUS
    <3> QED
      BY <1>1, <3>1
  <2>2. PICK tail \in Seq(Byte) : Joined(c, a, tail)
    BY <2>1, TextsBegin
  <2>3. c = a \o tail
    BY <2>2 DEF Joined
  <2>4. Len(c) = Len(a) + Len(tail) /\ Len(a) \in Nat /\ Len(tail) \in Nat
    BY <2>3, Cat
  <2>5. Len(a) <= Len(c)
    BY <2>4
  <2> QED
    BY <2>1, <2>4, <2>5
<1> QED
  BY <1>2

\* The texts of the arguments.
Bulks(ws, args, n) == n = Len(args) /\ \A k \in 1..n : ws[k] = BulkText(args[k])

\* The size computed for a command is that of its text.
LEMMA CommandSizeIs ==
  ASSUME NEW args \in Seq(Seq(Byte)), NEW n \in Nat,
         NEW text, NEW ws, Texts(text, ws, n), Bulks(ws, args, n)
  PROVE  CommandSize(args) = Len(Header("*", n)) + Len(text[n])
<1>1. PICK sz : /\ CommandSize(args) = sz[n] /\ sz[0] = 1 + SizeForInt(n) + 2
                /\ \A k \in 1..n :
                     sz[k] = sz[k - 1] + 1 + SizeForInt(Len(args[k])) + 2 + Len(args[k]) + 2
  BY CommandSizeDef DEF Bulks
<1>2. PICK h \in Nat : h = Len(Header("*", n)) /\ h = 1 + SizeForInt(n) + 2
  <2>1. Header("*", n) \in Seq(Byte) /\ Len(Header("*", n)) = 1 + SizeForInt(n) + 2
    BY MarksAre, HeaderIs
  <2> QED
    BY <2>1, LenProperties
<1> DEFINE S == {k \in 0..n : sz[k] = h + Len(text[k])}
<1>3. 0 \in S
  <2>1. text[0] = <<>> /\ Len(<<>>) = 0
    BY EmptySeq DEF Texts
  <2>2. sz[0] = h + Len(text[0])
    BY <1>1, <1>2, <2>1
  <2>3. 0 \in 0..n
    OBVIOUS
  <2> QED
    BY <2>2, <2>3
<1>4. ASSUME NEW k \in 1..n, k - 1 \in S PROVE k \in S
  <2>1. k - 1 \in 0..n /\ k \in 0..n
    OBVIOUS
  <2>2. PICK a \in Nat : a = Len(text[k - 1]) /\ sz[k - 1] = h + a
    BY <1>4, <2>1, TextsGrow
  <2>3. PICK t \in Seq(Byte) : t = args[k]
    BY ElementOfSeq DEF Bulks
  <2>4. PICK l \in Nat : l = Len(t)
    BY LenProperties
  <2>5. PICK j \in Nat : j = SizeForInt(l)
    BY MarksAre, HeaderIs
  <2>6. Len(ws[k]) = 1 + j + 2 + l + 2
    BY <2>3, <2>4, <2>5, BulkTextIs DEF Bulks
  <2>7. Len(text[k]) = a + (1 + j + 2 + l + 2)
    <3>1. Len(text[k]) = Len(text[k - 1]) + Len(ws[k])
      <4>1. Longer(text, ws, k)
        BY TextsNext
      <4> QED
        BY <4>1 DEF Longer
    <3> QED
      BY <2>2, <2>6, <3>1
  <2>8. sz[k] = (h + a) + 1 + j + 2 + l + 2
    BY <1>1, <2>2, <2>3, <2>4, <2>5
  <2>9. (h + a) + 1 + j + 2 + l + 2 = h + (a + (1 + j + 2 + l + 2))
    OBVIOUS
  <2> QED
    BY <2>1, <2>7, <2>8, <2>9
<1> HIDE DEF S
<1>5. \A k \in 0..n : k \in S
  BY <1>3, <1>4, BoundedInduction
<1>6. n \in 0..n
  OBVIOUS
<1>7. sz[n] = h + Len(text[n])
  BY <1>5, <1>6 DEF S
<1> QED
  BY <1>1, <1>2, <1>7

\* A command is written behind what the buffer holds, and fills it.
LEMMA SerializeIs ==
  ASSUME NEW buff \in Seq(Byte), NEW args \in Seq(Seq(Byte)), args # <<>>,
         NEW n \in Nat,
         NEW text, NEW ws, Texts(text, ws, n), Bulks(ws, args, n)
  PROVE  Serialize(buff, args) = buff \o (Line("*", NumberText(n)) \o text[n])
<1>1. PICK L \in Seq(Byte), l \in Nat :
        L = Header("*", n) /\ L = Line("*", NumberText(n)) /\ l = Len(L)
  BY MarksAre, HeaderIs, LenProperties
<1>2. \A k \in 0..n : text[k] \in Seq(Byte)
  BY TextsType
<1>3. PICK N \in Nat : N = Len(text[n]) /\ \A k \in 0..n : Len(text[k]) <= N
  <2>1. n \in 0..n
    OBVIOUS
  <2> QED
    BY <2>1, TextsGrow
<1>4. PICK size \in Nat : size = CommandSize(args) /\ size = l + N
  <2>1. CommandSize(args) = Len(Header("*", n)) + Len(text[n])
    BY CommandSizeIs, Zenon
  <2>2. l + N \in Nat
    OBVIOUS
  <2> QED
    BY <1>1, <1>3, <2>1, <2>2
<1>5. N > 0
  <2>1. n # 0
    BY EmptySeq DEF Bulks
  <2>2. 1 \in 1..n /\ 1 \in 0..n /\ 0 \in 0..n
    BY <2>1
  <2>3. PICK t \in Seq(Byte) : t = args[1]
    BY <2>2, ElementOfSeq DEF Bulks
  <2>4. PICK i \in Nat, j \in Nat : i = Len(t) /\ j = SizeForInt(i)
    BY LenProperties, MarksAre, HeaderIs
  <2>5. Len(ws[1]) = 1 + j + 2 + i + 2
    BY <2>2, <2>3, <2>4, BulkTextIs DEF Bulks
  <2>6. Len(ws[1]) <= N
    BY <1>3, <2>2, ElementShorter
  <2> QED
    BY <2>4, <2>5, <2>6
<1>6. PICK b : /\ Serialize(buff, args) = b[n].buff /\ b[0] = Printed(buff, args)
               /\ \A k \in 1..n : b[k] = Argument(b[k - 1], size, args[k])
  <2>1. Len(args) = n
    BY DEF Bulks
  <2>2. Len(args) \in Nat
    BY <2>1
  <2>3. PICK b : Filled(b, buff, args)
    BY <2>2, SerializeDef
  <2> QED
    BY <1>4, <2>1, <2>3 DEF Filled
<1> DEFINE S == {k \in 0..n : Holds(b[k], buff \o (L \o text[k]), N - Len(text[k]))}
<1>7. 0 \in S
  <2>1. PICK zeros \in Seq(Byte) : zeros = [i \in 1..size |-> NUL] /\ Len(zeros) = size
    <3>1. PICK d \in Byte : d = NUL
      BY ByteAssumption
    <3>2. [i \in 1..size |-> d] \in Seq(Byte) /\ Len([i \in 1..size |-> d]) = size
      OBVIOUS
    <3> QED
      BY <3>1, <3>2
  <2>2. b[0] = Snprintf(buff \o zeros, Len(buff), size, L)
    BY <1>1, <1>4, <1>6, <2>1 DEF Printed, Bulks
  <2>3. Len(L) < size /\ Len(L) < Len(zeros)
    BY <1>1, <1>4, <1>5, <2>1
  <2>4. Holds(b[0], buff \o L, Len(zeros) - Len(L))
    BY <2>2, <2>3, SnprintfIs
  <2>5. Len(zeros) - Len(L) = N
    <3>1. (l + N) - l = N
      OBVIOUS
    <3> QED
      BY <1>1, <1>4, <2>1, <3>1
  <2>6. text[0] = <<>> /\ Len(<<>>) = 0 /\ L \o <<>> = L
    BY EmptySeq, CatEmpty DEF Texts
  <2>7. N - 0 = N /\ 0 \in 0..n
    OBVIOUS
  <2>8. Holds(b[0], buff \o (L \o text[0]), N - Len(text[0]))
    BY <2>4, <2>5, <2>6, <2>7
  <2> QED
    BY <2>7, <2>8
<1>8. ASSUME NEW k \in 1..n, k - 1 \in S PROVE k \in S
  <2>1. k - 1 \in 0..n /\ k \in 0..n
    OBVIOUS
  <2>2. PICK x \in Seq(Byte), y \in Nat : x = text[k - 1] /\ y = Len(x) /\ y <= N
    BY <1>2, <1>3, <2>1, LenProperties
  <2>3. PICK t \in Seq(Byte) : t = args[k]
    BY ElementOfSeq DEF Bulks
  <2>4. PICK w \in Seq(Byte), j \in Nat : w = ws[k] /\ w = BulkText(t) /\ j = Len(w)
    BY <2>3, BulkTextIs, LenProperties DEF Bulks
  <2>5. Len(text[k]) = y + j /\ y + j <= N
    <3>1. Len(text[k]) = Len(text[k - 1]) + Len(ws[k])
      <4>1. Longer(text, ws, k)
        BY TextsNext
      <4> QED
        BY <4>1 DEF Longer
    <3>2. Len(text[k]) = y + j
      BY <2>2, <2>4, <3>1
    <3> QED
      BY <1>3, <2>1, <3>2
  <2>6. L \o x \in Seq(Byte)
    BY <1>1, <2>2, Cat
  <2>7. PICK a \in Seq(Byte) : a = buff \o (L \o x)
    BY <2>6, Cat
  <2>8. PICK m \in Nat : m = N - y /\ j <= m /\ m <= size
    <3>1. N - y \in Nat /\ j <= N - y /\ N - y <= l + N
      <4>1. y \in Nat /\ j \in Nat /\ N \in Nat /\ l \in Nat /\ y + j <= N
        BY <1>1, <1>3, <2>2, <2>4, <2>5
      <4> QED
        BY <4>1
    <3> QED
      BY <1>4, <3>1
  <2>9. Holds(b[k - 1], a, m)
    BY <1>8, <2>2, <2>7, <2>8
  <2>10. b[k] = Argument(b[k - 1], size, t)
    BY <1>6, <2>3
  <2>11. Holds(b[k], a \o w, m - j)
    <3>1. Holds(Argument(b[k - 1], size, t), a \o BulkText(t), m - Len(BulkText(t)))
      <4>1. Len(BulkText(t)) <= m /\ size \in Nat
        BY <2>4, <2>8
      <4> QED
        BY <2>8, <2>9, <4>1, ArgumentIs
    <3> QED
      BY <2>4, <2>10, <3>1
  <2>12. m - j = N - Len(text[k])
    <3>1. (N - y) - j = N - (y + j)
      BY <2>2, <2>4
    <3> QED
      BY <2>5, <2>8, <3>1
  <2>13. a \o w = buff \o (L \o text[k])
    <3>1. Joined(text[k], x, w)
      BY <2>2, <2>4 DEF Texts
    <3>2. Joined(a, buff, L \o x) /\ Joined(a \o w, a, w)
      BY <2>7 DEF Joined
    <3>3. Joined(a \o w, buff, (L \o x) \o w)
      BY <2>4, <2>6, <3>2, JoinedTwice, Zenon
    <3>4. Joined(L \o x, L, x) /\ Joined((L \o x) \o w, L \o x, w)
      BY DEF Joined
    <3>5. Joined((L \o x) \o w, L, x \o w)
      BY <1>1, <2>2, <2>4, <3>4, JoinedTwice, Zenon
    <3> QED
      BY <3>1, <3>3, <3>5 DEF Joined
  <2> QED
    BY <2>1, <2>11, <2>12, <2>13
<1> HIDE DEF S
<1>9. \A k \in 0..n : k \in S
  BY <1>7, <1>8, BoundedInduction
<1>10. Holds(b[n], buff \o (L \o text[n]), 0)
  <2>1. n \in 0..n
    OBVIOUS
  <2>2. Holds(b[n], buff \o (L \o text[n]), N - Len(text[n]))
    BY <1>9, <2>1 DEF S
  <2>3. N - Len(text[n]) = 0
    BY <1>3
  <2> QED
    BY <2>2, <2>3
<1>11. b[n].buff = buff \o (L \o text[n])
  <2>1. PICK fill \in Seq(Byte) : Len(fill) = 0 /\ b[n].buff = (buff \o (L \o text[n])) \o fill
    BY <1>10 DEF Holds
  <2>2. fill = <<>>
    BY <2>1, EmptySeq
  <2>3. buff \o (L \o text[n]) \in Seq(Byte)
    <3>1. n \in 0..n
      OBVIOUS
    <3>2. L \o text[n] \in Seq(Byte)
      BY <1>1, <1>2, <3>1, Cat
    <3> QED
      BY <3>2, Cat
  <2>4. (buff \o (L \o text[n])) \o <<>> = buff \o (L \o text[n])
    BY <2>3, CatEmpty
  <2> QED
    BY <2>1, <2>2, <2>4
<1> QED
  BY <1>1, <1>6, <1>11

\* The server reads what it was sent.
LEMMA CommandReads ==
  ASSUME NEW buff \in Seq(Byte), NEW args \in Seq(Seq(Byte)) \ {<<>>}
  PROVE  \E w \in Seq(Byte) : Serialize(buff, args) = buff \o w /\ Reads(w, AsReply(args))
<1>1. PICK n \in Nat : n = Len(args)
  BY LenProperties
<1>2. \A k \in 1..n : args[k] \in Seq(Byte)
  BY <1>1, ElementOfSeq
<1>3. PICK ws : ws = [k \in 1..n |-> BulkText(args[k])]
  OBVIOUS
<1>4. \A k \in 1..n : ws[k] = BulkText(args[k]) /\ ws[k] \in Seq(Byte)
  BY <1>2, <1>3, BulkTextIs
<1>5. PICK text : Texts(text, ws, n)
  BY <1>4, TextsExist
<1>6. PICK w : w = Line("*", NumberText(n)) \o text[n]
  OBVIOUS
<1>7. w \in Seq(Byte)
  <2>1. n \in 0..n
    OBVIOUS
  <2>2. text[n] \in Seq(Byte)
    BY <1>5, <2>1, TextsType
  <2>3. Line("*", NumberText(n)) \in Seq(Byte)
    BY MarksAre, HeaderIs
  <2> QED
    BY <1>6, <2>2, <2>3, Cat
<1>8. Serialize(buff, args) = buff \o w
  <2>1. Bulks(ws, args, n)
    BY <1>1, <1>4 DEF Bulks
  <2>2. args \in Seq(Seq(Byte)) /\ args # <<>>
    OBVIOUS
  <2>3. Serialize(buff, args) = buff \o (Line("*", NumberText(n)) \o text[n])
    BY <1>5, <2>1, <2>2, SerializeIs
  <2> QED
    BY <1>6, <2>3
<1>9. PICK V : V = {Str(t) : t \in Seq(Byte)}
  OBVIOUS
<1>10. PICK vs : vs = [i \in 1..n |-> Str(args[i])]
  OBVIOUS
<1>11. vs \in Seq(V) /\ Len(vs) = n
  <2>1. \A i \in 1..n : Str(args[i]) \in V
    BY <1>2, <1>9
  <2>2. [i \in 1..n |-> Str(args[i])] \in Seq(V) /\ Len([i \in 1..n |-> Str(args[i])]) = n
    BY <2>1
  <2> QED
    BY <1>10, <2>2
<1>12. Spell(ws, vs, n)
  <2>1. ASSUME NEW k \in 1..n PROVE Reads(ws[k], vs[k]) /\ vs[k].type # "error"
    <3>1. PICK t \in Seq(Byte) : t = args[k]
      BY <1>2
    <3>2. PICK u : u = Line("$", NumberText(Len(t))) \o t \o Terminator
      OBVIOUS
    <3>3. Reads(u, Str(t))
      BY <3>2, BulkReads
    <3>4. ws[k] = u
      BY <1>4, <3>1, <3>2 DEF BulkText
    <3>5. vs[k] = Str(t)
      BY <1>10, <3>1
    <3>6. Str(t).type # "error"
      BY DEF Str
    <3> QED
      BY <3>3, <3>4, <3>5, <3>6
  <2> QED
    BY <1>11, <2>1 DEF Spell
<1>13. Reads(w, Array(vs))
  BY <1>5, <1>6, <1>11, <1>12, ArrayReads
<1>14. AsReply(args) = Array(vs)
  <2>1. DOMAIN args = 1..n
    BY <1>1, LenProperties
  <2> QED
    BY <1>10, <2>1 DEF AsReply
<1> QED
  BY <1>7, <1>8, <1>13, <1>14

-----------------------------------------------------------------------------
(* The loop of read_message on what the server, or the client, wrote.      *)

\* A text of a reply has a byte.
LEMMA ReadsNonEmpty ==
  ASSUME NEW w \in Seq(Byte), NEW v, Reads(w, v)
  PROVE  Len(w) \in Nat \ {0}
<1>1. <<>> \in Seq(Byte)
  BY EmptySeq
<1>2. Raw[<<>>] = ProtocolError("not_enough_data")
  BY <1>1, RawIsRecursive DEF Raw
<1>3. Raw[w \o <<>>] = Report(v, Len(w)) /\ w \o <<>> = w
  BY <1>1, CatEmpty DEF Reads
<1>4. Report(v, Len(w)) # ProtocolError("not_enough_data")
  BY DEF Report, ErrorReply, Positive, ProtocolError
<1>5. w # <<>>
  BY <1>2, <1>3, <1>4
<1> QED
  BY <1>5, EmptySeq, LenProperties

\* What is reported of a reply is the reply.
LEMMA ReportIs ==
  ASSUME NEW v, NEW n \in Nat
  PROVE  Consumed(Report(v, n)) = n /\ Reported(Report(v, n)) = Seen(v)
BY DEF Report, ErrorReply, Positive, Consumed, Reported, Seen

\* n replies vs, the text of each, and the first k of the texts together.
Spelled(vs, ws, text, n) ==
  n = Len(vs) /\ Texts(text, ws, n) /\ \A k \in 1..n : Reads(ws[k], vs[k])

\* Behind the k-th, there are the bytes in, and the tail is missing.
Left(text, k, n, in, tail) == Joined(text[n], text[k] \o in, tail)

\* The replies are all read when there is nothing behind them.
LEMMA AllRead ==
  ASSUME NEW n \in Nat, NEW vs, NEW ws, NEW text, Spelled(vs, ws, text, n), NEW k \in 0..n,
         NEW in \in Seq(Byte), NEW tail \in Seq(Byte), Left(text, k, n, in, tail)
  PROVE  k = n <=> in = <<>> /\ tail = <<>>
<1>1. Texts(text, ws, n)
  BY DEF Spelled
<1>2. \A i \in 0..n : text[i] \in Seq(Byte)
  BY <1>1, TextsType
<1>3. PICK a \in Seq(Byte), c \in Seq(Byte) : a = text[k] /\ c = text[n]
  <2>1. n \in 0..n
    OBVIOUS
  <2> QED
    BY <1>2, <2>1
<1>4. PICK i \in Nat, j \in Nat, l \in Nat : i = Len(a) /\ j = Len(in) /\ l = Len(tail)
  BY LenProperties
<1>5. Len(c) = (i + j) + l
  <2>1. a \o in \in Seq(Byte) /\ Len(a \o in) = Len(a) + Len(in)
    BY Cat
  <2>2. Len((a \o in) \o tail) = Len(a \o in) + Len(tail)
    BY <2>1, Cat
  <2>3. c = (a \o in) \o tail
    BY <1>3 DEF Left, Joined
  <2> QED
    BY <1>4, <2>1, <2>2, <2>3
<1>6. j = 0 <=> in = <<>>
  BY <1>4, EmptySeq
<1>7. l = 0 <=> tail = <<>>
  BY <1>4, EmptySeq
<1>8. CASE k = n
  <2>1. i = (i + j) + l
    BY <1>3, <1>4, <1>5, <1>8
  <2>2. j = 0 /\ l = 0
    BY <1>4, <2>1
  <2> QED
    BY <1>6, <1>7, <1>8, <2>2
<1>9. CASE k # n
  <2>1. k + 1 \in 1..n /\ k + 1 \in 0..n /\ (k + 1) - 1 = k
    BY <1>9
  <2>2. PICK w \in Seq(Byte) : w = ws[k + 1] /\ Reads(w, vs[k + 1])
    BY <1>1, <2>1 DEF Texts, Spelled
  <2>3. PICK m \in Nat \ {0} : m = Len(w)
    BY <2>2, ReadsNonEmpty
  <2>4. Len(text[k + 1]) = i + m
    <3>1. Longer(text, ws, k + 1)
      BY <1>1, <2>1, TextsNext
    <3> QED
      BY <1>3, <1>4, <2>1, <2>2, <2>3, <3>1 DEF Longer
  <2>5. i + m <= (i + j) + l
    BY <1>1, <1>3, <1>5, <2>1, <2>4, TextsGrow
  <2>6. ~(j = 0 /\ l = 0)
    BY <1>4, <2>3, <2>5
  <2> QED
    BY <1>6, <1>7, <1>9, <2>6
<1> QED
  BY <1>8, <1>9

\* What comes next is the next reply, or a part of it.
LEMMA NextReply ==
  ASSUME NEW n \in Nat, NEW vs, NEW ws, NEW text, Spelled(vs, ws, text, n), NEW k \in 0..n,
         NEW in \in Seq(Byte), NEW tail \in Seq(Byte), Left(text, k, n, in, tail), in # <<>>
  PROVE  /\ k + 1 \in 1..n
         /\ \/ \E m \in Seq(Byte) : Joined(in, ws[k + 1], m) /\ Left(text, k + 1, n, m, tail)
            \/ \E q \in Seq(Byte) : q # <<>> /\ Joined(ws[k + 1], in, q) /\ tail # <<>>
<1>1. k # n
  BY AllRead
<1>2. k + 1 \in 1..n /\ k + 1 \in 0..n /\ (k + 1) - 1 = k
  BY <1>1
<1>3. Texts(text, ws, n)
  BY DEF Spelled
<1>4. PICK a \in Seq(Byte), b \in Seq(Byte), c \in Seq(Byte) :
        a = text[k] /\ b = text[k + 1] /\ c = text[n]
  <2>1. n \in 0..n
    OBVIOUS
  <2>2. \A i \in 0..n : text[i] \in Seq(Byte)
    BY <1>3, TextsType
  <2> QED
    BY <1>2, <2>1, <2>2
<1>5. PICK w \in Seq(Byte) : w = ws[k + 1] /\ Joined(b, a, w)
  BY <1>2, <1>3, <1>4 DEF Texts
<1>6. PICK rest \in Seq(Byte) : Joined(c, b, rest)
  BY <1>2, <1>3, <1>4, TextsBegin
<1>7. PICK d : d = in \o tail
  OBVIOUS
<1>8. d = w \o rest
  <2>1. Joined(a \o in, a, in) /\ Joined(c, a \o in, tail)
    BY <1>4 DEF Left, Joined
  <2>2. Joined(c, a, in \o tail)
    BY <2>1, JoinedTwice, Zenon
  <2>3. Joined(c, a, w \o rest)
    BY <1>5, <1>6, JoinedTwice, Zenon
  <2>4. in \o tail \in Seq(Byte) /\ w \o rest \in Seq(Byte)
    BY Cat
  <2>5. a \o (in \o tail) = a \o (w \o rest)
    BY <2>2, <2>3 DEF Joined
  <2> QED
    BY <1>7, <2>4, <2>5, CatCancel
<1>9. Joined(d, in, tail) /\ Joined(d, w, rest)
  BY <1>7, <1>8 DEF Joined
<1>10. PICK i \in Nat, j \in Nat : i = Len(w) /\ j = Len(in)
  BY LenProperties
<1>11. CASE i <= j
  <2>1. Len(w) <= Len(in)
    BY <1>10, <1>11
  <2>2. PICK m \in Seq(Byte) : Joined(in, w, m) /\ Joined(rest, m, tail)
    BY <1>9, <2>1, CutTwice
  <2>3. Joined(c, b \o m, tail)
    <3>1. c = b \o (m \o tail)
      BY <1>6, <2>2 DEF Joined
    <3>2. (b \o m) \o tail = b \o (m \o tail)
      <4>1. m \in Seq(Byte)
        BY <2>2
      <4>2. Joined(b \o m, b, m) /\ Joined((b \o m) \o tail, b \o m, tail)
        BY DEF Joined
      <4>3. Joined((b \o m) \o tail, b, m \o tail)
        BY <4>1, <4>2, JoinedTwice, Zenon
      <4> QED
        BY <4>3 DEF Joined
    <3> QED
      BY <3>1, <3>2 DEF Joined
  <2> QED
    BY <1>2, <1>4, <1>5, <2>2, <2>3 DEF Left
<1>12. CASE ~(i <= j)
  <2>1. Len(in) <= Len(w)
    BY <1>10, <1>12
  <2>2. PICK q \in Seq(Byte) : Joined(w, in, q) /\ Joined(tail, q, rest)
    BY <1>9, <2>1, CutTwice
  <2>3. PICK l \in Nat, r \in Nat : l = Len(q) /\ r = Len(rest)
    BY LenProperties
  <2>4. i = j + l /\ Len(tail) = l + r
    BY <1>10, <2>2, <2>3, Cat DEF Joined
  <2>5. l # 0
    BY <1>12, <2>4
  <2>6. q # <<>> /\ tail # <<>>
    <3>1. l + r # 0 /\ Len(<<>>) = 0
      BY <2>5
    <3> QED
      BY <2>3, <2>4, <2>5, <3>1
  <2> QED
    BY <1>2, <1>5, <2>2, <2>6
<1> QED
  BY <1>10, <1>11, <1>12

-----------------------------------------------------------------------------
(* RespRoundTrip's invariants.                                             *)

\* What handler_parse_result_t may be given.
Results == {RawParse(s) : s \in Seq(Byte)}

\* The first k reports are the first k replies.
AllSeen(ps, vs, k) == \A i \in 1..k : Reported(ps[i]) = Seen(vs[i])

\* Nothing is missing, or a part of a reply that is waited for.
Tailed(ws, n, tail) == IF complete THEN tail = <<>> ELSE tail # <<>> /\ AllWait(ws, n)

\* All replies so far were read, or nothing is left but a part of one.
Reading(text, n, tail) ==
  /\ Len(parsed) \in 0..n
  /\ Left(text, Len(parsed), n, incoming, tail)
  /\ AllSeen(parsed, sent, Len(parsed))
\* All but the last report are replies; the last says that bytes are missing.
Broken ==
  /\ ~complete /\ max_bytes = 0 /\ parsed # <<>>
  /\ parsed[Len(parsed)] = ProtocolError("not_enough_data")
  /\ AllSeen(parsed, sent, Len(parsed) - 1)

\* The two are all there is.
Trip(ws, text, n, tail) ==
  /\ Spelled(sent, ws, text, n) /\ Tailed(ws, n, tail)
  /\ Reading(text, n, tail) \/ Broken

\* What there is of the replies is what is left of their texts.
TripInv ==
  /\ LoopInv /\ parsed \in Seq(Results)
  /\ \/ sent = <<>> /\ ~complete
     \/ \E n \in Nat, tail \in Seq(Byte) : \E ws, text : Trip(ws, text, n, tail)

\* The requests are spelled like replies.
LEMMA RequestsSpelled ==
  ASSUME NEW cmds \in Requests
  PROVE  \E n \in Nat : \E ws, text :
           /\ Spelled([i \in DOMAIN cmds |-> AsReply(cmds[i])], ws, text, n)
           /\ SerializeAll(cmds) = text[n]
<1> DEFINE C == Seq(Seq(Byte)) \ {<<>>}
<1>1. cmds \in Seq(C)
  BY RequestsAssumption
<1> HIDE DEF C
<1>2. PICK n \in Nat : n = Len(cmds) /\ DOMAIN cmds = 1..n
  BY <1>1, LenProperties
<1>3. \A k \in 1..n : cmds[k] \in C
  BY <1>1, <1>2, ElementOfSeq
<1>4. PICK buff : FilledAll(buff, cmds)
  <2>1. Len(cmds) \in Nat
    BY <1>2
  <2> QED
    BY <2>1, SerializeAllDef
<1>5. /\ SerializeAll(cmds) = buff[n] /\ buff[0] = <<>>
      /\ \A k \in 1..n : buff[k] = Serialize(buff[k - 1], cmds[k])
  BY <1>2, <1>4 DEF FilledAll
<1>6. ASSUME NEW k \in 1..n, buff[k - 1] \in Seq(Byte)
      PROVE  \E w \in Seq(Byte) : Joined(buff[k], buff[k - 1], w) /\ Reads(w, AsReply(cmds[k]))
  <2>1. PICK b \in Seq(Byte), args \in Seq(Seq(Byte)) \ {<<>>} : b = buff[k - 1] /\ args = cmds[k]
    BY <1>3, <1>6 DEF C
  <2>2. PICK w \in Seq(Byte) : Serialize(b, args) = b \o w /\ Reads(w, AsReply(args))
    BY CommandReads
  <2> QED
    BY <1>5, <2>1, <2>2 DEF Joined
<1> DEFINE S == {k \in 0..n : buff[k] \in Seq(Byte)}
<1>7. 0 \in S
  <2>1. 0 \in 0..n /\ <<>> \in Seq(Byte)
    BY EmptySeq
  <2> QED
    BY <1>5, <2>1
<1>8. ASSUME NEW k \in 1..n, k - 1 \in S PROVE k \in S
  <2>1. PICK b \in Seq(Byte) : b = buff[k - 1]
    BY <1>8
  <2>2. PICK w \in Seq(Byte) : Joined(buff[k], buff[k - 1], w)
    BY <1>6, <2>1
  <2>3. b \o w \in Seq(Byte) /\ k \in 0..n
    BY Cat
  <2> QED
    BY <2>1, <2>2, <2>3 DEF Joined
<1> HIDE DEF S
<1>9. \A k \in 0..n : k \in S
  BY <1>7, <1>8, BoundedInduction
<1>10. PICK ws : ws = [k \in 1..n |-> CHOOSE w \in Seq(Byte) :
                         Joined(buff[k], buff[k - 1], w) /\ Reads(w, AsReply(cmds[k]))]
  OBVIOUS
<1>11. ASSUME NEW k \in 1..n
       PROVE  /\ ws[k] \in Seq(Byte) /\ Joined(buff[k], buff[k - 1], ws[k])
              /\ Reads(ws[k], AsReply(cmds[k]))
  <2>1. k - 1 \in 0..n
    OBVIOUS
  <2>2. buff[k - 1] \in Seq(Byte)
    BY <1>9, <2>1 DEF S
  <2>3. \E w \in Seq(Byte) : Joined(buff[k], buff[k - 1], w) /\ Reads(w, AsReply(cmds[k]))
    BY <1>6, <2>2
  <2>4. ws[k] = CHOOSE w \in Seq(Byte) :
                  Joined(buff[k], buff[k - 1], w) /\ Reads(w, AsReply(cmds[k]))
    BY <1>10
  <2> QED
    BY <2>3, <2>4, Zenon
<1>12. PICK vs : vs = [i \in DOMAIN cmds |-> AsReply(cmds[i])]
  OBVIOUS
<1>13. n = Len(vs) /\ \A k \in 1..n : vs[k] = AsReply(cmds[k])
  BY <1>2, <1>12
<1>14. Texts(buff, ws, n)
  BY <1>5, <1>11 DEF Texts
<1>15. Spelled(vs, ws, buff, n)
  BY <1>11, <1>13, <1>14 DEF Spelled
<1> QED
  BY <1>5, <1>12, <1>15

\* So are the replies of the server.
LEMMA RepliesSpelled ==
  ASSUME Plain, NEW vs \in Replies
  PROVE  \E n \in Nat : \E ws, text :
           Spelled(vs, ws, text, n) /\ AllWait(ws, n) /\ EncodeAll(vs) = text[n]
<1>1. vs \in Seq(Values)
  BY ServerAssumption
<1>2. PICK n \in Nat : n = Len(vs)
  BY <1>1, LenProperties
<1>3. PICK ws : ws = [k \in 1..n |-> Encode[vs[k]]]
  OBVIOUS
<1>4. PICK text : EncodeAll(vs) = text[n] /\ Texts(text, ws, n)
  BY <1>1, <1>2, <1>3, EncodeAllIs
<1>5. ASSUME NEW k \in 1..n PROVE Reads(ws[k], vs[k]) /\ Waits(ws[k])
  <2>1. vs[k] \in Values
    BY <1>1, <1>2, ElementOfSeq
  <2> QED
    BY <1>3, <2>1, ServerReads
<1> QED
  BY <1>2, <1>4, <1>5 DEF Spelled, AllWait

\* A text is what was received of it and the rest.
LEMMA Split ==
  ASSUME NEW s \in Seq(Byte), NEW n \in 0..Len(s)
  PROVE  \E a, b \in Seq(Byte) : /\ a = SubSeq(s, 1, n) /\ Joined(s, a, b)
                                 /\ b = <<>> <=> n = Len(s)
<1>1. PICK m \in Nat : m = Len(s)
  BY LenProperties
<1>2. /\ 1 \in 1..(Len(s) + 1) /\ n \in (1 - 1)..Len(s) /\ Len(s) \in n..Len(s)
      /\ n + 1 \in 1..(Len(s) + 1)
  BY <1>1
<1>3. PICK b \in Seq(Byte) : b = From(s, n + 1) /\ Len(b) = Len(s) + 1 - (n + 1)
  BY <1>2, FromType
<1>4. SubSeq(s, 1, n) \o SubSeq(s, n + 1, Len(s)) = SubSeq(s, 1, Len(s))
  BY <1>2, ConcatAdjacentSubSeq
<1>5. SubSeq(s, 1, Len(s)) = s
  BY SubSeqFull
<1>6. PICK a \in Seq(Byte) : a = SubSeq(s, 1, n)
  <2>1. \A i \in 1..n : s[i] \in Byte
    <3>1. \A i \in 1..n : i \in 1..Len(s)
      BY <1>1
    <3> QED
      BY <3>1, ElementOfSeq
  <2>2. SubSeq(s, 1, n) \in Seq(Byte)
    BY <2>1, SubSeqProperties
  <2> QED
    BY <2>2
<1>7. b = <<>> <=> n = Len(s)
  <2>1. b = <<>> <=> Len(b) = 0
    BY EmptySeq
  <2>2. m + 1 - (n + 1) = 0 <=> n = m
    OBVIOUS
  <2> QED
    BY <1>1, <1>3, <2>1, <2>2
<1>8. Joined(s, a, b)
  BY <1>3, <1>4, <1>5, <1>6 DEF From, Joined
<1> QED
  BY <1>6, <1>7, <1>8

\* What the loop starts with.
LEMMA TripStarts ==
  ASSUME NEW n \in Nat, NEW ws, NEW text, Spelled(sent, ws, text, n), NEW tail \in Seq(Byte),
         NEW b \in Seq(Byte), Joined(text[n], b, tail), Received(b), Tailed(ws, n, tail)
  PROVE  TripInv
<1>1. incoming = b /\ max_bytes = Len(b) /\ parsed = <<>>
  BY DEF Received
<1>2. LoopInv
  BY <1>1 DEF LoopInv
<1>3. parsed \in Seq(Results) /\ Len(parsed) = 0
  BY <1>1, EmptySeq
<1>4. Left(text, 0, n, b, tail)
  <2>1. text[0] = <<>>
    BY DEF Spelled, Texts
  <2>2. text[0] \o b = b
    BY <2>1, CatEmpty
  <2> QED
    BY <2>2 DEF Left
<1>5. AllSeen(parsed, sent, 0)
  BY DEF AllSeen
<1>6. 0 \in 0..n
  OBVIOUS
<1>7. Reading(text, n, tail)
  BY <1>1, <1>3, <1>4, <1>5, <1>6 DEF Reading
<1>8. Trip(ws, text, n, tail)
  BY <1>7 DEF Trip
<1> QED
  BY <1>2, <1>3, <1>8 DEF TripInv

\* It holds of all the loop may start with ...
LEMMA TripInit ==
  ASSUME Plain, InitTrip
  PROVE  TripInv
<1>1. ASSUME sent \in Replies,
             NEW m \in (IF Cut THEN 1..Len(EncodeAll(sent)) ELSE {Len(EncodeAll(sent))}),
             Received(SubSeq(EncodeAll(sent), 1, m)), complete = (m = Len(EncodeAll(sent)))
      PROVE  TripInv
  <2>1. PICK n \in Nat :
          \E ws, text : Spelled(sent, ws, text, n) /\ AllWait(ws, n) /\ EncodeAll(sent) = text[n]
    BY <1>1, RepliesSpelled
  <2>2. PICK ws, text : Spelled(sent, ws, text, n) /\ AllWait(ws, n) /\ EncodeAll(sent) = text[n]
    BY <2>1
  <2>3. PICK e \in Seq(Byte) : e = EncodeAll(sent)
    <3>1. n \in 0..n
      OBVIOUS
    <3>2. Texts(text, ws, n)
      BY <2>2 DEF Spelled
    <3>3. text[n] \in Seq(Byte)
      BY <3>1, <3>2, TextsType
    <3> QED
      BY <2>2, <3>3
  <2>4. m \in 0..Len(e)
    <3>1. PICK l \in Nat : l = Len(e)
      BY LenProperties
    <3>2. m \in 1..l \/ m = l
      BY <1>1, <2>3, <3>1
    <3>3. m \in 0..l
      BY <3>1, <3>2
    <3> QED
      BY <3>1, <3>3
  <2>5. PICK b \in Seq(Byte), tail \in Seq(Byte) :
          b = SubSeq(e, 1, m) /\ Joined(e, b, tail) /\ (tail = <<>> <=> m = Len(e))
    BY <2>4, Split
  <2>6. Tailed(ws, n, tail)
    BY <1>1, <2>2, <2>3, <2>5 DEF Tailed
  <2>7. Received(b)
    BY <1>1, <2>3, <2>5
  <2>8. Joined(text[n], b, tail)
    BY <2>2, <2>3, <2>5
  <2> QED
    BY <2>2, <2>6, <2>7, <2>8, TripStarts
<1>2. ASSUME NEW cmds \in Requests, sent = [i \in DOMAIN cmds |-> AsReply(cmds[i])],
             complete = TRUE, Received(SerializeAll(cmds))
      PROVE  TripInv
  <2>1. PICK n \in Nat : \E ws, text : Spelled(sent, ws, text, n) /\ SerializeAll(cmds) = text[n]
    BY <1>2, RequestsSpelled
  <2>2. PICK ws, text : Spelled(sent, ws, text, n) /\ SerializeAll(cmds) = text[n]
    BY <2>1
  <2>3. PICK b \in Seq(Byte) : b = text[n]
    <3>1. n \in 0..n
      OBVIOUS
    <3>2. Texts(text, ws, n)
      BY <2>2 DEF Spelled
    <3> QED
      BY <3>1, <3>2, TextsType
  <2>4. PICK tail \in Seq(Byte) : tail = <<>>
    BY EmptySeq
  <2>5. Joined(text[n], b, tail)
    BY <2>3, <2>4, CatEmpty DEF Joined
  <2>6. Tailed(ws, n, tail)
    BY <1>2, <2>4 DEF Tailed
  <2>7. Received(b)
    BY <1>2, <2>2, <2>3
  <2> QED
    BY <2>2, <2>5, <2>6, <2>7, TripStarts
<1>3. ASSUME sent = <<>>, complete = FALSE, Init
      PROVE  TripInv
  <2>1. incoming \in Seq(Byte) /\ max_bytes = Len(incoming) /\ parsed = <<>>
    BY <1>3, BuffersAssumption DEF Init, Received
  <2>2. parsed \in Seq(Results)
    BY <2>1, EmptySeq
  <2> QED
    BY <1>3, <2>1, <2>2 DEF TripInv, LoopInv
<1> QED
  BY <1>1, <1>2, <1>3 DEF InitTrip

\* A round reports the next reply, or that a part of it is missing.
LEMMA TripRound ==
  ASSUME TripInv, ReadOneOfTrip, NEW n \in Nat, NEW tail \in Seq(Byte), NEW ws, NEW text,
         Trip(ws, text, n, tail)
  PROVE  Trip(ws, text, n, tail)'
<1>1. PICK p, d : /\ p = RawParse(incoming)
                  /\ d = IF Consumed(p) = 0 THEN max_bytes ELSE Consumed(p)
                  /\ parsed' = Append(parsed, p)
                  /\ incoming' = From(incoming, d + 1) /\ max_bytes' = max_bytes - d
  BY DEF ReadOneOfTrip, ReadOne
<1>2. UNCHANGED <<sent, complete>>
  BY DEF ReadOneOfTrip
<1>3. PICK in \in Seq(Byte), l \in Nat : in = incoming /\ l = Len(in) /\ max_bytes = l /\ l > 0
  BY LenProperties DEF TripInv, LoopInv, ReadOneOfTrip, ReadOne
<1>4. in # <<>>
  BY <1>3, EmptySeq
<1>5. Reading(text, n, tail)
  <2>1. ~(max_bytes = 0)
    BY <1>3
  <2> QED
    BY <2>1 DEF Trip, Broken
<1>6. PICK k \in 0..n : k = Len(parsed) /\ Left(text, k, n, in, tail) /\ AllSeen(parsed, sent, k)
  BY <1>3, <1>5 DEF Reading
<1>7. Spelled(sent, ws, text, n) /\ Tailed(ws, n, tail)
  BY DEF Trip
<1>8. /\ k + 1 \in 1..n
      /\ \/ \E m \in Seq(Byte) : Joined(in, ws[k + 1], m) /\ Left(text, k + 1, n, m, tail)
         \/ \E q \in Seq(Byte) : q # <<>> /\ Joined(ws[k + 1], in, q) /\ tail # <<>>
  BY <1>4, <1>6, <1>7, NextReply
<1>9. /\ parsed' \in Seq(Results) /\ Len(parsed') = k + 1
      /\ parsed'[k + 1] = p /\ \A i \in 1..k : parsed'[i] = parsed[i]
  <2>1. p \in Results /\ parsed \in Seq(Results)
    BY <1>1, <1>3 DEF TripInv, Results
  <2>2. /\ Append(parsed, p) \in Seq(Results) /\ Len(Append(parsed, p)) = Len(parsed) + 1
        /\ \A i \in 1..Len(parsed) : Append(parsed, p)[i] = parsed[i]
        /\ Append(parsed, p)[Len(parsed) + 1] = p
    BY <2>1, AppendProperties
  <2> QED
    BY <1>1, <1>6, <2>2
<1>10. AllSeen(parsed', sent', k)
  BY <1>2, <1>6, <1>9 DEF AllSeen
<1>11. p = Raw[in]
  BY <1>1, <1>3 DEF Raw
<1>12. Spelled(sent', ws, text, n) /\ Tailed(ws, n, tail)'
  BY <1>2, <1>7 DEF Tailed
<1>13. PICK w \in Seq(Byte) : w = ws[k + 1] /\ Reads(w, sent[k + 1])
  BY <1>7, <1>8 DEF Spelled, Texts
<1>14. ASSUME NEW m \in Seq(Byte), Joined(in, w, m), Left(text, k + 1, n, m, tail)
       PROVE  Trip(ws, text, n, tail)'
  <2>1. PICK j \in Nat \ {0} : j = Len(w)
    BY <1>13, ReadsNonEmpty
  <2>2. p = Report(sent[k + 1], j)
    BY <1>11, <1>13, <1>14, <2>1 DEF Reads, Joined
  <2>3. Consumed(p) = j /\ Reported(p) = Seen(sent[k + 1])
    BY <2>2, ReportIs
  <2>4. incoming' = m
    <3>1. d = j
      BY <1>1, <2>3
    <3>2. From(w \o m, Len(w) + 1) = m
      BY Halves
    <3> QED
      BY <1>1, <1>3, <1>14, <2>1, <3>1, <3>2 DEF Joined
  <2>5. AllSeen(parsed', sent', k + 1)
    <3>1. ASSUME NEW i \in 1..(k + 1) PROVE Reported(parsed'[i]) = Seen(sent'[i])
      <4>1. CASE i = k + 1
        BY <1>2, <1>9, <2>3, <4>1
      <4>2. CASE i # k + 1
        <5>1. i \in 1..k
          BY <4>2
        <5> QED
          BY <1>10, <5>1 DEF AllSeen
      <4> QED
        BY <4>1, <4>2
    <3> QED
      BY <3>1 DEF AllSeen
  <2>6. k + 1 \in 0..n
    BY <1>8
  <2>7. Reading(text, n, tail)'
    BY <1>9, <1>14, <2>4, <2>5, <2>6 DEF Reading
  <2> QED
    BY <1>12, <2>7 DEF Trip
<1>15. ASSUME NEW q \in Seq(Byte), q # <<>>, Joined(w, in, q), tail # <<>>
       PROVE  Trip(ws, text, n, tail)'
  <2>1. ~complete /\ AllWait(ws, n)
    BY <1>7, <1>15 DEF Tailed
  <2>2. Waits(w)
    BY <1>8, <1>13, <2>1 DEF AllWait
  <2>3. p = ProtocolError("not_enough_data")
    BY <1>11, <1>15, <2>2 DEF Waits
  <2>4. Consumed(p) = 0
    BY <2>3 DEF Consumed, ProtocolError
  <2>5. max_bytes' = 0
    BY <1>1, <1>3, <2>4
  <2>6. (k + 1) - 1 = k /\ k + 1 # 0
    OBVIOUS
  <2>7. parsed' # <<>>
    BY <1>9, <2>6, EmptySeq
  <2>8. Broken'
    BY <1>2, <1>9, <1>10, <2>1, <2>3, <2>5, <2>6, <2>7 DEF Broken
  <2> QED
    BY <1>12, <2>8 DEF Trip
<1> QED
  BY <1>8, <1>13, <1>14, <1>15

\* ... after every round ...
LEMMA TripNext ==
  ASSUME TripInv, ReadOneOfTrip
  PROVE  TripInv'
<1>1. LoopInv' /\ UNCHANGED <<sent, complete>>
  BY Round DEF TripInv, ReadOneOfTrip
<1>2. parsed' \in Seq(Results)
  <2>1. PICK p : p = RawParse(incoming) /\ parsed' = Append(parsed, p)
    BY DEF ReadOneOfTrip, ReadOne
  <2>2. p \in Results /\ parsed \in Seq(Results)
    BY <2>1 DEF TripInv, LoopInv, Results
  <2> QED
    BY <2>1, <2>2, AppendProperties
<1>3. CASE sent = <<>> /\ ~complete
  BY <1>1, <1>2, <1>3 DEF TripInv
<1>4. CASE \E n \in Nat, tail \in Seq(Byte) : \E ws, text : Trip(ws, text, n, tail)
  <2>1. PICK n \in Nat, tail \in Seq(Byte) : \E ws, text : Trip(ws, text, n, tail)
    BY <1>4
  <2>2. PICK ws, text : Trip(ws, text, n, tail)
    BY <2>1
  <2>3. Trip(ws, text, n, tail)'
    BY <2>2, TripRound
  <2> QED
    BY <1>1, <1>2, <2>3 DEF TripInv
<1> QED
  BY <1>3, <1>4 DEF TripInv

\* ... and when nothing happens.
LEMMA TripStutter ==
  ASSUME TripInv, UNCHANGED <<vars, sent, complete>>
  PROVE  TripInv'
BY DEF TripInv, Trip, Reading, Broken, Tailed, LoopInv, vars

\* So it always holds.
LEMMA TripAlways ==
  SpecTrip => [](Plain => TripInv)
<1>1. InitTrip => (Plain => TripInv)
  BY TripInit
<1>2. (Plain => TripInv) /\ [ReadOneOfTrip]_<<vars, sent, complete>> => (Plain => TripInv)'
  <2> SUFFICES ASSUME Plain => TripInv, [ReadOneOfTrip]_<<vars, sent, complete>>, Plain
               PROVE  TripInv'
    BY DEF Plain
  <2> QED
    BY TripNext, TripStutter
<1> QED
  BY <1>1, <1>2, PTL DEF SpecTrip

\* Where the reading is.
LEMMA TripIs ==
  ASSUME TripInv, ~(sent = <<>> /\ ~complete)
  PROVE  \/ /\ AllSeen(parsed, sent, Len(parsed)) /\ Len(parsed) \in 0..Len(sent)
            /\ complete /\ max_bytes = 0 => Len(parsed) = Len(sent)
            /\ ~complete => Len(parsed) # Len(sent)
         \/ Broken
<1>1. PICK n \in Nat, tail \in Seq(Byte) : \E ws, text : Trip(ws, text, n, tail)
  BY DEF TripInv
<1>2. PICK ws, text : Trip(ws, text, n, tail)
  BY <1>1
<1>3. CASE Broken
  BY <1>3
<1>4. CASE Reading(text, n, tail)
  <2>1. Spelled(sent, ws, text, n) /\ n = Len(sent) /\ Tailed(ws, n, tail)
    BY <1>2 DEF Trip, Spelled
  <2>2. PICK in \in Seq(Byte) : in = incoming /\ max_bytes = Len(in)
    BY DEF TripInv, LoopInv
  <2>3. PICK k \in 0..n : k = Len(parsed) /\ Left(text, k, n, in, tail) /\ AllSeen(parsed, sent, k)
    BY <1>4, <2>2 DEF Reading
  <2>4. k = n <=> in = <<>> /\ tail = <<>>
    BY <2>1, <2>3, AllRead
  <2>5. max_bytes = 0 => in = <<>>
    BY <2>2, EmptySeq
  <2>6. complete /\ max_bytes = 0 => k = n
    BY <2>1, <2>4, <2>5 DEF Tailed
  <2>7. ~complete => k # n
    BY <2>1, <2>4 DEF Tailed
  <2> QED
    BY <2>1, <2>3, <2>6, <2>7
<1> QED
  BY <1>2, <1>3, <1>4 DEF Trip

\* The loop of read_message makes of what a server wrote, whatever its replies and
\* however it may write them, those replies, in order and with nothing left over;
\* and a server that reads as the library does makes of what serialize wrote the
\* arguments of the commands.
THEOREM RoundTripCorrect == SpecTrip => []RoundTrip
<1>1. (Plain => TripInv) => RoundTrip
  <2> SUFFICES ASSUME TripInv, complete
               PROVE  /\ Len(parsed) <= Len(sent)
                      /\ \A i \in 1..Len(parsed) : Reported(parsed[i]) = Seen(sent[i])
                      /\ max_bytes = 0 => Len(parsed) = Len(sent)
    BY DEF RoundTrip
  <2>1. /\ AllSeen(parsed, sent, Len(parsed)) /\ Len(parsed) \in 0..Len(sent)
        /\ max_bytes = 0 => Len(parsed) = Len(sent)
    BY TripIs DEF Broken
  <2>2. Len(parsed) <= Len(sent)
    <3>1. PICK n \in Nat : n = Len(sent)
      BY DEF TripInv, Trip, Spelled
    <3> QED
      BY <2>1, <3>1
  <2> QED
    BY <2>1, <2>2 DEF AllSeen
<1> QED
  BY <1>1, TripAlways, PTL

\* A reply of which the last bytes are missing is never taken for a shorter one, nor
\* for a malformed one, wherever the cut is.
THEOREM CutCorrect == SpecTrip => []CutIsNotEnough
<1>1. (Plain => TripInv) => CutIsNotEnough
  <2> SUFFICES ASSUME TripInv, sent # <<>>, ~complete
               PROVE  /\ \A i \in 1..(Len(parsed) - 1) : Reported(parsed[i]) = Seen(sent[i])
                      /\ parsed # <<>> =>
                           \/ /\ parsed[Len(parsed)] = ProtocolError("not_enough_data")
                              /\ max_bytes = 0
                           \/ /\ Len(parsed) < Len(sent)
                              /\ Reported(parsed[Len(parsed)]) = Seen(sent[Len(parsed)])
    BY DEF CutIsNotEnough
  <2>1. CASE Broken
    BY <2>1 DEF Broken, AllSeen
  <2>2. CASE /\ AllSeen(parsed, sent, Len(parsed))
             /\ Len(parsed) \in 0..Len(sent) /\ Len(parsed) # Len(sent)
    <3>1. PICK n \in Nat : n = Len(sent)
      BY DEF TripInv, Trip, Spelled
    <3>2. PICK k \in Nat : k = Len(parsed) /\ k < n
      BY <2>2, <3>1
    <3>3. \A i \in 1..k : Reported(parsed[i]) = Seen(sent[i])
      BY <2>2, <3>2 DEF AllSeen
    <3>4. \A i \in 1..(k - 1) : i \in 1..k
      OBVIOUS
    <3>5. parsed # <<>> => k \in 1..k
      <4>1. parsed # <<>> => k # 0
        BY <3>2, EmptySeq DEF TripInv
      <4> QED
        BY <4>1
    <3> QED
      BY <3>1, <3>2, <3>3, <3>4, <3>5
  <2> QED
    BY <2>1, <2>2, TripIs
<1> QED
  BY <1>1, TripAlways, PTL
=============================================================================
