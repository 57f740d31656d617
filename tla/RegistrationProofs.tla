-------------------------- MODULE RegistrationProofs --------------------------
(***************************************************************************)
(* Connection strings, for any texts: what parse accepts is what was       *)
(* written, what a user means is what it is taken for, and what is thrown  *)
(* inside the machine is one exception only.                               *)
(***************************************************************************)
EXTENDS Registration, SetInduction

-----------------------------------------------------------------------------
(* The least and the greatest of a set of positions.                       *)

\* What find takes is there, and nothing comes before it.
LEMMA FirstIs ==
  ASSUME NEW S, S \subseteq Nat, S # {}
  PROVE  First(S) \in S /\ \A j \in S : First(S) <= j
<1>1. \E x \in S : \A j \in S : x <= j
  BY Least
<1> QED
  BY <1>1 DEF First

\* ... and what rfind takes is there, and nothing comes after it.
LEMMA LastIs ==
  ASSUME NEW n \in Nat, NEW S, S \subseteq 1..n, S # {}
  PROVE  Last(S) \in S /\ \A j \in S : Last(S) >= j
<1> DEFINE R == {n - i : i \in S}
<1>1. R \subseteq Nat /\ R # {}
  <2>1. \A i \in S : n - i \in Nat
    OBVIOUS
  <2> QED
    BY <2>1
<1>2. PICK m \in R : \A k \in R : m <= k
  <2> HIDE DEF R
  <2> QED
    BY <1>1, Least
<1>3. PICK i \in S : m = n - i
  OBVIOUS
<1>4. ASSUME NEW j \in S PROVE i >= j
  <2>1. n - j \in R
    OBVIOUS
  <2>2. m <= n - j
    BY <1>2, <2>1
  <2>3. i \in 1..n /\ j \in 1..n
    OBVIOUS
  <2> QED
    BY <1>3, <2>2, <2>3
<1>5. \E x \in S : \A j \in S : x >= j
  BY <1>4
<1> QED
  BY <1>5 DEF Last

\* There is one first and one last.
LEMMA FirstUnique ==
  ASSUME NEW S, S \subseteq Nat, NEW i \in S, \A j \in S : i <= j
  PROVE  First(S) = i
<1>1. PICK f : f = First(S)
  OBVIOUS
<1>2. f \in S /\ f <= i /\ i <= f
  BY <1>1, FirstIs
<1> QED
  BY <1>1, <1>2

\* ... and one last.
LEMMA LastUnique ==
  ASSUME NEW n \in Nat, NEW S, S \subseteq 1..n, NEW i \in S, \A j \in S : i >= j
  PROVE  Last(S) = i
<1>1. PICK f : f = Last(S)
  OBVIOUS
<1>2. f \in S /\ f >= i /\ i >= f
  BY <1>1, LastIs
<1> QED
  BY <1>1, <1>2

-----------------------------------------------------------------------------
(* Cutting a sequence where something occurs in it, and what the pieces of *)
(* a composed one are.                                                     *)

\* The pieces of a sequence that was put together of three.
LEMMA Pieces ==
  ASSUME NEW T, NEW a \in Seq(T), NEW what \in Seq(T), what # <<>>, NEW b \in Seq(T)
  PROVE  LET s == a \o what \o b
         IN  /\ s \in Seq(T)
             /\ Len(s) = Len(a) + Len(what) + Len(b)
             /\ Len(a) + 1 \in Occurs(s, what)
             /\ Before(s, Len(a) + 1) = a
             /\ After(s, Len(a) + Len(what)) = b
<1> DEFINE s == a \o what \o b  n == Len(a)  m == Len(what)  k == Len(b)
<1>1. n \in Nat /\ m \in Nat \ {0} /\ k \in Nat
  BY EmptySeq, LenProperties
<1>2. a \o what \in Seq(T) /\ Len(a \o what) = n + m
      /\ \A i \in 1..(n + m) : (a \o what)[i] = IF i <= n THEN a[i] ELSE what[i - n]
  BY ConcatProperties
<1>3. s \in Seq(T) /\ Len(s) = n + m + k
      /\ \A i \in 1..(n + m + k) : s[i] = IF i <= n + m THEN (a \o what)[i] ELSE b[i - (n + m)]
  <2>1. s \in Seq(T) /\ Len(s) = Len(a \o what) + Len(b)
        /\ \A i \in 1..(Len(a \o what) + Len(b)) :
             s[i] = IF i <= Len(a \o what) THEN (a \o what)[i] ELSE b[i - Len(a \o what)]
    BY <1>2, ConcatProperties
  <2> QED
    BY <1>2, <2>1
<1> HIDE DEF s
<1>4. /\ \A i \in 1..n : s[i] = a[i]
      /\ \A i \in 1..m : s[n + i] = what[i]
      /\ \A i \in 1..k : s[n + m + i] = b[i]
  <2>1. ASSUME NEW i \in 1..n PROVE s[i] = a[i]
    <3>1. i \in 1..(n + m + k) /\ i <= n + m /\ i \in 1..(n + m) /\ i <= n
      BY <1>1
    <3> QED
      BY <1>2, <1>3, <3>1
  <2>2. ASSUME NEW i \in 1..m PROVE s[n + i] = what[i]
    <3>1. /\ n + i \in 1..(n + m + k) /\ n + i <= n + m /\ n + i \in 1..(n + m)
          /\ ~(n + i <= n) /\ n + i - n = i
      BY <1>1
    <3> QED
      BY <1>2, <1>3, <3>1
  <2>3. ASSUME NEW i \in 1..k PROVE s[n + m + i] = b[i]
    <3>1. n + m + i \in 1..(n + m + k) /\ ~(n + m + i <= n + m) /\ n + m + i - (n + m) = i
      BY <1>1
    <3> QED
      BY <1>3, <3>1
  <2> QED
    BY <2>1, <2>2, <2>3
<1>5. SubSeq(s, 1, n) = a
  <2>1. \A i \in 1..n : s[i] \in T
    BY <1>1, <1>4
  <2>2. /\ SubSeq(s, 1, n) \in Seq(T) /\ Len(SubSeq(s, 1, n)) = IF 1 <= n THEN n - 1 + 1 ELSE 0
        /\ \A i \in 1..(n - 1 + 1) : SubSeq(s, 1, n)[i] = s[1 + i - 1]
    BY <1>1, <2>1, SubSeqProperties
  <2>3. Len(SubSeq(s, 1, n)) = n /\ n - 1 + 1 = n
    BY <1>1, <2>2
  <2>4. ASSUME NEW i \in 1..n PROVE SubSeq(s, 1, n)[i] = a[i]
    <3>1. 1 + i - 1 = i
      OBVIOUS
    <3> QED
      BY <1>4, <2>2, <2>3, <3>1
  <2> QED
    BY <2>2, <2>3, <2>4, SeqEqual
<1>6. SubSeq(s, n + 1, n + m) = what
  <2>1. \A i \in (n + 1)..(n + m) : s[i] \in T
    BY <1>1, <1>3
  <2>2. /\ SubSeq(s, n + 1, n + m) \in Seq(T)
        /\ Len(SubSeq(s, n + 1, n + m)) = IF n + 1 <= n + m THEN n + m - (n + 1) + 1 ELSE 0
        /\ \A i \in 1..(n + m - (n + 1) + 1) : SubSeq(s, n + 1, n + m)[i] = s[n + 1 + i - 1]
    BY <1>1, <2>1, SubSeqProperties
  <2>3. Len(SubSeq(s, n + 1, n + m)) = m /\ n + m - (n + 1) + 1 = m
    BY <1>1, <2>2
  <2>4. ASSUME NEW i \in 1..m PROVE SubSeq(s, n + 1, n + m)[i] = what[i]
    <3>1. n + 1 + i - 1 = n + i
      BY <1>1
    <3> QED
      BY <1>4, <2>2, <2>3, <3>1
  <2> QED
    BY <2>2, <2>3, <2>4, SeqEqual
<1>7. SubSeq(s, n + m + 1, n + m + k) = b
  <2>1. \A i \in (n + m + 1)..(n + m + k) : s[i] \in T
    BY <1>1, <1>3
  <2>2. /\ SubSeq(s, n + m + 1, n + m + k) \in Seq(T)
        /\ Len(SubSeq(s, n + m + 1, n + m + k)) =
             IF n + m + 1 <= n + m + k THEN n + m + k - (n + m + 1) + 1 ELSE 0
        /\ \A i \in 1..(n + m + k - (n + m + 1) + 1) :
             SubSeq(s, n + m + 1, n + m + k)[i] = s[n + m + 1 + i - 1]
    BY <1>1, <2>1, SubSeqProperties
  <2>3. Len(SubSeq(s, n + m + 1, n + m + k)) = k /\ n + m + k - (n + m + 1) + 1 = k
    BY <1>1, <2>2
  <2>4. ASSUME NEW i \in 1..k PROVE SubSeq(s, n + m + 1, n + m + k)[i] = b[i]
    <3>1. n + m + 1 + i - 1 = n + m + i
      BY <1>1
    <3> QED
      BY <1>4, <2>2, <2>3, <3>1
  <2> QED
    BY <2>2, <2>3, <2>4, SeqEqual
<1>8. n + 1 \in 1..(Len(s) - m + 1) /\ n + 1 + m - 1 = n + m /\ n + 1 - 1 = n
  BY <1>1, <1>3
<1>9. n + 1 \in Occurs(s, what)
  BY <1>6, <1>8 DEF Occurs
<1>10. Before(s, n + 1) = a /\ After(s, n + m) = b
  BY <1>3, <1>5, <1>7, <1>8 DEF Before, After
<1> QED
  BY <1>3, <1>9, <1>10 DEF s

\* One token.
LEMMA OccursOne ==
  ASSUME NEW T, NEW s \in Seq(T), NEW x
  PROVE  Occurs(s, <<x>>) = {i \in 1..Len(s) : s[i] = x}
<1>1. Len(<<x>>) = 1 /\ Len(s) \in Nat
  OBVIOUS
<1>2. ASSUME NEW i \in 1..Len(s) PROVE SubSeq(s, i, i) = <<x>> <=> s[i] = x
  <2>1. /\ SubSeq(s, i, i) \in Seq(T) /\ Len(SubSeq(s, i, i)) = 1
        /\ SubSeq(s, i, i)[1] = s[i]
    <3>1. \A j \in i..i : s[j] \in T
      OBVIOUS
    <3>2. /\ SubSeq(s, i, i) \in Seq(T) /\ Len(SubSeq(s, i, i)) = IF i <= i THEN i - i + 1 ELSE 0
          /\ \A j \in 1..(i - i + 1) : SubSeq(s, i, i)[j] = s[i + j - 1]
      BY <3>1, SubSeqProperties
    <3> QED
      BY <3>2
  <2>2. ASSUME s[i] = x PROVE SubSeq(s, i, i) = <<x>>
    <3>1. <<x>> \in Seq(T)
      BY <2>2
    <3>2. \A j \in 1..1 : SubSeq(s, i, i)[j] = <<x>>[j]
      BY <2>1, <2>2
    <3> QED
      BY <1>1, <2>1, <3>1, <3>2, SeqEqual
  <2>3. ASSUME SubSeq(s, i, i) = <<x>> PROVE s[i] = x
    BY <2>1, <2>3
  <2> QED
    BY <2>2, <2>3
<1>3. \A i \in 1..Len(s) : i + Len(<<x>>) - 1 = i
  BY <1>1
<1>4. 1..(Len(s) - Len(<<x>>) + 1) = 1..Len(s)
  BY <1>1
<1> QED
  BY <1>2, <1>3, <1>4 DEF Occurs

\* What occurs in s begins there with its first token.
LEMMA OccursHead ==
  ASSUME NEW T, NEW s \in Seq(T), NEW what \in Seq(T), what # <<>>, NEW i \in Occurs(s, what)
  PROVE  i \in 1..Len(s) /\ s[i] = what[1]
<1>1. Len(what) \in Nat \ {0} /\ Len(s) \in Nat
  BY EmptySeq, LenProperties
<1>2. i \in 1..(Len(s) - Len(what) + 1) /\ SubSeq(s, i, i + Len(what) - 1) = what
  BY DEF Occurs
<1>3. \A j \in i..(i + Len(what) - 1) : s[j] \in T
  BY <1>1, <1>2
<1>4. \A j \in 1..(i + Len(what) - 1 - i + 1) : SubSeq(s, i, i + Len(what) - 1)[j] = s[i + j - 1]
  BY <1>1, <1>2, <1>3, SubSeqProperties
<1>5. 1 \in 1..(i + Len(what) - 1 - i + 1) /\ i + 1 - 1 = i /\ i \in 1..Len(s)
  BY <1>1, <1>2
<1> QED
  BY <1>2, <1>4, <1>5

\* find: the first occurrence ends a part in which its first token is not.
LEMMA FirstCut ==
  ASSUME NEW T, NEW a \in Seq(T), NEW what \in Seq(T), what # <<>>, NEW b \in Seq(T),
         Free(a, {what[1]})
  PROVE  LET s == a \o what \o b
         IN  /\ s \in Seq(T) /\ Occurs(s, what) # {}
             /\ First(Occurs(s, what)) = Len(a) + 1
             /\ Before(s, First(Occurs(s, what))) = a
             /\ After(s, First(Occurs(s, what)) + Len(what) - 1) = b
<1> DEFINE s == a \o what \o b
<1>0. Len(a) \in Nat /\ Len(what) \in Nat
  BY LenProperties
<1>1. /\ s \in Seq(T) /\ Len(a) + 1 \in Occurs(s, what)
      /\ Before(s, Len(a) + 1) = a /\ After(s, Len(a) + Len(what)) = b
  BY Pieces
<1>2. \A i \in 1..Len(a) : s[i] = a[i]
  <2>1. a \o what \in Seq(T) /\ Len(a \o what) = Len(a) + Len(what)
        /\ \A i \in 1..(Len(a) + Len(what)) :
             (a \o what)[i] = IF i <= Len(a) THEN a[i] ELSE what[i - Len(a)]
    BY ConcatProperties
  <2>2. \A i \in 1..(Len(a \o what) + Len(b)) :
             s[i] = IF i <= Len(a \o what) THEN (a \o what)[i] ELSE b[i - Len(a \o what)]
    BY <2>1, ConcatProperties
  <2>3. Len(b) \in Nat
    BY LenProperties
  <2> HIDE DEF s
  <2>4. ASSUME NEW i \in 1..Len(a) PROVE s[i] = a[i]
    <3>1. /\ i \in 1..(Len(a) + Len(what)) /\ i <= Len(a)
          /\ i \in 1..(Len(a \o what) + Len(b)) /\ i <= Len(a \o what)
      BY <1>0, <2>1, <2>3
    <3> QED
      BY <2>1, <2>2, <3>1
  <2> QED
    BY <2>4
<1> HIDE DEF s
<1>3. ASSUME NEW i \in Occurs(s, what) PROVE i \in Nat /\ Len(a) + 1 <= i
  <2>1. i \in 1..Len(s) /\ s[i] = what[1]
    BY <1>1, OccursHead
  <2>2. ~(i \in 1..Len(a))
    BY <1>2, <2>1 DEF Free
  <2> QED
    BY <1>0, <2>1, <2>2
<1>4. First(Occurs(s, what)) = Len(a) + 1
  <2>1. PICK S : S = Occurs(s, what)
    OBVIOUS
  <2>2. S \subseteq Nat /\ Len(a) + 1 \in S /\ \A i \in S : Len(a) + 1 <= i
    BY <1>1, <1>3, <2>1
  <2>3. First(S) = Len(a) + 1
    BY <2>2, FirstUnique
  <2> QED
    BY <2>1, <2>3
<1>5. Len(a) + 1 + Len(what) - 1 = Len(a) + Len(what)
  BY <1>0
<1> QED
  BY <1>1, <1>4, <1>5 DEF s

\* rfind: the last occurrence of a token begins a part in which it is not.
LEMMA LastCut ==
  ASSUME NEW T, NEW a \in Seq(T), NEW x \in T, NEW b \in Seq(T), Free(b, {x})
  PROVE  LET s == a \o <<x>> \o b
         IN  /\ s \in Seq(T) /\ Occurs(s, <<x>>) # {}
             /\ Last(Occurs(s, <<x>>)) = Len(a) + 1
             /\ Before(s, Last(Occurs(s, <<x>>))) = a
             /\ After(s, Last(Occurs(s, <<x>>))) = b
<1> DEFINE s == a \o <<x>> \o b
<1>0. /\ Len(a) \in Nat /\ Len(b) \in Nat /\ Len(<<x>>) = 1
      /\ <<x>> \in Seq(T) /\ <<x>> # <<>>
  BY LenProperties
<1>1. /\ s \in Seq(T) /\ Len(s) = Len(a) + Len(<<x>>) + Len(b) /\ Len(a) + 1 \in Occurs(s, <<x>>)
      /\ Before(s, Len(a) + 1) = a /\ After(s, Len(a) + Len(<<x>>)) = b
  <2>1. ASSUME NEW what \in Seq(T), what # <<>>
        PROVE  LET t == a \o what \o b
               IN  /\ t \in Seq(T) /\ Len(t) = Len(a) + Len(what) + Len(b)
                   /\ Len(a) + 1 \in Occurs(t, what)
                   /\ Before(t, Len(a) + 1) = a /\ After(t, Len(a) + Len(what)) = b
    BY <2>1, Pieces
  <2> QED
    BY <1>0, <2>1, Zenon
<1>2. \A i \in 1..Len(b) : s[Len(a) + 1 + i] = b[i]
  <2>1. a \o <<x>> \in Seq(T) /\ Len(a \o <<x>>) = Len(a) + 1
    BY <1>0, ConcatProperties
  <2>2. \A i \in 1..(Len(a \o <<x>>) + Len(b)) :
             s[i] = IF i <= Len(a \o <<x>>) THEN (a \o <<x>>)[i] ELSE b[i - Len(a \o <<x>>)]
    BY <2>1, ConcatProperties
  <2> HIDE DEF s
  <2>4. ASSUME NEW i \in 1..Len(b) PROVE s[Len(a) + 1 + i] = b[i]
    <3>1. /\ Len(a) + 1 + i \in 1..(Len(a \o <<x>>) + Len(b))
          /\ ~(Len(a) + 1 + i <= Len(a \o <<x>>)) /\ Len(a) + 1 + i - Len(a \o <<x>>) = i
      BY <1>0, <2>1
    <3> QED
      BY <2>2, <3>1
  <2> QED
    BY <2>4
<1> HIDE DEF s
<1>3. ASSUME NEW i \in Occurs(s, <<x>>) PROVE i \in 1..Len(s) /\ Len(a) + 1 >= i
  <2>1. i \in 1..Len(s) /\ s[i] = x
    BY <1>1, OccursOne
  <2>2. ASSUME i > Len(a) + 1 PROVE FALSE
    <3>1. i - (Len(a) + 1) \in 1..Len(b) /\ Len(a) + 1 + (i - (Len(a) + 1)) = i
      BY <1>0, <1>1, <2>1, <2>2
    <3>2. b[i - (Len(a) + 1)] = x
      BY <1>2, <2>1, <3>1
    <3> QED
      BY <3>1, <3>2 DEF Free
  <2> QED
    BY <1>0, <2>1, <2>2
<1>4. Last(Occurs(s, <<x>>)) = Len(a) + 1
  <2>1. PICK S : S = Occurs(s, <<x>>)
    OBVIOUS
  <2>2. PICK n : n = Len(s)
    OBVIOUS
  <2>3. n \in Nat /\ S \subseteq 1..n /\ Len(a) + 1 \in S /\ \A i \in S : Len(a) + 1 >= i
    BY <1>0, <1>1, <1>3, <2>1, <2>2
  <2>4. Last(S) = Len(a) + 1
    BY <2>3, LastUnique
  <2> QED
    BY <2>1, <2>4
<1>5. Len(a) + Len(<<x>>) = Len(a) + 1
  BY <1>0
<1> QED
  BY <1>1, <1>4, <1>5 DEF s

\* A text free of a token is one in which find does not find it.
LEMMA NotThere ==
  ASSUME NEW T, NEW s \in Seq(T), NEW x
  PROVE  Free(s, {x}) <=> Occurs(s, <<x>>) = {}
<1>1. PICK S : S = Occurs(s, <<x>>)
  OBVIOUS
<1>2. S = {i \in 1..Len(s) : s[i] = x}
  BY <1>1, OccursOne
<1>3. S = {} <=> \A i \in 1..Len(s) : s[i] # x
  BY <1>2
<1> QED
  BY <1>1, <1>3 DEF Free

\* What is free of tokens is so in all its parts.
LEMMA FreeConcat ==
  ASSUME NEW T, NEW a \in Seq(T), NEW b \in Seq(T), NEW X
  PROVE  Free(a \o b, X) <=> Free(a, X) /\ Free(b, X)
<1>1. /\ a \o b \in Seq(T) /\ Len(a \o b) = Len(a) + Len(b)
      /\ \A j \in 1..(Len(a) + Len(b)) : (a \o b)[j] = IF j <= Len(a) THEN a[j] ELSE b[j - Len(a)]
  BY ConcatProperties
<1>2. PICK s : s = a \o b
  OBVIOUS
<1>3. PICK n \in Nat, m \in Nat : n = Len(a) /\ m = Len(b)
  BY LenProperties
<1>4. Len(s) = n + m /\ \A j \in 1..(n + m) : s[j] = IF j <= n THEN a[j] ELSE b[j - n]
  BY <1>1, <1>2, <1>3
<1>5. ASSUME Free(s, X) PROVE Free(a, X) /\ Free(b, X)
  <2>1. ASSUME NEW i \in 1..n PROVE a[i] \notin X
    <3>1. i \in 1..(n + m) /\ i <= n
      OBVIOUS
    <3> QED
      BY <1>4, <1>5, <3>1 DEF Free
  <2>2. ASSUME NEW i \in 1..m PROVE b[i] \notin X
    <3>1. n + i \in 1..(n + m) /\ ~(n + i <= n) /\ n + i - n = i
      OBVIOUS
    <3>2. s[n + i] = b[i]
      BY <1>4, <3>1
    <3>3. s[n + i] \notin X
      BY <1>4, <1>5, <3>1 DEF Free
    <3> QED
      BY <3>2, <3>3
  <2> QED
    BY <1>3, <2>1, <2>2 DEF Free
<1>6. ASSUME Free(a, X), Free(b, X) PROVE Free(s, X)
  <2>1. ASSUME NEW j \in 1..(n + m) PROVE s[j] \notin X
    <3>1. CASE j <= n
      <4>1. j \in 1..n
        BY <3>1
      <4> QED
        BY <1>3, <1>4, <1>6, <3>1, <4>1 DEF Free
    <3>2. CASE ~(j <= n)
      <4>1. j - n \in 1..m
        BY <3>2
      <4> QED
        BY <1>3, <1>4, <1>6, <3>2, <4>1 DEF Free
    <3> QED
      BY <3>1, <3>2
  <2> QED
    BY <1>4, <2>1 DEF Free
<1> QED
  BY <1>2, <1>5, <1>6

-----------------------------------------------------------------------------
(* boost::split.                                                           *)

\* One more token for boost::split.
Split(done, t, separator) ==
  IF t = separator THEN Append(done, <<>>)
  ELSE [done EXCEPT ![Len(done)] = Append(@, t)]

\* boost::split makes at least one part.
LEMMA SplitType ==
  ASSUME NEW T, NEW done \in Seq(Seq(T)) \ {<<>>}, NEW t \in T, NEW separator
  PROVE  Split(done, t, separator) \in Seq(Seq(T)) \ {<<>>}
<1>1. CASE t = separator
  <2>1. <<>> \in Seq(T)
    OBVIOUS
  <2>2. Append(done, <<>>) \in Seq(Seq(T)) /\ Append(done, <<>>) # <<>>
    BY <2>1, AppendProperties
  <2> QED
    BY <1>1, <2>2 DEF Split
<1>2. CASE t # separator
  <2>1. Len(done) \in 1..Len(done)
    BY EmptySeq
  <2>2. done[Len(done)] \in Seq(T)
    BY <2>1, ElementOfSeq
  <2>3. Append(done[Len(done)], t) \in Seq(T)
    BY <2>2, AppendProperties
  <2>4. /\ [done EXCEPT ![Len(done)] = Append(done[Len(done)], t)] \in Seq(Seq(T))
        /\ Len([done EXCEPT ![Len(done)] = Append(done[Len(done)], t)]) = Len(done)
    BY <2>1, <2>3, ExceptSeq
  <2> QED
    BY <1>2, <2>1, <2>4, EmptySeq DEF Split
<1> QED
  BY <1>1, <1>2

\* The parts that SplitAt makes of the first tokens.
Start == << <<>> >>

Parts(f, n, s, separator) ==
  f = [i \in 0..n |-> IF i = 0 THEN Start ELSE Split(f[i - 1], s[i], separator)]

PartsOf(s, separator) == CHOOSE f : Parts(f, Len(s), s, separator)

\* ... which are what its equation says.
LEMMA PartsDef ==
  ASSUME NEW T, NEW s \in Seq(T), NEW separator
  PROVE  /\ SplitAt(s, separator) = PartsOf(s, separator)[Len(s)]
         /\ PartsOf(s, separator)[0] = Start
         /\ \A i \in 1..Len(s) :
              PartsOf(s, separator)[i] = Split(PartsOf(s, separator)[i - 1], s[i], separator)
         /\ \A i \in 0..Len(s) : PartsOf(s, separator)[i] \in Seq(Seq(T)) \ {<<>>}
<1> DEFINE D == Seq(Seq(T)) \ {<<>>}
<1>1. PICK n \in Nat : n = Len(s)
  BY LenProperties
<1>2. Start \in D
  <2>1. <<>> \in Seq(T)
    OBVIOUS
  <2> QED
    BY <2>1 DEF Start
<1>3. ASSUME NEW i \in 1..n, NEW d \in D PROVE Split(d, s[i], separator) \in D
  <2>1. s[i] \in T
    BY <1>1, ElementOfSeq
  <2> QED
    BY <2>1, SplitType
<1> HIDE DEF D
<1>4. PICK f \in [0..n -> D] :
        f[0] = Start /\ \A i \in 1..n : f[i] = Split(f[i - 1], s[i], separator)
  <2> DEFINE step == [i \in 1..n |-> [d \in D |-> Split(d, s[i], separator)]]
  <2>1. step \in [1..n -> [D -> D]]
    BY <1>3
  <2> HIDE DEF step
  <2>2. PICK f \in [0..n -> D] : f[0] = Start /\ \A i \in 1..n : f[i] = step[i][f[i - 1]]
    BY <1>2, <2>1, Recursion
  <2>3. ASSUME NEW i \in 1..n PROVE f[i] = Split(f[i - 1], s[i], separator)
    <3>1. i - 1 \in 0..n
      OBVIOUS
    <3>2. f[i - 1] \in D
      BY <3>1
    <3>3. step[i] = [d \in D |-> Split(d, s[i], separator)]
      BY DEF step
    <3> QED
      BY <2>2, <3>2, <3>3
  <2> QED
    BY <2>2, <2>3
<1>5. Parts(f, n, s, separator)
  <2> DEFINE g == [i \in 0..n |-> IF i = 0 THEN Start ELSE Split(f[i - 1], s[i], separator)]
  <2>1. ASSUME NEW i \in 0..n PROVE f[i] = g[i]
    <3>1. i = 0 \/ i \in 1..n
      OBVIOUS
    <3> QED
      BY <1>4, <3>1
  <2>2. f = g
    BY <2>1
  <2> QED
    BY <2>2 DEF Parts
<1>6. PICK g : g = PartsOf(s, separator)
  OBVIOUS
<1>7. Parts(g, n, s, separator)
  BY <1>1, <1>5, <1>6 DEF PartsOf
<1>8. g[0] = Start
  BY <1>7 DEF Parts
<1>9. ASSUME NEW i \in 1..n PROVE g[i] = Split(g[i - 1], s[i], separator)
  <2>1. i \in 0..n /\ i # 0
    OBVIOUS
  <2> QED
    BY <1>7, <2>1 DEF Parts
<1>10. \A i \in 0..n : g[i] \in D
  <2> DEFINE S == {i \in 0..n : g[i] \in D}
  <2>1. 0 \in S
    BY <1>2, <1>8
  <2>2. ASSUME NEW i \in 1..n, i - 1 \in S PROVE i \in S
    <3>1. g[i - 1] \in D /\ i \in 0..n
      BY <2>2
    <3>2. g[i] \in D
      BY <1>3, <1>9, <3>1
    <3> QED
      BY <3>1, <3>2
  <2> HIDE DEF S
  <2>3. \A i \in 0..n : i \in S
    BY <2>1, <2>2, BoundedInduction
  <2> QED
    BY <2>3 DEF S
<1>11. SplitAt(s, separator) = PartsOf(s, separator)[Len(s)]
  BY DEF SplitAt, PartsOf, Parts, Split, Start
<1> QED
  BY <1>1, <1>6, <1>8, <1>9, <1>10, <1>11 DEF D

\* The parts of the first tokens, each from those of one token less.
Steps(f, n, s, separator) ==
  f[0] = Start /\ \A i \in 1..n : f[i] = Split(f[i - 1], s[i], separator)

LEMMA PartsSteps ==
  ASSUME NEW T, NEW s \in Seq(T), NEW separator, NEW n, n = Len(s)
  PROVE  \E f : SplitAt(s, separator) = f[n] /\ Steps(f, n, s, separator)
<1>1. PICK f : f = PartsOf(s, separator)
  OBVIOUS
<1>2. SplitAt(s, separator) = f[n]
  BY <1>1, PartsDef
<1>3. f[0] = Start
  BY <1>1, PartsDef
<1>4. ASSUME NEW i \in 1..n PROVE f[i] = Split(f[i - 1], s[i], separator)
  BY <1>1, PartsDef
<1> QED
  BY <1>2, <1>3, <1>4 DEF Steps

\* The parts of a text are texts, at least one.
LEMMA SplitAtType ==
  ASSUME NEW T, NEW s \in Seq(T), NEW separator
  PROVE  SplitAt(s, separator) \in Seq(Seq(T)) /\ SplitAt(s, separator) # <<>>
<1>1. Len(s) \in 0..Len(s)
  BY LenProperties
<1> QED
  BY <1>1, PartsDef

\* A token more, and no token at all.
LEMMA SplitAtAppend ==
  ASSUME NEW T, NEW s \in Seq(T), NEW t \in T, NEW separator
  PROVE  SplitAt(Append(s, t), separator) = Split(SplitAt(s, separator), t, separator)
<1>1. PICK n \in Nat : n = Len(s)
  BY LenProperties
<1>2. PICK r \in Seq(T) : r = Append(s, t)
  BY AppendProperties
<1>3. Len(r) = n + 1 /\ r[n + 1] = t /\ \A i \in 1..n : r[i] = s[i]
  BY <1>1, <1>2, AppendProperties
<1>4. PICK f : SplitAt(s, separator) = f[n] /\ Steps(f, n, s, separator)
  BY <1>1, PartsSteps, Zenon
<1>5. PICK g : SplitAt(r, separator) = g[n + 1] /\ Steps(g, n + 1, r, separator)
  <2>1. n + 1 = Len(r)
    BY <1>3
  <2> QED
    BY <2>1, PartsSteps, Zenon
<1>6. /\ SplitAt(s, separator) = f[n]
      /\ f[0] = Start /\ \A i \in 1..n : f[i] = Split(f[i - 1], s[i], separator)
  BY <1>4, Zenon DEF Steps
<1>7. /\ SplitAt(r, separator) = g[n + 1]
      /\ g[0] = Start /\ \A i \in 1..n + 1 : g[i] = Split(g[i - 1], r[i], separator)
  BY <1>5, Zenon DEF Steps
<1>8. \A i \in 0..n : f[i] = g[i]
  <2> DEFINE S == {i \in 0..n : f[i] = g[i]}
  <2>1. 0 \in S
    BY <1>6, <1>7
  <2>2. ASSUME NEW i \in 1..n, i - 1 \in S PROVE i \in S
    <3>1. f[i - 1] = g[i - 1] /\ i \in 0..n /\ i \in 1..n + 1
      BY <2>2
    <3>2. f[i] = g[i]
      BY <1>3, <1>6, <1>7, <3>1
    <3> QED
      BY <3>1, <3>2
  <2> HIDE DEF S
  <2>3. \A i \in 0..n : i \in S
    BY <2>1, <2>2, BoundedInduction
  <2> QED
    BY <2>3 DEF S
<1>9. g[n + 1] = Split(f[n], t, separator)
  <2>1. n + 1 \in 1..n + 1 /\ (n + 1) - 1 = n /\ n \in 0..n
    OBVIOUS
  <2>2. g[n + 1] = Split(g[n], r[n + 1], separator)
    BY <1>7, <2>1
  <2> QED
    BY <1>3, <1>8, <2>1, <2>2
<1> QED
  BY <1>2, <1>6, <1>7, <1>9

\* The empty text has one part, an empty one.
LEMMA SplitAtEmpty ==
  ASSUME NEW separator
  PROVE  SplitAt(<<>>, separator) = << <<>> >>
<1>1. <<>> \in Seq({}) /\ Len(<<>>) = 0
  OBVIOUS
<1> QED
  BY <1>1, PartsDef DEF Start

\* A law with a name: an equality is no pattern to the provers.
Assoc(a, b, c) == a \o b \o c = a \o (b \o c)

LEMMA AssocSeq ==
  ASSUME NEW T, NEW a \in Seq(T), NEW b \in Seq(T), NEW c \in Seq(T)
  PROVE  Assoc(a, b, c)
BY ConcatAssociative DEF Assoc

\* A token that is no separator goes to the last part.
LEMMA SplitLast ==
  ASSUME NEW T, NEW d \in Seq(Seq(T)), NEW b \in Seq(T), NEW t \in T, NEW separator,
         t # separator
  PROVE  Split(Append(d, b), t, separator) = Append(d, Append(b, t))
<1>1. PICK n \in Nat : n = Len(d)
  BY LenProperties
<1>2. PICK c \in Seq(T) : c = Append(b, t)
  BY AppendProperties
<1>3. PICK e \in Seq(Seq(T)) : e = Append(d, b)
  BY AppendProperties
<1>4. PICK g \in Seq(Seq(T)) : g = Append(d, c)
  BY AppendProperties
<1>5. Len(e) = n + 1 /\ e[n + 1] = b /\ \A i \in 1..n : e[i] = d[i]
  BY <1>1, <1>3, AppendProperties
<1>6. Len(g) = n + 1 /\ g[n + 1] = c /\ \A i \in 1..n : g[i] = d[i]
  BY <1>1, <1>4, AppendProperties
<1>7. PICK h : h = [e EXCEPT ![n + 1] = c]
  OBVIOUS
<1>8. h \in Seq(Seq(T)) /\ Len(h) = n + 1
      /\ \A i \in 1..(n + 1) : h[i] = IF i = n + 1 THEN c ELSE e[i]
  <2>1. n + 1 \in 1..Len(e)
    BY <1>5
  <2> QED
    BY <1>5, <1>7, <2>1, ExceptSeq
<1>9. \A i \in 1..(n + 1) : h[i] = g[i]
  BY <1>5, <1>6, <1>8
<1>10. h = g
  BY <1>6, <1>8, <1>9, SeqEqual
<1>11. Split(e, t, separator) = h
  BY <1>2, <1>5, <1>7 DEF Split
<1> QED
  BY <1>2, <1>3, <1>4, <1>10, <1>11

\* The parts of a text are d and a last one.
SplitInto(a, d, b, separator) == SplitAt(a, separator) = Append(d, b)

\* What has no separator extends the part that has begun.
LEMMA SplitFree ==
  ASSUME NEW T, NEW a \in Seq(T), NEW d \in Seq(Seq(T)), NEW separator,
         SplitInto(a, d, <<>>, separator),
         NEW b \in Seq(T), Free(b, {separator})
  PROVE  SplitInto(a \o b, d, b, separator)
<1> USE DEF SplitInto
<1> DEFINE S == {c \in Seq(T) : Free(c, {separator}) => SplitAt(a \o c, separator) = Append(d, c)}
<1>1. <<>> \in S
  <2>1. a \o <<>> = a /\ <<>> \in Seq(T)
    BY ConcatEmptySeq
  <2> QED
    BY <2>1
<1>2. ASSUME NEW c \in Seq(T), NEW t \in T, c \in S PROVE Append(c, t) \in S
  <2>1. Append(c, t) \in Seq(T)
    BY AppendProperties
  <2>2. ASSUME Free(Append(c, t), {separator})
        PROVE  SplitAt(a \o Append(c, t), separator) = Append(d, Append(c, t))
    <3>1. PICK n \in Nat : n = Len(c)
      BY LenProperties
    <3>2. PICK r \in Seq(T) : r = Append(c, t)
      BY <2>1
    <3>3. Len(r) = n + 1 /\ r[n + 1] = t /\ \A i \in 1..n : r[i] = c[i]
      BY <3>1, <3>2, AppendProperties
    <3>4. \A i \in 1..(n + 1) : r[i] # separator
      BY <2>2, <3>2, <3>3 DEF Free
    <3>5. t # separator /\ \A i \in 1..n : c[i] # separator
      <4>1. n + 1 \in 1..(n + 1) /\ \A i \in 1..n : i \in 1..(n + 1)
        OBVIOUS
      <4> QED
        BY <3>3, <3>4, <4>1
    <3>6. Free(c, {separator})
      BY <3>1, <3>5 DEF Free
    <3>7. SplitAt(a \o c, separator) = Append(d, c)
      BY <1>2, <3>6
    <3>8. a \o Append(c, t) = Append(a \o c, t) /\ a \o c \in Seq(T)
      <4>1. <<t>> \in Seq(T) /\ a \o c \in Seq(T)
        BY ConcatProperties
      <4>2. Append(c, t) = c \o <<t>> /\ Append(a \o c, t) = (a \o c) \o <<t>>
        BY <4>1, AppendIsConcat
      <4>3. (a \o c) \o <<t>> = a \o (c \o <<t>>)
        <5>1. Assoc(a, c, <<t>>)
          BY <4>1, AssocSeq
        <5> QED
          BY <5>1, Zenon DEF Assoc
      <4> QED
        BY <4>1, <4>2, <4>3, Zenon
    <3>9. SplitAt(Append(a \o c, t), separator) = Split(Append(d, c), t, separator)
      BY <3>7, <3>8, SplitAtAppend
    <3> QED
      BY <3>5, <3>8, <3>9, SplitLast
  <2> QED
    BY <2>1, <2>2
<1> HIDE DEF S
<1>3. b \in S
  BY <1>1, <1>2, SeqInduction
<1> QED
  BY <1>3 DEF S

\* No separator, no split.
LEMMA SplitWhole ==
  ASSUME NEW T, NEW b \in Seq(T), NEW separator, Free(b, {separator})
  PROVE  SplitAt(b, separator) = <<b>>
<1>0. <<>> \in Seq(Seq(T)) /\ <<>> \in Seq(T)
  OBVIOUS
<1>1. PICK d \in Seq(Seq(T)) : d = <<>>
  BY <1>0, Zenon
<1>2. PICK a \in Seq(T) : a = <<>>
  BY <1>0, Zenon
<1>3. Append(d, a) = << <<>> >> /\ Append(d, b) = <<b>> /\ a \o b = b
  BY <1>1, <1>2, ConcatEmptySeq
<1>4. SplitInto(a, d, <<>>, separator)
  BY <1>2, <1>3, SplitAtEmpty DEF SplitInto
<1>5. SplitInto(a \o b, d, b, separator)
  BY <1>4, SplitFree, Zenon
<1> QED
  BY <1>3, <1>5, Zenon DEF SplitInto

\* The part after the last separator.
LEMMA SplitAgain ==
  ASSUME NEW T, NEW a \in Seq(T), NEW b \in Seq(T), NEW separator \in T, Free(b, {separator})
  PROVE  SplitAt(a \o <<separator>> \o b, separator) = Append(SplitAt(a, separator), b)
<1>1. PICK c \in Seq(T) : c = Append(a, separator)
  BY AppendProperties
<1>2. c = a \o <<separator>>
  BY <1>1, AppendIsConcat
<1>3. PICK d \in Seq(Seq(T)) : d = SplitAt(a, separator)
  BY SplitAtType
<1>4. SplitAt(c, separator) = Append(d, <<>>)
  <2>1. SplitAt(c, separator) = Split(d, separator, separator)
    BY <1>1, <1>3, SplitAtAppend
  <2> QED
    BY <2>1 DEF Split
<1>5. SplitAt(c \o b, separator) = Append(d, b)
  <2>1. SplitInto(c, d, <<>>, separator)
    BY <1>4, Zenon DEF SplitInto
  <2>2. SplitInto(c \o b, d, b, separator)
    BY <2>1, SplitFree, Zenon
  <2> QED
    BY <2>2, Zenon DEF SplitInto
<1> QED
  BY <1>2, <1>3, <1>5, Zenon

-----------------------------------------------------------------------------
(* connection_options::parse: the settings change three options.           *)

\* What opts may become by its settings.
Similar(opts) ==
  {o \in Given : /\ o.alias = opts.alias /\ o.schema = opts.schema /\ o.uri = opts.uri
                 /\ o.database = opts.database /\ o.password = opts.password}

\* A number is a number, with a sign or without.
LEMMA LeadingType ==
  ASSUME NEW s, NEW n \in Leading(s)
  PROVE  n.value \in Int
<1>1. \A t \in DOMAIN Numbers : Numbers[t] \in Int /\ -Numbers[t] \in Int
  BY NumbersAssumption
<1>2. CASE s # <<>> /\ s[1] \in DOMAIN Numbers
  BY <1>1, <1>2 DEF Leading
<1>3. CASE ~(s # <<>> /\ s[1] \in DOMAIN Numbers)
  BY <1>1, <1>3 DEF Leading
<1> QED
  BY <1>2, <1>3

\* ... and so is a timeout.
LEMMA TimeoutType ==
  ASSUME NEW s
  PROVE  Timeout(s) \subseteq Int
<1> DEFINE U(n) == CASE n.rest = <<"ms">> -> 1 [] n.rest = <<"s">> -> 1000
                     [] n.rest = <<"m">> -> 60000
<1>1. ASSUME NEW n \in Leading(s), n.rest \in {<<"ms">>, <<"s">>, <<"m">>} PROVE U(n) \in Int
  <2>1. <<"ms">> # <<"s">> /\ <<"ms">> # <<"m">> /\ <<"s">> # <<"m">>
    OBVIOUS
  <2> QED
    BY <1>1, <2>1
<1>2. ASSUME NEW n \in Leading(s), n.rest \in {<<"ms">>, <<"s">>, <<"m">>}
      PROVE  n.value * U(n) \in Int
  <2>1. n.value \in Int
    BY LeadingType
  <2>2. U(n) \in Int
    BY <1>1, <1>2
  <2> HIDE DEF U
  <2> QED
    BY <2>1, <2>2
<1>3. Timeout(s) =
        {n.value * U(n) : n \in {m \in Leading(s) : m.rest \in {<<"ms">>, <<"s">>, <<"m">>}}}
  BY DEF Timeout
<1> HIDE DEF U
<1> QED
  BY <1>2, <1>3

\* A Boolean is one.
LEMMA FlagType ==
  ASSUME NEW s
  PROVE  Flag(s) \subseteq BOOLEAN
BY TruthAssumption DEF Flag

\* set_option leaves all but three options alone.
LEMMA SetOptionType ==
  ASSUME NEW opts, NEW o \in Similar(opts), NEW key, NEW val
  PROVE  SetOption(o, key, val) \subseteq Similar(opts)
<1>1. o \in Given
  BY DEF Similar
<1>2. ASSUME NEW b \in Flag(val) PROVE [o EXCEPT !.keep_alive = b] \in Similar(opts)
  <2>1. b \in BOOLEAN
    BY FlagType
  <2> QED
    BY <1>1, <2>1 DEF Similar, Given
<1>3. ASSUME NEW t \in Timeout(val)
      PROVE  /\ [o EXCEPT !.connect_timeout = t] \in Similar(opts)
             /\ [o EXCEPT !.socket_timeout = t] \in Similar(opts)
  <2>1. t \in Int
    BY TimeoutType
  <2> QED
    BY <1>1, <2>1 DEF Similar, Given
<1>4. CASE key = <<"keep_alive">>
  BY <1>2, <1>4 DEF SetOption
<1>5. CASE key = <<"connect_timeout">>
  <2>1. key # <<"keep_alive">>
    BY <1>5
  <2> QED
    BY <1>3, <1>5, <2>1 DEF SetOption
<1>6. CASE key = <<"socket_timeout">>
  <2>1. key # <<"keep_alive">> /\ key # <<"connect_timeout">>
    BY <1>6
  <2> QED
    BY <1>3, <1>6, <2>1 DEF SetOption
<1> QED
  BY <1>4, <1>5, <1>6 DEF SetOption

\* One more parameter, and what the first ones make.
SetStep(S, parameter) ==
  LET pair == SplitAt(parameter, "=")
  IN  IF Len(pair) # 2 THEN {} ELSE UNION {SetOption(o, pair[1], pair[2]) : o \in S}

Sets(f, n, opts, parameters) ==
  f = [i \in 0..n |-> IF i = 0 THEN {opts} ELSE SetStep(f[i - 1], parameters[i])]

SetsOf(opts, parameters) == CHOOSE f : Sets(f, Len(parameters), opts, parameters)

SetAll(opts, parameters) == SetsOf(opts, parameters)[Len(parameters)]

\* ... and so does a parameter.
LEMMA SetStepType ==
  ASSUME NEW opts, NEW S, S \subseteq Similar(opts), NEW parameter
  PROVE  SetStep(S, parameter) \subseteq Similar(opts)
<1>1. PICK pair : pair = SplitAt(parameter, "=")
  OBVIOUS
<1>2. \A o \in S : SetOption(o, pair[1], pair[2]) \subseteq Similar(opts)
  BY SetOptionType
<1> QED
  BY <1>1, <1>2 DEF SetStep

\* ... which are what the equation of ParseParameters says.
LEMMA SetsDef ==
  ASSUME NEW opts \in Given, NEW parameters, Len(parameters) \in Nat
  PROVE  /\ SetsOf(opts, parameters)[0] = {opts}
         /\ \A i \in 1..Len(parameters) :
              SetsOf(opts, parameters)[i] =
                SetStep(SetsOf(opts, parameters)[i - 1], parameters[i])
         /\ \A i \in 0..Len(parameters) : SetsOf(opts, parameters)[i] \subseteq Similar(opts)
<1> DEFINE D == SUBSET Similar(opts)
<1>1. PICK n \in Nat : n = Len(parameters)
  OBVIOUS
<1>2. {opts} \in D
  BY DEF Similar
<1>3. ASSUME NEW i \in 1..n, NEW d \in D PROVE SetStep(d, parameters[i]) \in D
  BY SetStepType
<1> HIDE DEF D
<1>4. PICK f \in [0..n -> D] :
        f[0] = {opts} /\ \A i \in 1..n : f[i] = SetStep(f[i - 1], parameters[i])
  <2> DEFINE step == [i \in 1..n |-> [d \in D |-> SetStep(d, parameters[i])]]
  <2>1. step \in [1..n -> [D -> D]]
    BY <1>3
  <2> HIDE DEF step
  <2>2. PICK f \in [0..n -> D] : f[0] = {opts} /\ \A i \in 1..n : f[i] = step[i][f[i - 1]]
    <3>1. PICK b \in D : b = {opts}
      BY <1>2
    <3>2. PICK f : Iterates(f, D, b, n, step)
      BY <2>1, Iteration, Zenon
    <3> QED
      BY <3>1, <3>2, Zenon DEF Iterates
  <2>3. ASSUME NEW i \in 1..n PROVE f[i] = SetStep(f[i - 1], parameters[i])
    <3>1. i - 1 \in 0..n
      OBVIOUS
    <3>2. f[i - 1] \in D
      BY <3>1
    <3>3. step[i] = [d \in D |-> SetStep(d, parameters[i])]
      BY DEF step
    <3> QED
      BY <2>2, <3>2, <3>3
  <2> QED
    BY <2>2, <2>3
<1>5. Sets(f, n, opts, parameters)
  <2> DEFINE g == [i \in 0..n |-> IF i = 0 THEN {opts} ELSE SetStep(f[i - 1], parameters[i])]
  <2>1. ASSUME NEW i \in 0..n PROVE f[i] = g[i]
    <3>1. i = 0 \/ i \in 1..n
      OBVIOUS
    <3> QED
      BY <1>4, <3>1
  <2>2. f = g
    BY <2>1
  <2> QED
    BY <2>2 DEF Sets
<1>6. PICK g : g = SetsOf(opts, parameters)
  OBVIOUS
<1>7. Sets(g, n, opts, parameters)
  BY <1>1, <1>5, <1>6 DEF SetsOf
<1>8. g[0] = {opts}
  BY <1>7 DEF Sets
<1>9. ASSUME NEW i \in 1..n PROVE g[i] = SetStep(g[i - 1], parameters[i])
  <2>1. i \in 0..n /\ i # 0
    OBVIOUS
  <2> QED
    BY <1>7, <2>1 DEF Sets
<1>10. \A i \in 0..n : g[i] \in D
  <2> DEFINE S == {i \in 0..n : g[i] \in D}
  <2>1. 0 \in S
    <3>1. 0 \in 0..n
      OBVIOUS
    <3> QED
      BY <1>2, <1>8, <3>1
  <2>2. ASSUME NEW i \in 1..n, i - 1 \in S PROVE i \in S
    <3>1. g[i - 1] \in D /\ i \in 0..n
      BY <2>2
    <3>2. g[i] \in D
      BY <1>3, <1>9, <3>1
    <3> QED
      BY <3>1, <3>2
  <2> HIDE DEF S
  <2>3. \A i \in 0..n : i \in S
    BY <2>1, <2>2, BoundedInduction
  <2> QED
    BY <2>3 DEF S
<1> QED
  BY <1>1, <1>6, <1>8, <1>9, <1>10 DEF D

\* parse_parameters sets the parts between the ampersands.
LEMMA ParseParametersIs ==
  ASSUME NEW opts, NEW s
  PROVE  ParseParameters(opts, s) =
           IF s = <<>> THEN {opts} ELSE SetAll(opts, SplitAt(s, "&"))
BY DEF ParseParameters, SetAll, SetsOf, Sets, SetStep

\* Whatever the settings are, they leave the rest of the options alone.
LEMMA ParseParametersType ==
  ASSUME NEW opts \in Given, NEW s \in Text
  PROVE  ParseParameters(opts, s) \subseteq Similar(opts)
<1>1. {opts} \subseteq Similar(opts)
  BY DEF Similar
<1>2. PICK parameters \in Seq(Seq(Tokens)) : parameters = SplitAt(s, "&")
  BY SplitAtType DEF Text
<1>3. Len(parameters) \in Nat /\ Len(parameters) \in 0..Len(parameters)
  BY LenProperties
<1>4. SetAll(opts, parameters) \subseteq Similar(opts)
  BY <1>3, SetsDef DEF SetAll
<1> QED
  BY <1>1, <1>2, <1>4, ParseParametersIs

\* What the first parameters set, each on top of those before.
SetsSteps(f, n, opts, parameters) ==
  f[0] = {opts} /\ \A i \in 1..n : f[i] = SetStep(f[i - 1], parameters[i])

LEMMA SetsInSteps ==
  ASSUME NEW opts \in Given, NEW parameters, NEW n \in Nat, n = Len(parameters)
  PROVE  \E f : f = SetsOf(opts, parameters) /\ SetsSteps(f, n, opts, parameters)
<1>1. PICK f : f = SetsOf(opts, parameters)
  OBVIOUS
<1>2. f[0] = {opts}
  BY <1>1, SetsDef
<1>3. ASSUME NEW i \in 1..n PROVE f[i] = SetStep(f[i - 1], parameters[i])
  BY <1>1, SetsDef
<1> QED
  BY <1>1, <1>2, <1>3 DEF SetsSteps

\* A last parameter is set after the others.
LEMMA SetAllAppend ==
  ASSUME NEW opts \in Given, NEW ps \in Seq(Text), NEW p \in Text
  PROVE  SetAll(opts, Append(ps, p)) = SetStep(SetAll(opts, ps), p)
<1>1. PICK n \in Nat : n = Len(ps)
  BY LenProperties
<1>2. PICK r \in Seq(Text) : r = Append(ps, p)
  BY AppendProperties
<1>3. Len(r) = n + 1 /\ r[n + 1] = p /\ \A i \in 1..n : r[i] = ps[i]
  BY <1>1, <1>2, AppendProperties
<1>4. PICK f : f = SetsOf(opts, ps) /\ SetsSteps(f, n, opts, ps)
  BY <1>1, SetsInSteps, Zenon
<1>5. PICK g : g = SetsOf(opts, r) /\ SetsSteps(g, n + 1, opts, r)
  <2>1. n + 1 = Len(r) /\ n + 1 \in Nat
    BY <1>3
  <2> QED
    BY <2>1, SetsInSteps, Zenon
<1>6. f[0] = {opts} /\ \A i \in 1..n : f[i] = SetStep(f[i - 1], ps[i])
  BY <1>4, Zenon DEF SetsSteps
<1>7. g[0] = {opts} /\ \A i \in 1..n + 1 : g[i] = SetStep(g[i - 1], r[i])
  BY <1>5, Zenon DEF SetsSteps
<1>8. \A i \in 0..n : f[i] = g[i]
  <2> DEFINE S == {i \in 0..n : f[i] = g[i]}
  <2>1. 0 \in S
    <3>1. 0 \in 0..n
      OBVIOUS
    <3> QED
      BY <1>6, <1>7, <3>1
  <2>2. ASSUME NEW i \in 1..n, i - 1 \in S PROVE i \in S
    <3>1. f[i - 1] = g[i - 1] /\ i \in 0..n /\ i \in 1..n + 1
      BY <2>2
    <3>2. f[i] = g[i]
      BY <1>3, <1>6, <1>7, <3>1
    <3> QED
      BY <3>1, <3>2
  <2> HIDE DEF S
  <2>3. \A i \in 0..n : i \in S
    BY <2>1, <2>2, BoundedInduction
  <2> QED
    BY <2>3 DEF S
<1>9. g[n + 1] = SetStep(f[n], p)
  <2>1. n + 1 \in 1..n + 1 /\ (n + 1) - 1 = n /\ n \in 0..n
    OBVIOUS
  <2>2. g[n + 1] = SetStep(g[n], r[n + 1])
    BY <1>7, <2>1
  <2> QED
    BY <1>3, <1>8, <2>1, <2>2
<1> QED
  BY <1>1, <1>2, <1>3, <1>4, <1>5, <1>9 DEF SetAll

\* No parameters set nothing.
LEMMA SetAllEmpty ==
  ASSUME NEW opts \in Given
  PROVE  SetAll(opts, <<>>) = {opts}
<1>1. PICK ps : ps = <<>>
  OBVIOUS
<1>2. Len(ps) = 0
  BY <1>1
<1>3. SetsOf(opts, ps)[0] = {opts}
  BY <1>2, SetsDef
<1> QED
  BY <1>1, <1>2, <1>3 DEF SetAll

-----------------------------------------------------------------------------
(* What parse accepts is what was written.                                 *)

\* Texts put together are a text.
LEMMA ConcatText ==
  ASSUME NEW a \in Text, NEW b \in Text
  PROVE  a \o b \in Text /\ Len(a \o b) = Len(a) + Len(b)
BY ConcatProperties DEF Text

\* It does not matter in which order texts are put together.
LEMMA AssociativeText ==
  ASSUME NEW a \in Text, NEW b \in Text, NEW c \in Text
  PROVE  Assoc(a, b, c)
BY ConcatAssociative DEF Text, Assoc

Glued(a, b, c, d, e, f) == a \o b \o (c \o d \o (e \o f)) = a \o b \o c \o d \o e \o f

\* ... nor the six parts of a connection string.
LEMMA Glue ==
  ASSUME NEW a \in Text, NEW b \in Text, NEW c \in Text, NEW d \in Text, NEW e \in Text,
         NEW f \in Text
  PROVE  /\ Glued(a, b, c, d, e, f)
         /\ a \o b \o c \o d \o e \in Text
<1>1. a \o b \in Text /\ c \o d \in Text /\ e \o f \in Text
  BY ConcatText, Zenon
<1>2. a \o b \o (c \o d) \in Text
  BY <1>1, ConcatText, Zenon
<1>3. Assoc(a \o b, c \o d, e \o f) /\ Assoc(a \o b, c, d) /\ Assoc(a \o b \o (c \o d), e, f)
  BY <1>1, <1>2, AssociativeText, Zenon
<1>4. a \o b \o (c \o d) \o e \in Text
  BY <1>2, ConcatText, Zenon
<1> QED
  BY <1>3, <1>4, Zenon DEF Assoc, Glued

\* The separators, as texts.
LEMMA OneToken ==
  ASSUME NEW x \in Tokens
  PROVE  <<x>> \in Text /\ <<x>> # <<>> /\ Len(<<x>>) = 1
BY DEF Text

\* ... those that parse looks for.
LEMMA SeparatorTexts ==
  /\ \A x \in Separators : x \in Tokens
  /\ <<>> \in Text
  /\ <<"=">> \in Text /\ <<"=">> # <<>> /\ <<"@">> \in Text /\ <<"@">> # <<>>
  /\ <<"?">> \in Text /\ <<"?">> # <<>> /\ <<"/">> \in Text /\ <<"/">> # <<>>
  /\ <<"&">> \in Text /\ <<"&">> # <<>>
  /\ <<":", "/", "/">> \in Text /\ <<":", "/", "/">> # <<>> /\ Len(<<":", "/", "/">>) = 3
  /\ <<":", "/", "/">>[1] = ":"
<1>1. {"=", "@", "?", "/", "&", ":"} \subseteq Tokens
  BY TokensAssumption DEF Separators
<1>2. \A x \in Separators : x \in Tokens
  BY TokensAssumption
<1>3. ASSUME NEW x \in Tokens, NEW y \in Tokens
      PROVE  /\ <<x, y, y>> \in Text /\ <<x, y, y>> # <<>> /\ Len(<<x, y, y>>) = 3
             /\ <<x, y, y>>[1] = x
  BY DEF Text
<1>4. <<>> \in Text
  BY DEF Text
<1>5. ":" \in Tokens /\ "/" \in Tokens /\ "=" \in Tokens /\ "@" \in Tokens /\ "?" \in Tokens
      /\ "&" \in Tokens
  BY <1>1
<1> QED
  BY <1>2, <1>3, <1>4, <1>5, OneToken, Zenon

\* A text cut at a separator is what is before it, itself, and what is after it.
LEMMA CutAtText ==
  ASSUME NEW s \in Text, NEW what \in Text, what # <<>>, NEW i \in Occurs(s, what)
  PROVE  /\ i \in 1..Len(s) /\ i + Len(what) - 1 \in 1..Len(s)
         /\ Before(s, i) \in Text /\ Len(Before(s, i)) = i - 1
         /\ After(s, i + Len(what) - 1) \in Text
         /\ s = Before(s, i) \o what \o After(s, i + Len(what) - 1)
<1> USE DEF Text
<1> DEFINE n == Len(s)  m == Len(what)
<1>1. n \in Nat /\ m \in Nat \ {0}
  BY EmptySeq, LenProperties
<1>2. i \in 1..(n - m + 1) /\ what = SubSeq(s, i, i + m - 1)
  BY DEF Occurs
<1>3. /\ i \in 1..n /\ i + m - 1 \in 1..n
      /\ 1 \in 1..n + 1 /\ i - 1 \in (1 - 1)..n /\ i + m - 1 \in (i - 1)..n
      /\ n \in (i + m - 1)..n /\ i \in 1..n + 1 /\ (i - 1) + 1 = i
      /\ i + m - 1 \in (i - 1)..n /\ i - 1 \in Int /\ i + m \in Int /\ n \in Int
      /\ 1 \in Int /\ i + m = (i + m - 1) + 1
  BY <1>1, <1>2
<1>4. Before(s, i) \in Seq(Tokens) /\ Len(Before(s, i)) = i - 1
  <2>1. \A j \in 1..(i - 1) : s[j] \in Tokens
    BY <1>3
  <2>2. /\ SubSeq(s, 1, i - 1) \in Seq(Tokens)
        /\ Len(SubSeq(s, 1, i - 1)) = IF 1 <= i - 1 THEN i - 1 - 1 + 1 ELSE 0
    BY <1>3, <2>1, SubSeqProperties
  <2> QED
    BY <1>3, <2>2 DEF Before
<1>5. After(s, i + m - 1) \in Seq(Tokens)
  <2>1. \A j \in (i + m)..n : s[j] \in Tokens
    BY <1>3, <1>1
  <2>2. SubSeq(s, i + m, n) \in Seq(Tokens)
    BY <1>3, <2>1, SubSeqProperties
  <2> QED
    BY <1>3, <2>2 DEF After
<1>6. SubSeq(s, 1, i - 1) \o SubSeq(s, i, i + m - 1) = SubSeq(s, 1, i + m - 1)
  <2>1. SubSeq(s, 1, i - 1) \o SubSeq(s, (i - 1) + 1, i + m - 1) = SubSeq(s, 1, i + m - 1)
    BY <1>3, ConcatAdjacentSubSeq
  <2> QED
    BY <2>1, <1>3
<1>7. SubSeq(s, 1, i + m - 1) \o SubSeq(s, (i + m - 1) + 1, n) = SubSeq(s, 1, n)
  <2>1. i + m - 1 \in (1 - 1)..n
    BY <1>3
  <2> QED
    BY <1>3, <2>1, ConcatAdjacentSubSeq
<1>8. SubSeq(s, 1, n) = s
  BY SubSeqFull
<1>9. s = Before(s, i) \o what \o After(s, i + m - 1)
  BY <1>2, <1>6, <1>7, <1>8 DEF Before, After
<1> QED
  BY <1>3, <1>4, <1>5, <1>9

\* One token where a text is cut.
LEMMA CutAtToken ==
  ASSUME NEW s \in Text, NEW x \in Tokens, NEW i \in Occurs(s, <<x>>)
  PROVE  /\ i \in 1..Len(s) /\ s[i] = x
         /\ Before(s, i) \in Text /\ Len(Before(s, i)) = i - 1 /\ After(s, i) \in Text
         /\ s = Before(s, i) \o <<x>> \o After(s, i)
<1>2. <<x>> \in Text /\ <<x>> # <<>> /\ Len(<<x>>) = 1
  BY OneToken
<1>3. /\ i \in 1..Len(s)
      /\ Before(s, i) \in Text /\ Len(Before(s, i)) = i - 1
      /\ After(s, i + Len(<<x>>) - 1) \in Text
      /\ s = Before(s, i) \o <<x>> \o After(s, i + Len(<<x>>) - 1)
  BY <1>2, CutAtText, Zenon
<1>4. i + Len(<<x>>) - 1 = i
  BY <1>2, <1>3
<1>5. s[i] = x
  BY OccursOne DEF Text
<1> QED
  BY <1>3, <1>4, <1>5, Zenon

\* Where find and rfind look there is something.
LEMMA Found ==
  ASSUME NEW s \in Text, NEW what \in Text, what # <<>>, Occurs(s, what) # {}
  PROVE  /\ First(Occurs(s, what)) \in Occurs(s, what)
         /\ \A j \in Occurs(s, what) : First(Occurs(s, what)) <= j
         /\ Last(Occurs(s, what)) \in Occurs(s, what)
         /\ \A j \in Occurs(s, what) : Last(Occurs(s, what)) >= j
<1>1. PICK S : S = Occurs(s, what)
  OBVIOUS
<1>2. PICK n \in Nat : n = Len(s)
  BY LenProperties DEF Text
<1>3. S \subseteq 1..n
  BY <1>1, <1>2, OccursHead DEF Text
<1>4. S \subseteq Nat
  BY <1>3
<1>5. First(S) \in S /\ (\A j \in S : First(S) <= j)
  BY <1>1, <1>4, FirstIs
<1>6. Last(S) \in S /\ (\A j \in S : Last(S) >= j)
  BY <1>1, <1>3, LastIs
<1> QED
  BY <1>1, <1>5, <1>6

\* alias, schema, password and path are the text, in order.
LEMMA SplitUriLossless ==
  ASSUME NEW s \in Text, NEW u \in SplitUri(s)
  PROVE  /\ u.alias \in Text /\ u.schema \in Text /\ u.auth \in Text /\ u.path \in Text
         /\ u.alias # <<>> /\ u.schema # <<>>
         /\ \E auth \in {u.auth \o <<"@">>, u.auth} :
              /\ auth \in Text /\ (u.auth # <<>> => auth # u.auth)
              /\ s = u.alias \o <<"=">> \o (u.schema \o <<":", "/", "/">> \o (auth \o u.path))
<1> DEFINE equals == Occurs(s, <<"=">>)
           i == First(equals)
           alias == Before(s, i)
           target == After(s, i)
           colon == Occurs(target, <<":", "/", "/">>)
           j == First(colon)
           rest == After(target, j + 2)
           at == Occurs(rest, <<"@">>)
           k == First(at)
<1>1. /\ equals # {} /\ alias # <<>> /\ colon # {} /\ 1 \notin colon
      /\ u = [alias |-> alias, schema |-> Before(target, j),
              auth |-> IF at = {} THEN <<>> ELSE Before(rest, k),
              path |-> IF at = {} THEN rest ELSE After(rest, k)]
  <2> HIDE DEF alias, target, rest
  <2>1. SplitUri(s) =
          IF equals = {} \/ alias = <<>> \/ colon = {} \/ 1 \in colon THEN {}
          ELSE {[alias |-> alias, schema |-> Before(target, j),
                 auth |-> IF at = {} THEN <<>> ELSE Before(rest, k),
                 path |-> IF at = {} THEN rest ELSE After(rest, k)]}
    BY DEF SplitUri, alias, target, rest
  <2> HIDE DEF equals, i, colon, j, at, k
  <2> QED
    BY <2>1
<1>2. /\ <<"=">> \in Text /\ <<"=">> # <<>> /\ <<"@">> \in Text /\ <<"@">> # <<>>
      /\ <<":", "/", "/">> \in Text /\ <<":", "/", "/">> # <<>> /\ Len(<<":", "/", "/">>) = 3
      /\ <<>> \in Text /\ "=" \in Tokens /\ "@" \in Tokens
  BY SeparatorTexts, Zenon DEF Separators
<1>3. alias \in Text /\ target \in Text /\ s = alias \o <<"=">> \o target
  <2>1. i \in equals
    BY <1>1, <1>2, Found, Zenon
  <2> QED
    BY <1>2, <2>1, CutAtToken, Zenon
<1>4. /\ Before(target, j) \in Text /\ Before(target, j) # <<>> /\ rest \in Text
      /\ target = Before(target, j) \o <<":", "/", "/">> \o rest
  <2> HIDE DEF target
  <2>1. ASSUME NEW what \in Text, what # <<>>, Len(what) = 3,
               Occurs(target, what) # {}, 1 \notin Occurs(target, what)
        PROVE  LET m == First(Occurs(target, what))
               IN  /\ Before(target, m) \in Text /\ Before(target, m) # <<>>
                   /\ After(target, m + 2) \in Text
                   /\ target = Before(target, m) \o what \o After(target, m + 2)
    <3>1. PICK m : m = First(Occurs(target, what))
      OBVIOUS
    <3>2. m \in Occurs(target, what)
      BY <1>3, <2>1, <3>1, Found
    <3>3. /\ m \in 1..Len(target) /\ Before(target, m) \in Text
          /\ Len(Before(target, m)) = m - 1 /\ After(target, m + Len(what) - 1) \in Text
          /\ target = Before(target, m) \o what \o After(target, m + Len(what) - 1)
      <4> HIDE DEF equals, i, alias, colon, j, rest, at, k
      <4>1. PICK x \in Text : x = target
        BY <1>3
      <4>2. m \in Occurs(x, what) /\ what # <<>>
        BY <2>1, <3>2, <4>1
      <4>3. /\ m \in 1..Len(x) /\ Before(x, m) \in Text
            /\ Len(Before(x, m)) = m - 1 /\ After(x, m + Len(what) - 1) \in Text
            /\ x = Before(x, m) \o what \o After(x, m + Len(what) - 1)
        BY ONLY <2>1, <4>2, x \in Text, CutAtText, Zenon
      <4> QED
        BY <4>1, <4>3, Zenon
    <3>4. m + Len(what) - 1 = m + 2
      BY <2>1, <3>3
    <3>5. m # 1
      BY <2>1, <3>2
    <3>6. Before(target, m) # <<>>
      <4>1. Len(Before(target, m)) # 0
        BY <3>3, <3>5
      <4> QED
        BY <4>1
    <3> QED
      BY <3>1, <3>3, <3>4, <3>6
  <2> QED
    BY <1>1, <1>2, <2>1, Zenon
<1>5. \E auth \in {u.auth \o <<"@">>, u.auth} :
        /\ u.auth \in Text /\ u.path \in Text /\ auth \in Text
        /\ u.auth # <<>> => auth # u.auth
        /\ rest = auth \o u.path
  <2> HIDE DEF alias, target, rest, colon, equals, j
  <2>1. CASE at = {}
    <3>1. u.auth = <<>> /\ u.path = rest
      BY <1>1, <2>1
    <3>2. <<>> \o rest = rest
      BY <1>4, ConcatEmptySeq DEF Text
    <3> QED
      BY <1>2, <1>4, <3>1, <3>2, Zenon
  <2>2. CASE at # {}
    <3>1. u.auth = Before(rest, k) /\ u.path = After(rest, k)
      <4> HIDE DEF at, k
      <4> QED
        BY <1>1, <2>2
    <3>2. k \in at
      BY <1>2, <1>4, <2>2, Found, Zenon
    <3>3. u.auth \in Text /\ u.path \in Text /\ rest = u.auth \o <<"@">> \o u.path
      <4>1. /\ Before(rest, k) \in Text /\ After(rest, k) \in Text
            /\ rest = Before(rest, k) \o <<"@">> \o After(rest, k)
        BY <1>2, <1>4, <3>2, CutAtToken, Zenon
      <4> QED
        BY <3>1, <4>1, Zenon
    <3>4. ASSUME NEW x \in Text, x # <<>>
          PROVE  u.auth \o x \in Text /\ u.auth \o x # u.auth
      <4>1. u.auth \o x \in Text /\ Len(u.auth \o x) = Len(u.auth) + Len(x)
        BY <3>3, <3>4, ConcatProperties DEF Text
      <4>2. Len(x) # 0 /\ Len(x) \in Nat /\ Len(u.auth) \in Nat
        BY <3>3, <3>4 DEF Text
      <4> QED
        BY <4>1, <4>2
    <3>5. u.auth \o <<"@">> \in Text /\ u.auth \o <<"@">> # u.auth
      BY <1>2, <3>4, Zenon
    <3> QED
      BY <3>3, <3>5, Zenon
  <2> QED
    BY <2>1, <2>2
<1>6. u.alias = alias /\ u.schema = Before(target, j)
  <2> HIDE DEF alias, target, rest, colon, equals, j, at, k
  <2> QED
    BY <1>1
<1> HIDE DEF alias, target, rest, colon, equals, j, at, k
<1> QED
  BY <1>1, <1>3, <1>4, <1>5, <1>6, Zenon

\* A database begins with a number, or with a sign and one.
LEMMA EmptyNoDatabase == ~IsDatabase(<<>>)
<1>1. Len(<<>>) = 0
  OBVIOUS
<1>2. Leading(<<>>) = {}
  BY <1>1 DEF Leading
<1> QED
  BY <1>2 DEF IsDatabase

\* Address and database are the path, in order, to its end or to a question mark.
LEMMA SplitPathLossless ==
  ASSUME NEW path \in Text, NEW p \in SplitPath(path)
  PROVE  /\ p.uri \in Text /\ p.uri # <<>> /\ p.database \in Text /\ p.parameters \in Text
         /\ \E x \in Text :
              /\ x = p.uri \o (IF p.database = <<>> THEN <<>> ELSE <<"/">> \o p.database)
              /\ \/ path = x
                 \/ \E b \in Text : path = x \o <<"?">> \o b
<1> DEFINE question == Occurs(path, <<"?">>)
           slash == Occurs(path, <<"/">>)
           i == Last(question)
           j == Last(slash)
           last == IF slash = {} THEN <<>> ELSE After(path, j)
           bare == IF question = {} THEN path ELSE Before(path, i)
           named == IsDatabase(last)
           uri == IF named THEN Before(path, j) ELSE bare
<1>1. /\ uri # <<>>
      /\ p = [uri |-> uri, database |-> IF named THEN last ELSE <<>>,
              parameters |-> IF question = {} THEN <<>> ELSE After(path, i)]
  <2>1. SplitPath(path) =
          IF uri = <<>> THEN {}
          ELSE {[uri |-> uri, database |-> IF named THEN last ELSE <<>>,
                 parameters |-> IF question = {} THEN <<>> ELSE After(path, i)]}
    BY DEF SplitPath
  <2> HIDE DEF question, slash, i, j, last, bare, named, uri
  <2> QED
    BY <2>1
<1>2. /\ <<"?">> \in Text /\ <<"?">> # <<>> /\ <<"/">> \in Text /\ <<"/">> # <<>>
      /\ <<>> \in Text /\ "?" \in Tokens /\ "/" \in Tokens
  BY SeparatorTexts, Zenon DEF Separators
<1>3. question # {} =>
        /\ Before(path, i) \in Text /\ After(path, i) \in Text
        /\ path = Before(path, i) \o <<"?">> \o After(path, i)
  <2>1. ASSUME question # {} PROVE i \in question
    BY <1>2, <2>1, Found, Zenon
  <2> QED
    BY <1>2, <2>1, CutAtToken, Zenon
<1>4. slash # {} =>
        /\ Before(path, j) \in Text /\ After(path, j) \in Text
        /\ path = Before(path, j) \o <<"/">> \o After(path, j)
  <2>1. ASSUME slash # {} PROVE j \in slash
    BY <1>2, <2>1, Found, Zenon
  <2> QED
    BY <1>2, <2>1, CutAtToken, Zenon
<1>5. named => slash # {} /\ last = After(path, j) /\ last # <<>>
  <2> HIDE DEF slash, j
  <2> QED
    BY EmptyNoDatabase
<1>6. p.parameters \in Text
  <2> HIDE DEF question, slash, i, j, last, bare, named, uri
  <2> QED
    BY <1>1, <1>2, <1>3
<1>7. CASE named
  <2>1. p.uri = Before(path, j) /\ p.database = last /\ uri = Before(path, j)
    <3> HIDE DEF question, slash, i, j, last, bare, named
    <3> QED
      BY <1>1, <1>7
  <2> HIDE DEF question, slash, i, j, last, bare, named, uri
  <2>2. p.uri \in Text /\ p.database \in Text /\ p.database # <<>> /\ p.uri # <<>>
    BY <1>1, <1>4, <1>5, <1>7, <2>1
  <2>3. path = p.uri \o <<"/">> \o p.database
    BY <1>4, <1>5, <1>7, <2>1
  <2>4. p.uri \o <<"/">> \o p.database = p.uri \o (<<"/">> \o p.database)
    <3>1. ASSUME NEW x \in Text, NEW u \in Text, NEW d \in Text
          PROVE  u \o x \o d = u \o (x \o d)
      BY AssociativeText DEF Assoc
    <3> QED
      BY <1>2, <2>2, <3>1, Zenon
  <2> QED
    BY <1>6, <2>2, <2>3, <2>4, Zenon
<1>8. CASE ~named
  <2>1. p.uri = bare /\ p.database = <<>> /\ uri = bare
    <3> HIDE DEF question, slash, i, j, last, bare, named
    <3> QED
      BY <1>1, <1>8
  <2>2. bare \in Text /\ (\/ path = bare
                          \/ \E b \in Text : path = bare \o <<"?">> \o b)
    <3> HIDE DEF question, slash, i, j, last, named, uri
    <3>1. CASE question = {}
      BY <3>1
    <3>2. CASE question # {}
      BY <1>3, <3>2, Zenon
    <3> QED
      BY <3>1, <3>2
  <2> HIDE DEF question, slash, i, j, last, bare, named, uri
  <2>3. bare \o <<>> = bare
    BY <2>2, ConcatEmptySeq DEF Text
  <2> QED
    BY <1>1, <1>2, <1>6, <2>1, <2>2, <2>3, Zenon
<1> QED
  BY <1>7, <1>8

\* A text that ends, or goes on with a question mark.
LEMMA ReadTo ==
  ASSUME NEW s \in Text, NEW z \in Text, s = z \/ \E b \in Text : s = z \o <<"?">> \o b
  PROVE  \E i \in 0..Len(s) : SubSeq(s, 1, i) = z /\ (i < Len(s) => s[i + 1] = "?")
<1>1. PICK n \in Nat : n = Len(s)
  BY LenProperties DEF Text
<1>2. CASE s = z
  <2>1. SubSeq(s, 1, n) = s
    BY <1>1, SubSeqFull DEF Text
  <2>2. n \in 0..n /\ ~(n < n)
    OBVIOUS
  <2> QED
    BY <1>1, <1>2, <2>1, <2>2
<1>3. ASSUME NEW b \in Text, s = z \o <<"?">> \o b
      PROVE  \E i \in 0..n : SubSeq(s, 1, i) = z /\ s[i + 1] = "?"
  <2>1. <<"?">> \in Text /\ <<"?">> # <<>> /\ "?" \in Tokens
    BY SeparatorTexts, Zenon DEF Separators
  <2>2. ASSUME NEW what \in Text, what # <<>>, s = z \o what \o b
        PROVE  Len(z) + 1 \in Occurs(s, what) /\ Before(s, Len(z) + 1) = z
    BY <2>2, Pieces DEF Text
  <2>3. Len(z) + 1 \in Occurs(s, <<"?">>) /\ Before(s, Len(z) + 1) = z
    BY <1>3, <2>1, <2>2, Zenon
  <2>4. Len(z) + 1 \in 1..Len(s) /\ s[Len(z) + 1] = "?"
    BY <2>1, <2>3, CutAtToken, Zenon
  <2>5. Len(z) \in 0..n /\ Len(z) + 1 - 1 = Len(z)
    <3>1. Len(z) \in Nat
      BY LenProperties DEF Text
    <3> QED
      BY <1>1, <2>4, <3>1
  <2>6. SubSeq(s, 1, Len(z)) = z
    BY <2>3, <2>5 DEF Before
  <2> QED
    BY <2>4, <2>5, <2>6, Zenon
<1> QED
  BY <1>1, <1>2, <1>3

\* The parts of options are those of the text: what Lossless says of one.
Read(s, o) ==
  /\ o.alias # <<>> /\ o.schema # <<>> /\ o.uri # <<>>
  /\ \E auth \in {o.password \o <<"@">>, o.password}, i \in 0..Len(s) :
       /\ o.password # <<>> => auth # o.password
       /\ SubSeq(s, 1, i) =
            o.alias \o <<"=">> \o o.schema \o <<":", "/", "/">> \o auth \o o.uri
            \o (IF o.database = <<>> THEN <<>> ELSE <<"/">> \o o.database)
       /\ i < Len(s) => s[i + 1] = "?"

\* What split_uri and split_path return makes options.
LEMMA GivenRecord ==
  ASSUME NEW a \in Text, NEW s \in Text, NEW u \in Text, NEW d \in Text, NEW p \in Text
  PROVE  [alias |-> a, schema |-> s, uri |-> u, database |-> d, password |-> p,
          keep_alive |-> FALSE, connect_timeout |-> 0, socket_timeout |-> 0] \in Given
BY DEF Given

\* Options that parse returns are the parts of the text, put together again.
LEMMA ParseRead ==
  ASSUME NEW s \in Text, NEW o \in Parse(s)
  PROVE  Read(s, o) /\ o \in Given
<1> DEFINE Opts(u, p) == [alias |-> u.alias, schema |-> u.schema, uri |-> p.uri,
                          database |-> p.database, password |-> u.auth, keep_alive |-> FALSE,
                          connect_timeout |-> 0, socket_timeout |-> 0]
<1>0. PICK u \in SplitUri(s) :
        \E p \in SplitPath(u.path) : o \in ParseParameters(Opts(u, p), p.parameters)
  BY DEF Parse
<1>1. PICK p \in SplitPath(u.path) : o \in ParseParameters(Opts(u, p), p.parameters)
  BY <1>0
<1>2. /\ u.alias \in Text /\ u.schema \in Text /\ u.auth \in Text /\ u.path \in Text
      /\ u.alias # <<>> /\ u.schema # <<>>
  BY SplitUriLossless, Zenon
<1>3. PICK auth \in {u.auth \o <<"@">>, u.auth} :
        /\ auth \in Text /\ (u.auth # <<>> => auth # u.auth)
        /\ s = u.alias \o <<"=">> \o (u.schema \o <<":", "/", "/">> \o (auth \o u.path))
  BY SplitUriLossless, Zenon
<1>4. p.uri \in Text /\ p.uri # <<>> /\ p.database \in Text /\ p.parameters \in Text
  BY <1>2, SplitPathLossless, Zenon
<1> DEFINE tail == IF p.database = <<>> THEN <<>> ELSE <<"/">> \o p.database
<1>5. PICK x \in Text : /\ x = p.uri \o tail
                        /\ \/ u.path = x
                           \/ \E b \in Text : u.path = x \o <<"?">> \o b
  BY <1>2, SplitPathLossless, Zenon
<1>6. PICK opts \in Given : opts = Opts(u, p)
  BY <1>2, <1>4, GivenRecord, Zenon
<1>7. o \in Similar(opts)
  BY <1>1, <1>4, <1>6, ParseParametersType
<1>8. /\ o.alias = u.alias /\ o.schema = u.schema /\ o.uri = p.uri
      /\ o.database = p.database /\ o.password = u.auth /\ o \in Given
  BY <1>6, <1>7 DEF Similar
<1>9. <<"=">> \in Text /\ <<":", "/", "/">> \in Text /\ <<"?">> \in Text /\ <<"/">> \in Text
      /\ <<>> \in Text
  BY SeparatorTexts, Zenon
<1> DEFINE pre == u.alias \o <<"=">> \o u.schema \o <<":", "/", "/">> \o auth
<1>10. s = pre \o u.path /\ pre \in Text
  <2>1. Glued(u.alias, <<"=">>, u.schema, <<":", "/", "/">>, auth, u.path) /\ pre \in Text
    BY <1>2, <1>3, <1>9, Glue, Zenon
  <2> QED
    BY <1>3, <2>1, Zenon DEF Glued
<1>11. tail \in Text
  BY <1>4, <1>9, ConcatText, Zenon
<1> HIDE DEF pre, tail, Opts
<1>12. pre \o x = pre \o p.uri \o tail
  <2>1. Assoc(pre, p.uri, tail)
    BY <1>4, <1>10, <1>11, AssociativeText, Zenon
  <2>2. x = p.uri \o tail
    BY <1>5, Zenon
  <2> QED
    BY <2>1, <2>2, Zenon DEF Assoc
<1>13. pre \o x \in Text
  BY <1>10, ConcatText
<1>14. s = pre \o x \/ \E b \in Text : s = (pre \o x) \o <<"?">> \o b
  <2>1. CASE u.path = x
    BY <1>10, <2>1
  <2>2. ASSUME NEW b \in Text, u.path = x \o <<"?">> \o b
        PROVE  s = (pre \o x) \o <<"?">> \o b
    <3>1. x \o <<"?">> \in Text
      BY <1>9, ConcatText, Zenon
    <3>2. Assoc(pre, x \o <<"?">>, b) /\ Assoc(pre, x, <<"?">>)
      BY <1>9, <1>10, <3>1, AssociativeText, Zenon
    <3> QED
      BY <1>10, <2>2, <3>2, Zenon DEF Assoc
  <2> QED
    BY <1>5, <2>1, <2>2
<1>15. \E i \in 0..Len(s) : SubSeq(s, 1, i) = pre \o x /\ (i < Len(s) => s[i + 1] = "?")
  BY <1>13, <1>14, ReadTo, Zenon
<1>16. auth \in {o.password \o <<"@">>, o.password} /\ (o.password # <<>> => auth # o.password)
  BY <1>3, <1>8, Zenon
<1>17. pre \o x = o.alias \o <<"=">> \o o.schema \o <<":", "/", "/">> \o auth \o o.uri
                  \o (IF o.database = <<>> THEN <<>> ELSE <<"/">> \o o.database)
  BY <1>8, <1>12, Zenon DEF pre, tail
<1>18. o.alias # <<>> /\ o.schema # <<>> /\ o.uri # <<>>
  BY <1>2, <1>4, <1>8, Zenon
<1> QED
  BY <1>8, <1>15, <1>16, <1>17, <1>18, Zenon DEF Read

-----------------------------------------------------------------------------
(* What a setting does, and where it ends.                                 *)

\* Texts put together are free of what each is free of.
LEMMA FreeText ==
  ASSUME NEW a \in Text, NEW b \in Text, NEW X
  PROVE  Free(a \o b, X) <=> Free(a, X) /\ Free(b, X)
BY FreeConcat DEF Text

\* Texts of one, two and three tokens.
LEMMA TupleSeq ==
  ASSUME NEW T, NEW a \in T, NEW b \in T, NEW c \in T
  PROVE  <<a>> \in Seq(T) /\ <<a, b>> \in Seq(T) /\ <<a, b, c>> \in Seq(T)
OBVIOUS

\* A part after another.
LEMMA AppendOne ==
  ASSUME NEW a, NEW b
  PROVE  Append(<<a>>, b) = <<a, b>>
<1>1. PICK T : a \in T /\ b \in T
  <2>1. a \in {a, b} /\ b \in {a, b}
    OBVIOUS
  <2> QED
    BY <2>1, Zenon
<1>2. <<a>> \in Seq(T) /\ <<a, b>> \in Seq(T)
  BY <1>1, TupleSeq, Zenon
<1>3. PICK s \in Seq(T) : s = <<a>>
  BY <1>2, Zenon
<1>4. PICK t \in Seq(T) : t = <<a, b>>
  BY <1>2, Zenon
<1>5. Len(s) = 1 /\ s[1] = a /\ Len(t) = 2 /\ t[1] = a /\ t[2] = b
  BY <1>3, <1>4
<1>6. PICK r \in Seq(T) : r = Append(s, b)
  BY <1>1, AppendProperties
<1>7. Len(r) = 2 /\ r[1] = a /\ r[2] = b
  BY <1>1, <1>5, <1>6, AppendProperties
<1>8. r = t
  <2>1. \A i \in 1..2 : r[i] = t[i]
    BY <1>5, <1>7
  <2> QED
    BY <1>5, <1>7, <2>1, SeqEqual
<1> QED
  BY <1>3, <1>4, <1>6, <1>8, Zenon

\* What follows a sign and a number.
LEMMA ThirdOnly ==
  ASSUME NEW a, NEW b, NEW c
  PROVE  After(<<a, b, c>>, 2) = <<c>>
<1>1. PICK T : a \in T /\ b \in T /\ c \in T
  <2>1. a \in {a, b, c} /\ b \in {a, b, c} /\ c \in {a, b, c}
    OBVIOUS
  <2> QED
    BY <2>1, Zenon
<1>2. PICK s \in Seq(T) : s = <<a, b, c>>
  BY <1>1, TupleSeq, Zenon
<1>3. Len(s) = 3 /\ s[3] = c
  BY <1>2
<1>4. \A i \in 3..3 : s[i] \in T
  BY <1>1, <1>3
<1>5. /\ SubSeq(s, 3, 3) \in Seq(T) /\ Len(SubSeq(s, 3, 3)) = IF 3 <= 3 THEN 3 - 3 + 1 ELSE 0
      /\ \A i \in 1..(3 - 3 + 1) : SubSeq(s, 3, 3)[i] = s[3 + i - 1]
  BY <1>4, SubSeqProperties
<1>6. PICK t \in Seq(T) : t = <<c>>
  BY <1>1, TupleSeq, Zenon
<1>7. Len(t) = 1 /\ t[1] = c
  BY <1>6
<1>8. SubSeq(s, 3, 3) = t
  <2>1. PICK r \in Seq(T) : r = SubSeq(s, 3, 3)
    BY <1>5
  <2>2. Len(r) = 1 /\ r[1] = c
    BY <1>3, <1>5, <2>1
  <2>3. \A i \in 1..1 : r[i] = t[i]
    BY <1>7, <2>2
  <2> QED
    BY <1>7, <2>1, <2>2, <2>3, SeqEqual
<1>9. After(s, 2) = SubSeq(s, 3, 3)
  BY <1>3 DEF After
<1> QED
  BY <1>2, <1>6, <1>8, <1>9

\* What short texts are free of.
LEMMA FreeTokens ==
  ASSUME NEW X, NEW x, NEW y, NEW z
  PROVE  /\ Free(<<x>>, X) <=> x \notin X
         /\ Free(<<x, y>>, X) <=> x \notin X /\ y \notin X
         /\ Free(<<x, y, z>>, X) <=> x \notin X /\ y \notin X /\ z \notin X
         /\ Free(<<>>, X)
BY DEF Free

\* A text free of some tokens is free of fewer.
LEMMA FreeFewer ==
  ASSUME NEW s, NEW X, NEW Y, Y \subseteq X, Free(s, X)
  PROVE  Free(s, Y)
BY DEF Free

\* No value has one of the separators of settings and addresses in it.
Ends == {"=", "&", "?", "/"}

\* ... as a value is a number with a unit or a spelling of a Boolean.
LEMMA SettingFree ==
  ASSUME NEW s \in Settings
  PROVE  /\ s.key \in Tokens /\ s.val \in Text /\ Free(s.val, Ends) /\ s.key \notin Ends
         /\ s.key \in {"keep_alive", "connect_timeout", "socket_timeout"}
<1>1. s.key \in Tokens /\ s.val \in Text /\ Spelt(s)
  BY SettingsAssumption
<1>2. s.key \in {"keep_alive", "connect_timeout", "socket_timeout"}
  BY <1>1 DEF Spelt
<1>3. s.key \notin Ends
  BY <1>2 DEF Ends
<1>4. /\ \A t \in DOMAIN Truth \cup DOMAIN Numbers : t \notin Ends
      /\ \A u \in DOMAIN Times : u \notin Ends
      /\ "-" \notin Ends
  <2>1. Ends \subseteq Separators /\ "-" \notin Ends
    BY DEF Ends, Separators
  <2>2. \A u \in DOMAIN Times : u \notin Ends
    BY DEF Ends, Times
  <2> QED
    BY <2>1, <2>2, TruthAssumption, NumbersAssumption
<1>5. Free(s.val, Ends)
  <2>1. ASSUME NEW t \in DOMAIN Truth PROVE Free(<<t>>, Ends)
    <3>1. t \notin Ends
      BY <1>4
    <3> QED
      BY <3>1, FreeTokens, Zenon
  <2>2. ASSUME NEW n \in DOMAIN Numbers, NEW u \in DOMAIN Times
        PROVE  Free(<<n, u>>, Ends) /\ Free(<<"-", n, u>>, Ends)
    <3>1. n \notin Ends /\ u \notin Ends /\ "-" \notin Ends
      BY <1>4
    <3> QED
      BY <3>1, FreeTokens, Zenon
  <2> QED
    BY <1>1, <2>1, <2>2, Zenon DEF Spelt
<1> QED
  BY <1>1, <1>2, <1>3, <1>5

\* A setting is one parameter, and is split into its key and its value.
LEMMA SettingTextIs ==
  ASSUME NEW s \in Settings
  PROVE  /\ SettingText(s) \in Text /\ SettingText(s) # <<>>
         /\ Free(SettingText(s), {"&"}) /\ Free(SettingText(s), {"?"})
         /\ Free(SettingText(s), {"/"})
         /\ SplitAt(SettingText(s), "=") = << <<s.key>>, s.val >>
<1>1. PICK k \in Tokens, v \in Text :
        k = s.key /\ v = s.val /\ Free(v, Ends) /\ k \notin Ends
  BY SettingFree
<1>2. /\ "=" \in Tokens /\ <<"=">> \in Text
      /\ "=" \in Ends /\ "&" \in Ends /\ "?" \in Ends /\ "/" \in Ends
      /\ "=" # "&" /\ "=" # "?" /\ "=" # "/"
  BY SeparatorTexts DEF Separators, Ends
<1>3. <<k>> \in Text /\ <<k, "=">> \in Text
  BY <1>2 DEF Text
<1>4. PICK t \in Text : t = <<k, "=">> \o v
  BY <1>3, ConcatText, Zenon
<1>5. SettingText(s) = t
  BY <1>1, <1>4 DEF SettingText
<1>6. t # <<>>
  <2>1. Len(<<k, "=">> \o v) = Len(<<k, "=">>) + Len(v)
    BY <1>3, ConcatText, Zenon
  <2>2. Len(<<k, "=">>) = 2 /\ Len(v) \in Nat /\ Len(<<>>) = 0
    BY LenProperties DEF Text
  <2> QED
    BY <1>4, <2>1, <2>2
<1>7. ASSUME NEW x \in Ends, x # "=" PROVE Free(t, {x})
  <2>1. Free(v, {x})
    BY <1>1, FreeFewer
  <2>2. Free(<<k, "=">>, {x})
    BY <1>1, <1>7, FreeTokens
  <2> QED
    BY <1>3, <1>4, <2>1, <2>2, FreeText, Zenon
<1>8. SplitAt(t, "=") = << <<k>>, v >>
  <2>1. <<k, "=">> = <<k>> \o <<"=">>
    OBVIOUS
  <2>2. Free(v, {"="}) /\ Free(<<k>>, {"="})
    <3>1. k \notin {"="} /\ {"="} \subseteq Ends
      BY <1>1, <1>2
    <3> QED
      BY <1>1, <3>1, FreeFewer, FreeTokens
  <2>3. SplitAt(<<k>>, "=") = << <<k>> >>
    BY <1>3, <2>2, SplitWhole, Zenon DEF Text
  <2>4. SplitAt(<<k>> \o <<"=">> \o v, "=") = Append(SplitAt(<<k>>, "="), v)
    BY <1>2, <1>3, <2>2, SplitAgain, Zenon DEF Text
  <2>5. Append(<< <<k>> >>, v) = << <<k>>, v >>
    BY AppendOne, Zenon
  <2> QED
    BY <1>4, <2>1, <2>3, <2>4, <2>5, Zenon
<1>9. Free(t, {"&"}) /\ Free(t, {"?"}) /\ Free(t, {"/"})
  BY <1>2, <1>7
<1> QED
  BY <1>1, <1>5, <1>6, <1>8, <1>9, Zenon

\* The option a setting sets, and to what.
Applied(o, s) ==
  CASE s.key = "keep_alive" -> [o EXCEPT !.keep_alive = s.value]
    [] s.key = "connect_timeout" -> [o EXCEPT !.connect_timeout = s.value]
    [] s.key = "socket_timeout" -> [o EXCEPT !.socket_timeout = s.value]

\* A number and a unit are read as the number times the unit.
LEMMA LeadingTimes ==
  ASSUME NEW s, NEW x, Leading(s) = {x}, NEW u \in DOMAIN Times, x.rest = <<u>>
  PROVE  Timeout(s) = {x.value * Times[u]}
<1> DEFINE U(n) == CASE n.rest = <<"ms">> -> 1 [] n.rest = <<"s">> -> 1000
                     [] n.rest = <<"m">> -> 60000
<1>1. u \in {"ms", "s", "m"}
  BY DEF Times
<1>2. <<"ms">> # <<"s">> /\ <<"ms">> # <<"m">> /\ <<"s">> # <<"m">>
  OBVIOUS
<1>3. U(x) = Times[u]
  <2>1. CASE u = "ms"
    BY <1>2, <2>1 DEF Times
  <2>2. CASE u = "s"
    BY <1>2, <2>2 DEF Times
  <2>3. CASE u = "m"
    BY <1>2, <2>3 DEF Times
  <2> QED
    BY <1>1, <2>1, <2>2, <2>3
<1>4. x.rest \in {<<"ms">>, <<"s">>, <<"m">>}
  BY <1>1
<1>5. Timeout(s) =
        {n.value * U(n) : n \in {m \in Leading(s) : m.rest \in {<<"ms">>, <<"s">>, <<"m">>}}}
  BY DEF Timeout
<1> HIDE DEF U
<1>6. {m \in Leading(s) : m.rest \in {<<"ms">>, <<"s">>, <<"m">>}} = {x}
  BY <1>4
<1> QED
  BY <1>3, <1>5, <1>6

\* set_option takes a setting for what it means.
LEMMA SettingSets ==
  ASSUME NEW s \in Settings, NEW o
  PROVE  SetOption(o, <<s.key>>, s.val) = {Applied(o, s)}
<1>1. Spelt(s)
  BY SettingsAssumption
<1>2. <<"keep_alive">> # <<"connect_timeout">> /\ <<"keep_alive">> # <<"socket_timeout">>
      /\ <<"connect_timeout">> # <<"socket_timeout">>
  OBVIOUS
<1>3. CASE s.key = "keep_alive"
  <2>1. PICK t \in DOMAIN Truth : s.val = <<t>> /\ s.value = Truth[t]
    BY <1>1, <1>3 DEF Spelt
  <2>2. {w \in DOMAIN Truth : <<t>> = <<w>>} = {t}
    OBVIOUS
  <2>3. Flag(s.val) = {s.value}
    BY <2>1, <2>2 DEF Flag
  <2>4. SetOption(o, <<s.key>>, s.val) = {[o EXCEPT !.keep_alive = b] : b \in Flag(s.val)}
    BY <1>3 DEF SetOption
  <2> QED
    BY <1>3, <2>3, <2>4 DEF Applied
<1>4. CASE s.key \in {"connect_timeout", "socket_timeout"}
  <2>1. PICK n \in DOMAIN Numbers, u \in DOMAIN Times :
          \/ s.val = <<n, u>> /\ s.value = Numbers[n] * Times[u]
          \/ s.val = <<"-", n, u>> /\ s.value = -Numbers[n] * Times[u]
    <3>1. s.key # "keep_alive"
      BY <1>4
    <3> QED
      BY <1>1, <3>1 DEF Spelt
  <2>2. Timeout(s.val) = {s.value}
    <3>1. CASE s.val = <<n, u>> /\ s.value = Numbers[n] * Times[u]
      <4>1. s.val # <<>> /\ s.val[1] = n /\ Tail(s.val) = <<u>>
        BY <3>1
      <4>2. Leading(s.val) = {[value |-> Numbers[n], rest |-> Tail(s.val)]}
        BY <4>1 DEF Leading
      <4> DEFINE x == [value |-> Numbers[n], rest |-> Tail(s.val)]
      <4>3. x.rest = <<u>> /\ x.value = Numbers[n]
        BY <4>1
      <4>4. Leading(s.val) = {x}
        BY <4>2
      <4> HIDE DEF x
      <4>5. Timeout(s.val) = {x.value * Times[u]}
        BY <4>3, <4>4, LeadingTimes
      <4> QED
        BY <3>1, <4>3, <4>5
    <3>2. CASE s.val = <<"-", n, u>> /\ s.value = -Numbers[n] * Times[u]
      <4>1. /\ s.val # <<>> /\ s.val[1] = "-" /\ s.val[2] = n /\ Len(s.val) > 1
            /\ Len(s.val) = 3 /\ s.val[3] = u
        BY <3>2
      <4>2. After(s.val, 2) = <<u>>
        BY <3>2, ThirdOnly, Zenon
      <4>3. "-" \notin DOMAIN Numbers
        BY NumbersAssumption DEF Separators
      <4>4. Leading(s.val) = {[value |-> -Numbers[n], rest |-> After(s.val, 2)]}
        BY <4>1, <4>3 DEF Leading
      <4> DEFINE x == [value |-> -Numbers[n], rest |-> After(s.val, 2)]
      <4>5. x.rest = <<u>> /\ x.value = -Numbers[n]
        BY <4>2
      <4>6. Leading(s.val) = {x}
        BY <4>4
      <4> HIDE DEF x
      <4>7. Timeout(s.val) = {x.value * Times[u]}
        BY <4>5, <4>6, LeadingTimes
      <4>8. (-Numbers[n]) * Times[u] = -Numbers[n] * Times[u]
        <5>1. Numbers[n] \in Int
          BY NumbersAssumption
        <5>2. Times[u] \in {1, 1000, 60000}
          BY DEF Times
        <5> QED
          BY <5>1, <5>2
      <4> QED
        BY <3>2, <4>5, <4>7, <4>8
    <3> QED
      BY <2>1, <3>1, <3>2
  <2>3. CASE s.key = "connect_timeout"
    <3>1. SetOption(o, <<s.key>>, s.val) = {[o EXCEPT !.connect_timeout = t] : t \in Timeout(s.val)}
      BY <1>2, <2>3 DEF SetOption
    <3> QED
      BY <2>2, <2>3, <3>1 DEF Applied
  <2>4. CASE s.key = "socket_timeout"
    <3>1. SetOption(o, <<s.key>>, s.val) = {[o EXCEPT !.socket_timeout = t] : t \in Timeout(s.val)}
      BY <1>2, <2>4 DEF SetOption
    <3> QED
      BY <2>2, <2>4, <3>1 DEF Applied
  <2> QED
    BY <1>4, <2>3, <2>4
<1> QED
  BY <1>3, <1>4, SettingFree

\* ... and so does parse_parameters.
LEMMA SettingStep ==
  ASSUME NEW s \in Settings, NEW o
  PROVE  SetStep({o}, SettingText(s)) = {Applied(o, s)}
<1>1. PICK pair : pair = SplitAt(SettingText(s), "=")
  OBVIOUS
<1>2. pair = << <<s.key>>, s.val >>
  BY <1>1, SettingTextIs, Zenon
<1>3. Len(pair) = 2 /\ pair[1] = <<s.key>> /\ pair[2] = s.val
  BY <1>2
<1>4. SetStep({o}, SettingText(s)) = SetOption(o, <<s.key>>, s.val)
  BY <1>1, <1>3 DEF SetStep
<1> QED
  BY <1>4, SettingSets

\* What the user writes: one more setting, and the first ones.
JoinOne(d, i, s) == d \o (IF i = 1 THEN <<>> ELSE <<"&">>) \o SettingText(s)

Joins(f, n, ss) ==
  f = [i \in 0..n |-> IF i = 0 THEN <<>> ELSE JoinOne(f[i - 1], i, ss[i])]

JoinsOf(ss) == CHOOSE f : Joins(f, Len(ss), ss)

\* A text with a setting after it is a text.
LEMMA JoinOneType ==
  ASSUME NEW d \in Text, NEW i, NEW s \in Settings
  PROVE  JoinOne(d, i, s) \in Text
<1>1. (IF i = 1 THEN <<>> ELSE <<"&">>) \in Text
  BY SeparatorTexts, Zenon
<1>2. SettingText(s) \in Text
  BY SettingTextIs, Zenon
<1> QED
  BY <1>1, <1>2, ConcatText, Zenon DEF JoinOne

\* ... which are what the equation of SettingsText says.
LEMMA JoinsDef ==
  ASSUME NEW ss \in Seq(Settings)
  PROVE  /\ SettingsText(ss) = JoinsOf(ss)[Len(ss)]
         /\ JoinsOf(ss)[0] = <<>>
         /\ \A i \in 1..Len(ss) : JoinsOf(ss)[i] = JoinOne(JoinsOf(ss)[i - 1], i, ss[i])
         /\ \A i \in 0..Len(ss) : JoinsOf(ss)[i] \in Text
<1>1. PICK n \in Nat : n = Len(ss)
  BY LenProperties
<1>2. PICK e \in Text : e = <<>>
  BY SeparatorTexts, Zenon
<1>3. ASSUME NEW i \in 1..n, NEW d \in Text PROVE JoinOne(d, i, ss[i]) \in Text
  <2>1. ss[i] \in Settings
    BY <1>1, ElementOfSeq
  <2> QED
    BY <2>1, JoinOneType
<1>4. PICK f \in [0..n -> Text] :
        f[0] = e /\ \A i \in 1..n : f[i] = JoinOne(f[i - 1], i, ss[i])
  <2> DEFINE step == [i \in 1..n |-> [d \in Text |-> JoinOne(d, i, ss[i])]]
  <2>1. step \in [1..n -> [Text -> Text]]
    BY <1>3
  <2> HIDE DEF step
  <2>2. PICK f \in [0..n -> Text] : f[0] = e /\ \A i \in 1..n : f[i] = step[i][f[i - 1]]
    BY <2>1, Recursion
  <2>3. ASSUME NEW i \in 1..n PROVE f[i] = JoinOne(f[i - 1], i, ss[i])
    <3>1. i - 1 \in 0..n
      OBVIOUS
    <3>2. f[i - 1] \in Text
      BY <3>1
    <3>3. step[i] = [d \in Text |-> JoinOne(d, i, ss[i])]
      BY DEF step
    <3> QED
      BY <2>2, <3>2, <3>3
  <2> QED
    BY <2>2, <2>3
<1>5. f = [i \in 0..n |-> IF i = 0 THEN e ELSE JoinOne(f[i - 1], i, ss[i])]
  <2> DEFINE g == [i \in 0..n |-> IF i = 0 THEN e ELSE JoinOne(f[i - 1], i, ss[i])]
  <2>1. ASSUME NEW i \in 0..n PROVE f[i] = g[i]
    <3>1. i = 0 \/ i \in 1..n
      OBVIOUS
    <3> QED
      BY <1>4, <3>1
  <2> QED
    BY <2>1
<1>6. PICK g : g = JoinsOf(ss)
  OBVIOUS
<1>7. g = [i \in 0..n |-> IF i = 0 THEN e ELSE JoinOne(g[i - 1], i, ss[i])]
  <2>1. Joins(f, n, ss)
    BY <1>2, <1>5, Zenon DEF Joins
  <2>2. Joins(g, n, ss)
    BY <1>1, <1>6, <2>1 DEF JoinsOf
  <2> QED
    BY <1>2, <2>2, Zenon DEF Joins
<1>8. g[0] = e
  <2>1. 0 \in 0..n
    OBVIOUS
  <2> QED
    BY <1>7, <2>1
<1>9. ASSUME NEW i \in 1..n PROVE g[i] = JoinOne(g[i - 1], i, ss[i])
  <2>1. i \in 0..n /\ i # 0
    OBVIOUS
  <2> QED
    BY <1>7, <2>1
<1>10. \A i \in 0..n : g[i] \in Text
  <2> DEFINE S == {i \in 0..n : g[i] \in Text}
  <2>1. 0 \in S
    <3>1. 0 \in 0..n
      OBVIOUS
    <3> QED
      BY <1>8, <3>1
  <2>2. ASSUME NEW i \in 1..n, i - 1 \in S PROVE i \in S
    <3>1. g[i - 1] \in Text /\ i \in 0..n
      BY <2>2
    <3>2. g[i] \in Text
      BY <1>3, <1>9, <3>1
    <3> QED
      BY <3>1, <3>2
  <2> HIDE DEF S
  <2>3. \A i \in 0..n : i \in S
    BY <2>1, <2>2, BoundedInduction
  <2> QED
    BY <2>3 DEF S
<1>11. SettingsText(ss) = JoinsOf(ss)[Len(ss)]
  BY DEF SettingsText, JoinsOf, Joins, JoinOne
<1> QED
  BY <1>1, <1>2, <1>6, <1>8, <1>9, <1>10, <1>11, Zenon

\* No settings are written as nothing.
LEMMA SettingsTextEmpty == SettingsText(<<>>) = <<>>
<1>1. PICK ss \in Seq(Settings) : ss = <<>>
  <2>1. <<>> \in Seq(Settings)
    OBVIOUS
  <2> QED
    BY <2>1, Zenon
<1>2. Len(ss) = 0
  BY <1>1
<1>3. SettingsText(ss) = JoinsOf(ss)[Len(ss)] /\ JoinsOf(ss)[0] = <<>>
  BY JoinsDef, Zenon
<1> QED
  BY <1>1, <1>2, <1>3, Zenon

\* A last setting is written after the others.
LEMMA SettingsTextAppend ==
  ASSUME NEW ss \in Seq(Settings), NEW s \in Settings
  PROVE  /\ SettingsText(ss) \in Text
         /\ SettingsText(Append(ss, s)) =
              SettingsText(ss) \o (IF ss = <<>> THEN <<>> ELSE <<"&">>) \o SettingText(s)
<1>1. PICK n \in Nat : n = Len(ss)
  BY LenProperties
<1>2. PICK r \in Seq(Settings) : r = Append(ss, s)
  BY AppendProperties
<1>3. Len(r) = n + 1 /\ r[n + 1] = s /\ \A i \in 1..n : r[i] = ss[i]
  BY <1>1, <1>2, AppendProperties
<1>4. PICK f : f = JoinsOf(ss)
  OBVIOUS
<1>5. PICK g : g = JoinsOf(r)
  OBVIOUS
<1>0. PICK e : e = <<>>
  OBVIOUS
<1>6. /\ SettingsText(ss) = f[n] /\ f[0] = e
      /\ \A i \in 1..n : f[i] = JoinOne(f[i - 1], i, ss[i])
      /\ \A i \in 0..n : f[i] \in Text
  BY <1>0, <1>1, <1>4, JoinsDef, Zenon
<1>7. /\ SettingsText(r) = g[n + 1] /\ g[0] = e
      /\ \A i \in 1..n + 1 : g[i] = JoinOne(g[i - 1], i, r[i])
  BY <1>0, <1>3, <1>5, JoinsDef, Zenon
<1>8. \A i \in 0..n : f[i] = g[i]
  <2> DEFINE S == {i \in 0..n : f[i] = g[i]}
  <2>1. 0 \in S
    <3>1. 0 \in 0..n
      OBVIOUS
    <3> QED
      BY <1>6, <1>7, <3>1
  <2>2. ASSUME NEW i \in 1..n, i - 1 \in S PROVE i \in S
    <3>1. f[i - 1] = g[i - 1] /\ i \in 0..n /\ i \in 1..n + 1
      BY <2>2
    <3>2. f[i] = g[i]
      BY <1>3, <1>6, <1>7, <3>1
    <3> QED
      BY <3>1, <3>2
  <2> HIDE DEF S
  <2>3. \A i \in 0..n : i \in S
    BY <2>1, <2>2, BoundedInduction
  <2> QED
    BY <2>3 DEF S
<1>9. g[n + 1] = JoinOne(f[n], n + 1, s)
  <2>1. n + 1 \in 1..n + 1 /\ (n + 1) - 1 = n /\ n \in 0..n
    OBVIOUS
  <2>2. g[n + 1] = JoinOne(g[n], n + 1, r[n + 1])
    BY <1>7, <2>1
  <2> QED
    BY <1>3, <1>8, <2>1, <2>2
<1>10. n + 1 = 1 <=> ss = <<>>
  BY <1>1, EmptySeq
<1>11. f[n] \in Text
  <2>1. n \in 0..n
    OBVIOUS
  <2> QED
    BY <1>6, <2>1
<1> QED
  BY <1>2, <1>6, <1>7, <1>9, <1>10, <1>11, Zenon DEF JoinOne

\* Settings are written one after the other, and read so.
Texts(ss) == [i \in 1..Len(ss) |-> SettingText(ss[i])]

\* A last setting is the last parameter.
LEMMA TextsAre ==
  /\ Texts(<<>>) = <<>>
  /\ \A ss \in Seq(Settings), s \in Settings :
       /\ Texts(ss) \in Seq(Text)
       /\ Texts(Append(ss, s)) = Append(Texts(ss), SettingText(s))
<1>1. Texts(<<>>) = <<>>
  <2>0. <<>> \in Seq(Settings) /\ Len(<<>>) = 0
    OBVIOUS
  <2>1. PICK e \in Seq(Settings) : e = <<>> /\ Len(e) = 0
    BY <2>0, Zenon
  <2>2. Texts(e) \in Seq(Text) /\ Len(Texts(e)) = 0
    BY <2>1 DEF Texts
  <2>3. Texts(e) = <<>>
    BY <2>2, EmptySeq
  <2> QED
    BY <2>1, <2>3, Zenon
<1>2. ASSUME NEW ss \in Seq(Settings), NEW s \in Settings
      PROVE  /\ Texts(ss) \in Seq(Text)
             /\ Texts(Append(ss, s)) = Append(Texts(ss), SettingText(s))
  <2>1. PICK n \in Nat : n = Len(ss)
    BY LenProperties
  <2>2. ASSUME NEW t \in Seq(Settings)
        PROVE  /\ Texts(t) \in Seq(Text) /\ Len(Texts(t)) = Len(t)
               /\ \A i \in 1..Len(t) : Texts(t)[i] = SettingText(t[i])
    <3>1. \A i \in 1..Len(t) : t[i] \in Settings
      BY ElementOfSeq
    <3>2. \A i \in 1..Len(t) : SettingText(t[i]) \in Text
      BY <3>1, SettingTextIs, Zenon
    <3>3. Len(t) \in Nat
      BY LenProperties
    <3> QED
      BY <3>2, <3>3 DEF Texts
  <2>3. PICK r \in Seq(Settings) : r = Append(ss, s)
    BY AppendProperties
  <2>4. Len(r) = n + 1 /\ r[n + 1] = s /\ \A i \in 1..n : r[i] = ss[i]
    BY <2>1, <2>3, AppendProperties
  <2>5. PICK a \in Seq(Text) : a = Texts(ss)
    BY <2>2
  <2>6. PICK b \in Seq(Text) : b = Texts(r)
    BY <2>2
  <2>7. PICK x \in Text : x = SettingText(s)
    BY SettingTextIs, Zenon
  <2>8. Len(a) = n /\ \A i \in 1..n : a[i] = SettingText(ss[i])
    BY <2>1, <2>2, <2>5
  <2>9. Len(b) = n + 1 /\ \A i \in 1..n + 1 : b[i] = SettingText(r[i])
    BY <2>2, <2>4, <2>6
  <2>10. PICK c \in Seq(Text) : c = Append(a, x)
    BY AppendProperties
  <2>11. Len(c) = n + 1 /\ c[n + 1] = x /\ \A i \in 1..n : c[i] = a[i]
    BY <2>8, <2>10, AppendProperties
  <2>12. ASSUME NEW i \in 1..n + 1 PROVE b[i] = c[i]
    <3>1. CASE i \in 1..n
      BY <2>4, <2>8, <2>9, <2>11, <3>1
    <3>2. CASE i = n + 1
      BY <2>4, <2>7, <2>9, <2>11, <3>2
    <3> QED
      BY <3>1, <3>2
  <2>13. b = c
    BY <2>9, <2>11, <2>12, SeqEqual
  <2> QED
    BY <2>2, <2>3, <2>5, <2>6, <2>7, <2>10, <2>13, Zenon
<1> QED
  BY <1>1, <1>2

\* The text of settings ends nothing, and splits into them.
LEMMA SettingsTextIs ==
  ASSUME NEW ss \in Seq(Settings)
  PROVE  /\ SettingsText(ss) \in Text
         /\ Free(SettingsText(ss), {"?"}) /\ Free(SettingsText(ss), {"/"})
         /\ ss # <<>> => /\ SettingsText(ss) # <<>>
                         /\ SplitAt(SettingsText(ss), "&") = Texts(ss)
<1> DEFINE P(t, r) == /\ t \in Text /\ Free(t, {"?"}) /\ Free(t, {"/"})
                      /\ r # <<>> => t # <<>> /\ SplitAt(t, "&") = Texts(r)
           S == {r \in Seq(Settings) : P(SettingsText(r), r)}
<1>1. <<>> \in S
  <2>1. <<>> \in Seq(Settings)
    OBVIOUS
  <2>2. <<>> \in Text /\ Free(<<>>, {"?"}) /\ Free(<<>>, {"/"})
    BY SeparatorTexts, FreeTokens, Zenon
  <2>3. P(SettingsText(<<>>), <<>>)
    BY <2>2, SettingsTextEmpty, Zenon
  <2> HIDE DEF P
  <2> QED
    BY <2>1, <2>3
<1>2. ASSUME NEW r \in Seq(Settings), NEW s \in Settings, r \in S
      PROVE  Append(r, s) \in S
  <2>0. P(SettingsText(r), r)
    <3> HIDE DEF P
    <3> QED
      BY <1>2
  <2>1. Append(r, s) \in Seq(Settings) /\ Append(r, s) # <<>>
    BY AppendProperties
  <2>2. PICK x \in Text : x = SettingText(s)
    BY SettingTextIs, Zenon
  <2>3. /\ x # <<>> /\ Free(x, {"&"}) /\ Free(x, {"?"}) /\ Free(x, {"/"})
    BY <2>2, SettingTextIs, Zenon
  <2>4. PICK d \in Text : d = SettingsText(r)
    BY SettingsTextAppend, Zenon
  <2>5. Free(d, {"?"}) /\ Free(d, {"/"}) /\ (r # <<>> => SplitAt(d, "&") = Texts(r))
    BY <2>0, <2>4, Zenon
  <2>6. SettingsText(Append(r, s)) = d \o (IF r = <<>> THEN <<>> ELSE <<"&">>) \o x
    BY <2>2, <2>4, SettingsTextAppend, Zenon
  <2>7. Texts(Append(r, s)) = Append(Texts(r), x)
    BY <2>2, TextsAre, Zenon
  <2>8. /\ <<"&">> \in Text /\ "&" \in Tokens
        /\ Free(<<"&">>, {"?"}) /\ Free(<<"&">>, {"/"})
    <3>1. "&" \notin {"?"} /\ "&" \notin {"/"}
      OBVIOUS
    <3> QED
      BY <3>1, SeparatorTexts, FreeTokens, Zenon DEF Separators
  <2>9. ASSUME NEW a \in Text, NEW b \in Text, b # <<>> PROVE a \o b # <<>>
    <3>1. Len(a \o b) = Len(a) + Len(b) /\ Len(a) \in Nat /\ Len(b) \in Nat /\ Len(b) # 0
      BY <2>9, ConcatText, EmptySeq DEF Text
    <3> QED
      BY <3>1
  <2>10. CASE r = <<>>
    <3>1. SettingsText(Append(r, s)) = d \o <<>> \o x /\ d = <<>>
      BY <2>4, <2>6, <2>10, SettingsTextEmpty, Zenon
    <3>2. <<>> \o <<>> = <<>> /\ <<>> \o x = x
      <4>1. <<>> \in Text
        BY SeparatorTexts, Zenon
      <4> QED
        BY <4>1, ConcatEmptySeq DEF Text
    <3>3. SettingsText(Append(r, s)) = x
      BY <3>1, <3>2, Zenon
    <3>4. SplitAt(x, "&") = <<x>>
      BY <2>3, SplitWhole DEF Text
    <3>5. Append(Texts(r), x) = <<x>>
      <4>1. Texts(r) = <<>>
        BY <2>10, TextsAre, Zenon
      <4>2. Append(<<>>, x) = <<x>>
        OBVIOUS
      <4> QED
        BY <4>1, <4>2, Zenon
    <3>6. P(SettingsText(Append(r, s)), Append(r, s))
      BY <2>3, <2>7, <3>3, <3>4, <3>5, Zenon
    <3> HIDE DEF P
    <3> QED
      BY <2>1, <3>6
  <2>11. CASE r # <<>>
    <3>1. SettingsText(Append(r, s)) = d \o <<"&">> \o x
      BY <2>6, <2>11, Zenon
    <3>2. d \o <<"&">> \in Text
      BY <2>8, ConcatText, Zenon
    <3>3. d \o <<"&">> \o x \in Text
      BY <3>2, ConcatText, Zenon
    <3>4. Free(d \o <<"&">> \o x, {"?"}) /\ Free(d \o <<"&">> \o x, {"/"})
      BY <2>3, <2>5, <2>8, <3>2, FreeText, Zenon
    <3>5. SplitAt(d \o <<"&">> \o x, "&") = Append(SplitAt(d, "&"), x)
      BY <2>3, <2>8, SplitAgain, Zenon DEF Text
    <3>6. d \o <<"&">> \o x # <<>>
      BY <2>3, <2>9, <3>2, Zenon
    <3>7. P(SettingsText(Append(r, s)), Append(r, s))
      BY <2>5, <2>7, <2>11, <3>1, <3>3, <3>4, <3>5, <3>6, Zenon
    <3> HIDE DEF P
    <3> QED
      BY <2>1, <3>7
  <2> QED
    BY <2>10, <2>11
<1> HIDE DEF S
<1>3. ss \in S
  BY <1>1, <1>2, SeqInduction
<1> QED
  BY <1>3 DEF S

\* The last setting of an option counts.
Counts(ss, s, key, default) ==
  Value(Append(ss, s), key, default) =
    IF s.key = key THEN s.value ELSE Value(ss, key, default)

\* ... whichever of them it is.
LEMMA ValueOf ==
  ASSUME NEW key, NEW default
  PROVE  /\ Value(<<>>, key, default) = default
         /\ \A ss \in Seq(Settings), s \in Settings : Counts(ss, s, key, default)
<1>1. Value(<<>>, key, default) = default
  <2>1. PICK e : e = <<>>
    OBVIOUS
  <2>2. {i \in 1..Len(e) : e[i].key = key} = {}
    BY <2>1
  <2>3. Value(e, key, default) = default
    BY <2>2 DEF Value
  <2> QED
    BY <2>1, <2>3, Zenon
<1>2. ASSUME NEW ss \in Seq(Settings), NEW s \in Settings
      PROVE  Value(Append(ss, s), key, default) =
               IF s.key = key THEN s.value ELSE Value(ss, key, default)
  <2>1. PICK n \in Nat : n = Len(ss)
    BY LenProperties
  <2>2. PICK r \in Seq(Settings) : r = Append(ss, s)
    BY AppendProperties
  <2>3. Len(r) = n + 1 /\ r[n + 1] = s /\ \A i \in 1..n : r[i] = ss[i]
    BY <2>1, <2>2, AppendProperties
  <2>4. PICK A : A = {i \in 1..Len(ss) : ss[i].key = key}
    OBVIOUS
  <2>5. PICK B : B = {i \in 1..Len(r) : r[i].key = key}
    OBVIOUS
  <2>6. Value(ss, key, default) = IF A = {} THEN default ELSE ss[Last(A)].value
    BY <2>4, Zenon DEF Value
  <2>7. Value(r, key, default) = IF B = {} THEN default ELSE r[Last(B)].value
    BY <2>5, Zenon DEF Value
  <2>8. CASE s.key = key
    <3>1. n + 1 \in B /\ B \subseteq 1..(n + 1) /\ \A j \in B : n + 1 >= j
      BY <2>3, <2>5, <2>8
    <3>2. Last(B) = n + 1
      <4>1. n + 1 \in Nat
        OBVIOUS
      <4> QED
        BY <3>1, <4>1, LastUnique
    <3>3. B # {}
      BY <3>1
    <3> QED
      BY <2>2, <2>3, <2>7, <2>8, <3>2, <3>3
  <2>9. CASE s.key # key
    <3>1. A = B
      <4>1. ASSUME NEW i \in B PROVE i \in A
        <5>1. i \in 1..(n + 1) /\ r[i].key = key
          BY <2>3, <2>5
        <5>2. i # n + 1
          BY <2>3, <2>9, <5>1
        <5>3. i \in 1..n
          BY <5>1, <5>2
        <5> QED
          BY <2>1, <2>3, <2>4, <5>1, <5>3
      <4>2. ASSUME NEW i \in A PROVE i \in B
        <5>1. i \in 1..n /\ ss[i].key = key
          BY <2>1, <2>4
        <5>2. i \in 1..(n + 1) /\ r[i].key = key
          BY <2>3, <5>1
        <5> QED
          BY <2>3, <2>5, <5>2
      <4> QED
        BY <4>1, <4>2
    <3>2. CASE A = {}
      BY <2>2, <2>6, <2>7, <2>9, <3>1, <3>2
    <3>3. CASE A # {}
      <4>1. A \subseteq 1..n
        BY <2>1, <2>4
      <4>2. PICK m : m = Last(A)
        OBVIOUS
      <4>3. m \in A
        BY <3>3, <4>1, <4>2, LastIs
      <4>4. r[m] = ss[m]
        BY <2>3, <4>1, <4>3
      <4> QED
        BY <2>2, <2>6, <2>7, <2>9, <3>1, <3>3, <4>2, <4>4
    <3> QED
      BY <3>2, <3>3
  <2> QED
    BY <2>8, <2>9
<1> QED
  BY <1>1, <1>2 DEF Counts

\* What opts becomes by its settings.
Result(opts, ss) ==
  [opts EXCEPT !.keep_alive = Value(ss, "keep_alive", opts.keep_alive),
               !.connect_timeout = Value(ss, "connect_timeout", opts.connect_timeout),
               !.socket_timeout = Value(ss, "socket_timeout", opts.socket_timeout)]

\* A last setting is applied to what the others made.
LEMMA ResultOf ==
  ASSUME NEW opts \in Given
  PROVE  /\ Result(opts, <<>>) = opts
         /\ \A ss \in Seq(Settings), s \in Settings :
              Result(opts, Append(ss, s)) = Applied(Result(opts, ss), s)
<1>1. Result(opts, <<>>) = opts
  <2>1. /\ Value(<<>>, "keep_alive", opts.keep_alive) = opts.keep_alive
        /\ Value(<<>>, "connect_timeout", opts.connect_timeout) = opts.connect_timeout
        /\ Value(<<>>, "socket_timeout", opts.socket_timeout) = opts.socket_timeout
    BY ValueOf, Zenon
  <2> QED
    BY <2>1 DEF Result, Given
<1>2. ASSUME NEW ss \in Seq(Settings), NEW s \in Settings
      PROVE  Result(opts, Append(ss, s)) = Applied(Result(opts, ss), s)
  <2> DEFINE V(key, default) == Value(ss, key, default)
             W(key, default) == Value(Append(ss, s), key, default)
  <2>1. \A key, default : W(key, default) = IF s.key = key THEN s.value ELSE V(key, default)
    <3>1. ASSUME NEW key, NEW default
          PROVE  W(key, default) = IF s.key = key THEN s.value ELSE V(key, default)
      <4>1. Counts(ss, s, key, default)
        BY ValueOf, Zenon
      <4> QED
        BY <4>1, Zenon DEF Counts
    <3> HIDE DEF V, W
    <3> QED
      BY <3>1
  <2>2. Result(opts, ss) =
          [opts EXCEPT !.keep_alive = V("keep_alive", opts.keep_alive),
                       !.connect_timeout = V("connect_timeout", opts.connect_timeout),
                       !.socket_timeout = V("socket_timeout", opts.socket_timeout)]
    BY DEF Result
  <2>3. Result(opts, Append(ss, s)) =
          [opts EXCEPT !.keep_alive = W("keep_alive", opts.keep_alive),
                       !.connect_timeout = W("connect_timeout", opts.connect_timeout),
                       !.socket_timeout = W("socket_timeout", opts.socket_timeout)]
    BY DEF Result
  <2> HIDE DEF V, W
  <2>4. s.key \in {"keep_alive", "connect_timeout", "socket_timeout"}
    BY SettingFree
  <2>5. CASE s.key = "keep_alive"
    BY <2>1, <2>2, <2>3, <2>5 DEF Applied, Given
  <2>6. CASE s.key = "connect_timeout"
    BY <2>1, <2>2, <2>3, <2>6 DEF Applied, Given
  <2>7. CASE s.key = "socket_timeout"
    BY <2>1, <2>2, <2>3, <2>7 DEF Applied, Given
  <2> QED
    BY <2>4, <2>5, <2>6, <2>7
<1> QED
  BY <1>1, <1>2

\* Settings that were written are read back.
LEMMA ReadSettings ==
  ASSUME NEW opts \in Given, NEW ss \in Seq(Settings)
  PROVE  ParseParameters(opts, SettingsText(ss)) = {Result(opts, ss)}
<1> DEFINE S == {r \in Seq(Settings) : SetAll(opts, Texts(r)) = {Result(opts, r)}}
<1>1. <<>> \in S
  <2>1. <<>> \in Seq(Settings)
    OBVIOUS
  <2>2. SetAll(opts, Texts(<<>>)) = {Result(opts, <<>>)}
    BY TextsAre, SetAllEmpty, ResultOf, Zenon
  <2> QED
    BY <2>1, <2>2
<1>2. ASSUME NEW r \in Seq(Settings), NEW s \in Settings, r \in S
      PROVE  Append(r, s) \in S
  <2>1. Append(r, s) \in Seq(Settings)
    BY AppendProperties
  <2>2. Texts(Append(r, s)) = Append(Texts(r), SettingText(s)) /\ Texts(r) \in Seq(Text)
        /\ SettingText(s) \in Text
    BY TextsAre, SettingTextIs, Zenon
  <2>3. SetAll(opts, Texts(Append(r, s))) = SetStep(SetAll(opts, Texts(r)), SettingText(s))
    BY <2>2, SetAllAppend, Zenon
  <2>4. SetAll(opts, Texts(r)) = {Result(opts, r)}
    BY <1>2
  <2>5. SetAll(opts, Texts(Append(r, s))) = {Applied(Result(opts, r), s)}
    BY <2>3, <2>4, SettingStep, Zenon
  <2>6. SetAll(opts, Texts(Append(r, s))) = {Result(opts, Append(r, s))}
    BY <2>5, ResultOf, Zenon
  <2> QED
    BY <2>1, <2>6
<1> HIDE DEF S
<1>3. ss \in S
  BY <1>1, <1>2, SeqInduction
<1>4. SetAll(opts, Texts(ss)) = {Result(opts, ss)}
  BY <1>3 DEF S
<1>5. CASE ss = <<>>
  BY <1>5, SettingsTextEmpty, ParseParametersIs, ResultOf, Zenon
<1>6. CASE ss # <<>>
  BY <1>4, <1>6, SettingsTextIs, ParseParametersIs, Zenon
<1> QED
  BY <1>5, <1>6

-----------------------------------------------------------------------------
(* What a user writes is read as it was meant.                             *)

\* Where find and rfind cut a text that is put together from a and b.
CutFirst(a, what, b) ==
  LET s == a \o what \o b
      i == First(Occurs(s, what))
  IN  /\ s \in Text /\ Occurs(s, what) # {} /\ i = Len(a) + 1
      /\ Before(s, i) = a /\ After(s, i + Len(what) - 1) = b

\* find cuts a text after a part free of the separator's first token.
LEMMA FirstCutText ==
  ASSUME NEW a \in Text, NEW what \in Text, what # <<>>, NEW b \in Text, Free(a, {what[1]})
  PROVE  CutFirst(a, what, b)
BY FirstCut DEF Text, CutFirst

CutToken(a, x, b) ==
  LET s == a \o <<x>> \o b
      i == First(Occurs(s, <<x>>))
  IN  Occurs(s, <<x>>) # {} /\ Before(s, i) = a /\ After(s, i) = b

\* ... for a separator of one token.
LEMMA FirstCutToken ==
  ASSUME NEW a \in Text, NEW x \in Tokens, NEW b \in Text, Free(a, {x})
  PROVE  CutToken(a, x, b)
<1>1. <<x>> \in Text /\ <<x>> # <<>> /\ Len(<<x>>) = 1 /\ <<x>>[1] = x
  BY OneToken
<1>2. PICK s : s = a \o <<x>> \o b
  OBVIOUS
<1>3. PICK f : f = First(Occurs(s, <<x>>))
  OBVIOUS
<1>4. CutFirst(a, <<x>>, b)
  BY <1>1, FirstCutText, Zenon
<1>5. /\ s \in Text /\ Occurs(s, <<x>>) # {} /\ f = Len(a) + 1
      /\ Before(s, f) = a /\ After(s, f + Len(<<x>>) - 1) = b
  BY <1>2, <1>3, <1>4, Zenon DEF CutFirst
<1>6. f + Len(<<x>>) - 1 = f
  <2>1. Len(a) \in Nat
    BY LenProperties DEF Text
  <2> QED
    BY <1>1, <1>5, <2>1
<1> QED
  BY <1>2, <1>3, <1>5, <1>6, Zenon DEF CutToken

CutLast(a, x, b) ==
  LET s == a \o <<x>> \o b
      i == Last(Occurs(s, <<x>>))
  IN  Occurs(s, <<x>>) # {} /\ Before(s, i) = a /\ After(s, i) = b

\* rfind cuts a text before a part free of the separator.
LEMMA LastCutToken ==
  ASSUME NEW a \in Text, NEW x \in Tokens, NEW b \in Text, Free(b, {x})
  PROVE  CutLast(a, x, b)
BY LastCut DEF Text, CutLast

\* What is not there is not found.
LEMMA NotThereText ==
  ASSUME NEW s \in Text, NEW x
  PROVE  Free(s, {x}) <=> Occurs(s, <<x>>) = {}
BY NotThere DEF Text

\* After the last one there is none.
LEMMA AfterLast ==
  ASSUME NEW s \in Text, NEW x \in Tokens, Occurs(s, <<x>>) # {}
  PROVE  Free(After(s, Last(Occurs(s, <<x>>))), {x})
<1>1. PICK S : S = Occurs(s, <<x>>)
  OBVIOUS
<1>2. PICK n \in Nat : n = Len(s)
  BY LenProperties DEF Text
<1>3. S = {i \in 1..n : s[i] = x}
  BY <1>1, <1>2, OccursOne DEF Text
<1>4. PICK m : m = Last(S)
  OBVIOUS
<1>5. m \in S /\ \A j \in S : m >= j
  BY <1>1, <1>3, <1>4, LastIs
<1>6. PICK t : t = After(s, m)
  OBVIOUS
<1>7. \A j \in 1..Len(t) : t[j] = s[m + j] /\ m + j \in 1..n /\ m + j > m
  <2>1. \A j \in (m + 1)..n : s[j] \in Tokens
    BY <1>2, <1>3, <1>5 DEF Text
  <2>2. /\ Len(SubSeq(s, m + 1, n)) = IF m + 1 <= n THEN n - (m + 1) + 1 ELSE 0
        /\ \A j \in 1..(n - (m + 1) + 1) : SubSeq(s, m + 1, n)[j] = s[m + 1 + j - 1]
    BY <1>2, <1>3, <1>5, <2>1, SubSeqProperties
  <2>3. t = SubSeq(s, m + 1, n) /\ m \in 1..n
    BY <1>2, <1>3, <1>5, <1>6 DEF After
  <2>4. ASSUME NEW j \in 1..Len(t) PROVE t[j] = s[m + j] /\ m + j \in 1..n /\ m + j > m
    <3>1. j \in 1..(n - (m + 1) + 1) /\ m + 1 + j - 1 = m + j /\ m + j \in 1..n /\ m + j > m
      BY <2>2, <2>3
    <3> QED
      BY <2>2, <2>3, <3>1
  <2> QED
    BY <2>4
<1>8. \A j \in 1..Len(t) : t[j] # x
  <2>1. ASSUME NEW j \in 1..Len(t), t[j] = x PROVE FALSE
    <3>1. m + j \in S
      BY <1>3, <1>7, <2>1
    <3>2. m >= m + j /\ m + j > m /\ m \in Int /\ m + j \in Int
      BY <1>3, <1>5, <1>7, <3>1
    <3> QED
      BY <3>2
  <2> QED
    BY <2>1
<1> QED
  BY <1>1, <1>4, <1>6, <1>8 DEF Free

\* A number is at the front of a text, whatever follows a question mark.
LEMMA NumberInFront ==
  ASSUME NEW a \in Text, NEW p \in Text, p = <<>> \/ p[1] = "?"
  PROVE  IsDatabase(a \o p) <=> IsDatabase(a)
<1>1. PICK n \in Nat, m \in Nat : n = Len(a) /\ m = Len(p)
  BY LenProperties DEF Text
<1>2. PICK s \in Text : s = a \o p
  BY ConcatText
<1>3. Len(s) = n + m /\ \A i \in 1..(n + m) : s[i] = IF i <= n THEN a[i] ELSE p[i - n]
  BY <1>1, <1>2, ConcatProperties DEF Text
<1>4. "?" \notin DOMAIN Numbers /\ "-" \notin DOMAIN Numbers /\ "?" # "-"
  BY NumbersAssumption DEF Separators
<1>5. (a # <<>> <=> n > 0) /\ (s # <<>> <=> n + m > 0) /\ (p # <<>> <=> m > 0)
  BY <1>1, <1>3, EmptySeq DEF Text
<1>6. (n > 0 => s[1] = a[1]) /\ (n > 1 => s[2] = a[2])
  <2>1. n > 0 => 1 \in 1..(n + m) /\ 1 <= n
    OBVIOUS
  <2>2. n > 1 => 2 \in 1..(n + m) /\ 2 <= n
    OBVIOUS
  <2> QED
    BY <1>3, <2>1, <2>2
<1>7. (n = 0 /\ m > 0 => s[1] = "?") /\ (n = 1 /\ m > 0 => s[2] = "?")
  <2>1. n = 0 /\ m > 0 => 1 \in 1..(n + m) /\ ~(1 <= n) /\ 1 - n = 1
    OBVIOUS
  <2>2. n = 1 /\ m > 0 => 2 \in 1..(n + m) /\ ~(2 <= n) /\ 2 - n = 1
    OBVIOUS
  <2>3. m > 0 => p[1] = "?"
    BY <1>5
  <2>4. n = 0 /\ m > 0 => s[1] = p[1]
    BY <1>3, <2>1
  <2>5. n = 1 /\ m > 0 => s[2] = p[1]
    BY <1>3, <2>2
  <2> QED
    BY <2>3, <2>4, <2>5
<1> DEFINE I == (-IntMax - 1)..IntMax
           D(t) == \/ t # <<>> /\ t[1] \in DOMAIN Numbers /\ Numbers[t[1]] \in I
                   \/ /\ ~(t # <<>> /\ t[1] \in DOMAIN Numbers)
                      /\ Len(t) > 1 /\ t[1] = "-" /\ t[2] \in DOMAIN Numbers
                      /\ -Numbers[t[2]] \in I
<1>8. ASSUME NEW t PROVE IsDatabase(t) <=> D(t)
  <2> DEFINE J == I
  <2>1. IsDatabase(t) <=> \E x \in Leading(t) : x.value \in J
    BY DEF IsDatabase
  <2> HIDE DEF J
  <2>2. CASE t # <<>> /\ t[1] \in DOMAIN Numbers
    <3>1. PICK x : x = [value |-> Numbers[t[1]], rest |-> Tail(t)]
      OBVIOUS
    <3>2. x.value = Numbers[t[1]]
      BY <3>1
    <3>3. Leading(t) = {x}
      BY <2>2, <3>1, Zenon DEF Leading
    <3>4. IsDatabase(t) <=> x.value \in J
      BY <2>1, <3>3
    <3> QED
      BY <2>2, <3>2, <3>4, Zenon DEF J
  <2>3. CASE /\ ~(t # <<>> /\ t[1] \in DOMAIN Numbers)
             /\ Len(t) > 1 /\ t[1] = "-" /\ t[2] \in DOMAIN Numbers
    <3>1. PICK x : x = [value |-> -Numbers[t[2]], rest |-> After(t, 2)]
      OBVIOUS
    <3>2. x.value = -Numbers[t[2]]
      BY <3>1
    <3>3. Leading(t) = {x}
      BY <2>3, <3>1, Zenon DEF Leading
    <3>4. IsDatabase(t) <=> x.value \in J
      BY <2>1, <3>3
    <3> QED
      BY <2>3, <3>2, <3>4, Zenon DEF J
  <2>4. CASE /\ ~(t # <<>> /\ t[1] \in DOMAIN Numbers)
             /\ ~(Len(t) > 1 /\ t[1] = "-" /\ t[2] \in DOMAIN Numbers)
    <3>1. Leading(t) = {}
      BY <2>4, Zenon DEF Leading
    <3>2. ~D(t)
      BY <2>4
    <3> QED
      BY <2>1, <3>1, <3>2
  <2> QED
    BY <2>2, <2>3, <2>4
<1> HIDE DEF I
<1>9. D(s) <=> D(a)
  <2>1. CASE n = 0
    BY <1>1, <1>3, <1>4, <1>5, <1>7, <2>1
  <2>2. CASE n = 1
    BY <1>1, <1>3, <1>4, <1>5, <1>6, <1>7, <2>2
  <2>3. CASE n > 1
    BY <1>1, <1>3, <1>5, <1>6, <2>3
  <2> QED
    BY <2>1, <2>2, <2>3
<1> QED
  BY <1>2, <1>8, <1>9

\* The parts of what a user writes.
Params(w) == IF w.settings = <<>> THEN <<>> ELSE <<"?">> \o SettingsText(w.settings)
PathText(w) == AddressText(w.options) \o Params(w)
AuthText(w) == IF w.options.password = <<>> THEN <<>> ELSE w.options.password \o <<"@">>

\* The parts of what a user writes are texts.
LEMMA WrittenIs ==
  ASSUME NEW w \in Written
  PROVE  /\ w.options \in Given /\ w.settings \in Seq(Settings) /\ Writable(w)
         /\ w.options.alias \in Text /\ w.options.schema \in Text /\ w.options.uri \in Text
         /\ w.options.database \in Text /\ w.options.password \in Text
         /\ SettingsText(w.settings) \in Text
         /\ AddressText(w.options) \in Text /\ Params(w) \in Text
         /\ PathText(w) \in Text /\ AuthText(w) \in Text
<1>1. w.options \in Given /\ w.settings \in Seq(Settings) /\ Writable(w)
  BY WrittenAssumption
<1>2. /\ w.options.alias \in Text /\ w.options.schema \in Text /\ w.options.uri \in Text
      /\ w.options.database \in Text /\ w.options.password \in Text
  BY <1>1 DEF Given
<1>3. SettingsText(w.settings) \in Text
  BY <1>1, SettingsTextIs
<1>4. <<>> \in Text /\ <<"/">> \in Text /\ <<"?">> \in Text /\ <<"@">> \in Text
  BY SeparatorTexts, Zenon
<1>5. AddressText(w.options) \in Text
  <2>1. <<"/">> \o w.options.database \in Text
    BY <1>2, <1>4, ConcatText, Zenon
  <2>2. (IF w.options.database = <<>> THEN <<>> ELSE <<"/">> \o w.options.database) \in Text
    BY <1>4, <2>1, Zenon
  <2> QED
    BY <1>2, <2>2, ConcatText, Zenon DEF AddressText
<1>6. Params(w) \in Text
  BY <1>3, <1>4, ConcatText, Zenon DEF Params
<1>7. AuthText(w) \in Text
  BY <1>2, <1>4, ConcatText, Zenon DEF AuthText
<1>8. PathText(w) \in Text
  BY <1>5, <1>6, ConcatText, Zenon DEF PathText
<1> QED
  BY <1>1, <1>2, <1>3, <1>5, <1>6, <1>7, <1>8, Zenon

\* ... and make the text.
LEMMA TextOfIs ==
  ASSUME NEW w \in Written
  PROVE  /\ TextOf(w) \in Text
         /\ TextOf(w) = w.options.alias \o <<"=">>
              \o (w.options.schema \o <<":", "/", "/">> \o (AuthText(w) \o PathText(w)))
<1> DEFINE a == w.options.alias  c == w.options.schema  e == AuthText(w)
           pre == a \o <<"=">> \o c \o <<":", "/", "/">> \o e
<1>1. /\ a \in Text /\ c \in Text /\ e \in Text /\ PathText(w) \in Text
      /\ AddressText(w.options) \in Text /\ Params(w) \in Text
  BY WrittenIs, Zenon
<1>2. <<"=">> \in Text /\ <<":", "/", "/">> \in Text
  BY SeparatorTexts, Zenon
<1>3. TextOf(w) = pre \o AddressText(w.options) \o Params(w)
  BY Zenon DEF TextOf, AuthText, Params
<1>4. Glued(a, <<"=">>, c, <<":", "/", "/">>, e, PathText(w)) /\ pre \in Text
  BY <1>1, <1>2, Glue, Zenon
<1> HIDE DEF a, c, e
<1>5. pre \o AddressText(w.options) \o Params(w) = pre \o PathText(w)
  <2> HIDE DEF pre
  <2>1. Assoc(pre, AddressText(w.options), Params(w))
    BY <1>1, <1>4, AssociativeText, Zenon
  <2> QED
    BY <2>1, Zenon DEF Assoc, PathText
<1>6. pre \o PathText(w) \in Text
  BY <1>1, <1>4, ConcatText, Zenon
<1> QED
  BY <1>3, <1>4, <1>5, <1>6, Zenon DEF Glued, a, c, e

\* split_uri finds the alias, the schema, the password, and the rest.
LEMMA ReadUri ==
  ASSUME NEW w \in Written
  PROVE  SplitUri(TextOf(w)) =
           {[alias |-> w.options.alias, schema |-> w.options.schema,
             auth |-> w.options.password, path |-> PathText(w)]}
<1>1. PICK a \in Text, c \in Text, p \in Text, path \in Text :
        /\ a = w.options.alias /\ c = w.options.schema /\ p = w.options.password
        /\ path = PathText(w)
  BY WrittenIs, Zenon
<1>2. /\ a # <<>> /\ Free(a, {"="}) /\ c # <<>> /\ Free(c, {":"}) /\ Free(p, {"@"})
  BY <1>1, WrittenIs DEF Writable
<1>3. PICK scheme \in Text : scheme = <<":", "/", "/">> /\ scheme # <<>> /\ Len(scheme) = 3
                             /\ scheme[1] = ":"
  BY SeparatorTexts, Zenon
<1>4. "=" \in Tokens /\ "@" \in Tokens /\ <<"@">> \in Text
  BY SeparatorTexts, Zenon DEF Separators
<1>5. PICK rest \in Text : rest = AuthText(w) \o path
  BY <1>1, WrittenIs, ConcatText, Zenon
<1>6. PICK target \in Text : target = c \o scheme \o rest
  <2>1. c \o scheme \in Text
    BY ConcatText, Zenon
  <2> QED
    BY <2>1, ConcatText, Zenon
<1>7. PICK s \in Text : s = a \o <<"=">> \o target /\ s = TextOf(w)
  BY <1>1, <1>3, <1>5, <1>6, TextOfIs, Zenon
<1>8. PICK equals : equals = Occurs(s, <<"=">>)
  OBVIOUS
<1>9. equals # {} /\ Before(s, First(equals)) = a /\ After(s, First(equals)) = target
  <2>1. CutToken(a, "=", target)
    BY <1>2, <1>4, FirstCutToken, Zenon
  <2> QED
    BY <1>7, <1>8, <2>1, Zenon DEF CutToken
<1>10. PICK colon : colon = Occurs(target, scheme)
  OBVIOUS
<1>11. PICK j : j = First(colon)
  OBVIOUS
<1>12. /\ colon # {} /\ j = Len(c) + 1
       /\ Before(target, j) = c /\ After(target, j + Len(scheme) - 1) = rest
  <2>1. Free(c, {scheme[1]})
    BY <1>2, <1>3, Zenon
  <2>2. CutFirst(c, scheme, rest)
    BY <1>3, <2>1, FirstCutText, Zenon
  <2> QED
    BY <1>6, <1>10, <1>11, <2>2, Zenon DEF CutFirst
<1>13. After(target, j + 2) = rest /\ 1 \notin colon
  <2>1. Len(c) \in Nat /\ Len(c) # 0
    BY <1>2, EmptySeq, LenProperties DEF Text
  <2>2. j + Len(scheme) - 1 = j + 2 /\ j > 1
    BY <1>3, <1>12, <2>1
  <2>3. \A i \in colon : j <= i
    <3>1. Occurs(target, scheme) # {}
      BY <1>10, <1>12, Zenon
    <3>2. \A i \in Occurs(target, scheme) : First(Occurs(target, scheme)) <= i
      BY <1>3, <3>1, Found
    <3> QED
      BY <1>10, <1>11, <3>2, Zenon
  <2>4. 1 \notin colon
    <3>1. ~(j <= 1)
      BY <1>12, <2>1
    <3> QED
      BY <2>3, <3>1
  <2> QED
    BY <1>12, <2>2, <2>4
<1>14. PICK at : at = Occurs(rest, <<"@">>)
  OBVIOUS
<1>15. /\ p = IF at = {} THEN <<>> ELSE Before(rest, First(at))
       /\ path = IF at = {} THEN rest ELSE After(rest, First(at))
  <2>1. CASE p = <<>>
    <3>1. rest = path
      <4>1. rest = <<>> \o path
        BY <1>1, <1>5, <2>1, Zenon DEF AuthText
      <4>2. <<>> \o path = path
        BY ConcatEmptySeq DEF Text
      <4> QED
        BY <4>1, <4>2, Zenon
    <3>2. Free(path, {"@"})
      <4>1. /\ AddressText(w.options) \in Text /\ SettingsText(w.settings) \in Text
            /\ Params(w) \in Text
        BY WrittenIs, Zenon
      <4>2. Free(AddressText(w.options) \o SettingsText(w.settings), {"@"})
        BY <1>1, <2>1, WrittenIs DEF Writable
      <4>3. Free(AddressText(w.options), {"@"}) /\ Free(SettingsText(w.settings), {"@"})
        BY <4>1, <4>2, FreeText, Zenon
      <4>4. Free(<<"?">>, {"@"}) /\ Free(<<>>, {"@"}) /\ <<"?">> \in Text
        <5>1. "?" \notin {"@"}
          OBVIOUS
        <5> QED
          BY <5>1, FreeTokens, SeparatorTexts, Zenon
      <4>5. Free(Params(w), {"@"})
        BY <4>1, <4>3, <4>4, FreeText, Zenon DEF Params
      <4> QED
        BY <1>1, <4>1, <4>3, <4>5, FreeText, Zenon DEF PathText
    <3>3. at = {}
      BY <1>14, <3>1, <3>2, NotThereText, Zenon
    <3> QED
      BY <2>1, <3>1, <3>3, Zenon
  <2>2. CASE p # <<>>
    <3>1. rest = p \o <<"@">> \o path
      BY <1>1, <1>5, <2>2, Zenon DEF AuthText
    <3>2. at # {} /\ Before(rest, First(at)) = p /\ After(rest, First(at)) = path
      <4>1. CutToken(p, "@", path)
        BY <1>2, <1>4, FirstCutToken, Zenon
      <4> QED
        BY <1>14, <3>1, <4>1, Zenon DEF CutToken
    <3> QED
      BY <3>2, Zenon
  <2> QED
    BY <2>1, <2>2
<1>16. SplitUri(s) = {[alias |-> a, schema |-> c, auth |-> p, path |-> path]}
  <2>1. SplitUri(s) =
          IF equals = {} \/ a = <<>> \/ colon = {} \/ 1 \in colon THEN {}
          ELSE {[alias |-> a, schema |-> Before(target, j),
                 auth |-> IF at = {} THEN <<>> ELSE Before(rest, First(at)),
                 path |-> IF at = {} THEN rest ELSE After(rest, First(at))]}
    BY <1>3, <1>8, <1>9, <1>10, <1>11, <1>13, <1>14, Zenon DEF SplitUri
  <2> QED
    BY <1>2, <1>9, <1>12, <1>13, <1>15, <2>1, Zenon
<1> QED
  BY <1>1, <1>7, <1>16, Zenon

\* split_path finds the question mark, if there is one, where the address ends.
LEMMA ReadQuestion ==
  ASSUME NEW w \in Written
  PROVE  LET path == PathText(w)
             question == Occurs(path, <<"?">>)
         IN  /\ AddressText(w.options) =
                  IF question = {} THEN path ELSE Before(path, Last(question))
             /\ SettingsText(w.settings) =
                  IF question = {} THEN <<>> ELSE After(path, Last(question))
<1>1. PICK a \in Text, t \in Text, path \in Text :
        a = AddressText(w.options) /\ t = SettingsText(w.settings) /\ path = PathText(w)
  BY WrittenIs, Zenon
<1>2. PICK question : question = Occurs(path, <<"?">>)
  OBVIOUS
<1>3. "?" \in Tokens /\ <<>> \in Text /\ <<"/">> \in Text
  BY SeparatorTexts, Zenon DEF Separators
<1>4. Free(t, {"?"})
  BY <1>1, SettingsTextIs, WrittenIs, Zenon
<1>5. Free(a, {"?"})
  <2>1. PICK u \in Text, d \in Text : u = w.options.uri /\ d = w.options.database
    BY WrittenIs, Zenon
  <2>2. Free(u, {"?"}) /\ Free(d, {"/", "?"})
    BY <2>1, WrittenIs DEF Writable
  <2>3. Free(d, {"?"})
    <3>1. {"?"} \subseteq {"/", "?"}
      OBVIOUS
    <3> QED
      BY <2>2, <3>1, FreeFewer, Zenon
  <2>4. Free(<<"/">>, {"?"}) /\ Free(<<>>, {"?"})
    <3>1. "/" \notin {"?"}
      OBVIOUS
    <3> QED
      BY <3>1, FreeTokens, Zenon
  <2>5. <<"/">> \o d \in Text
    BY <1>3, ConcatText, Zenon
  <2>6. Free(<<"/">> \o d, {"?"})
    BY <1>3, <2>3, <2>4, FreeText, Zenon
  <2>7. PICK r \in Text : /\ r = IF d = <<>> THEN <<>> ELSE <<"/">> \o d
                          /\ Free(r, {"?"})
    BY <1>3, <2>4, <2>5, <2>6, Zenon
  <2>8. a = u \o r
    BY <1>1, <2>1, <2>7, Zenon DEF AddressText
  <2> QED
    BY <2>2, <2>7, <2>8, FreeText, Zenon
<1>6. CASE w.settings = <<>>
  <2>1. t = <<>>
    BY <1>1, <1>6, SettingsTextEmpty, Zenon
  <2>2. path = a \o <<>>
    BY <1>1, <1>6, Zenon DEF PathText, Params
  <2>3. a \o <<>> = a
    BY ConcatEmptySeq DEF Text
  <2>4. question = {}
    BY <1>2, <1>5, <2>2, <2>3, NotThereText, Zenon
  <2> QED
    BY <1>1, <1>2, <2>1, <2>2, <2>3, <2>4, Zenon
<1>7. CASE w.settings # <<>>
  <2>1. path = a \o (<<"?">> \o t)
    BY <1>1, <1>7, Zenon DEF PathText, Params
  <2>2. Assoc(a, <<"?">>, t) /\ CutLast(a, "?", t)
    BY <1>3, <1>4, OneToken, AssociativeText, LastCutToken, Zenon
  <2>3. path = a \o <<"?">> \o t
    BY <2>1, <2>2, Zenon DEF Assoc
  <2>4. question # {} /\ Before(path, Last(question)) = a /\ After(path, Last(question)) = t
    BY <1>2, <2>2, <2>3, Zenon DEF CutLast
  <2> QED
    BY <1>1, <1>2, <2>4, Zenon
<1> QED
  BY <1>6, <1>7

\* After the settings comes nothing that would end an address.
LEMMA ParamsAre ==
  ASSUME NEW w \in Written
  PROVE  /\ Params(w) \in Text /\ Free(Params(w), {"/"})
         /\ Params(w) = <<>> \/ Params(w)[1] = "?"
<1>1. PICK t \in Text : t = SettingsText(w.settings) /\ Free(t, {"/"})
  BY SettingsTextIs, WrittenIs, Zenon
<1>2. <<"?">> \in Text /\ Free(<<"?">>, {"/"}) /\ Free(<<>>, {"/"})
  <2>1. "?" \notin {"/"}
    OBVIOUS
  <2> QED
    BY <2>1, SeparatorTexts, FreeTokens, Zenon
<1>3. Free(Params(w), {"/"})
  BY <1>1, <1>2, FreeText, Zenon DEF Params
<1>4. (<<"?">> \o t)[1] = "?"
  <2>1. PICK q \in Text : q = <<"?">> /\ Len(q) = 1 /\ q[1] = "?"
    <3>1. Len(<<"?">>) = 1 /\ <<"?">>[1] = "?"
      OBVIOUS
    <3> QED
      BY <1>2, <3>1, Zenon
  <2>2. (q \o t)[1] = q[1]
    <3>1. /\ Len(t) \in Nat
          /\ \A i \in 1..(Len(q) + Len(t)) :
               (q \o t)[i] = IF i <= Len(q) THEN q[i] ELSE t[i - Len(q)]
      BY ConcatProperties, LenProperties DEF Text
    <3>2. 1 \in 1..(Len(q) + Len(t)) /\ 1 <= Len(q)
      BY <2>1, <3>1
    <3> QED
      BY <3>1, <3>2
  <2> QED
    BY <2>1, <2>2, Zenon
<1> QED
  BY <1>1, <1>3, <1>4, WrittenIs, Zenon DEF Params

\* The address is read as what was written, but for what is ambiguous.
LEMMA ReadSlash ==
  ASSUME NEW w \in Written
  PROVE  LET path == PathText(w)
             slash == Occurs(path, <<"/">>)
             last == IF slash = {} THEN <<>> ELSE After(path, Last(slash))
             uri == IF IsDatabase(last) THEN Before(path, Last(slash))
                    ELSE AddressText(w.options)
             database == IF IsDatabase(last) THEN last ELSE <<>>
         IN  /\ uri # <<>> /\ uri \in Text /\ database \in Text
             /\ ~Ambiguous(w) => uri = w.options.uri /\ database = w.options.database
<1>1. PICK a \in Text, u \in Text, d \in Text, p \in Text, path \in Text :
        /\ a = AddressText(w.options) /\ u = w.options.uri /\ d = w.options.database
        /\ p = Params(w) /\ path = PathText(w)
  BY WrittenIs, Zenon
<1>2. path = a \o p /\ a = u \o (IF d = <<>> THEN <<>> ELSE <<"/">> \o d)
  BY <1>1, Zenon DEF PathText, AddressText
<1>3. /\ u # <<>> /\ Free(d, {"/", "?"})
      /\ IsDatabase(LastPart(u)) => Last(Occurs(u, <<"/">>)) # 1
  BY <1>1, WrittenIs DEF Writable
<1>4. Free(p, {"/"}) /\ (p = <<>> \/ p[1] = "?")
  BY <1>1, ParamsAre, Zenon
<1>5. "/" \in Tokens /\ <<>> \in Text /\ <<"/">> \in Text
  BY SeparatorTexts, Zenon DEF Separators
<1>6. Ambiguous(w) <=> IF d = <<>> THEN IsDatabase(LastPart(u))
                       ELSE ~IsDatabase(d) \/ w.settings # <<>>
  BY <1>1, Zenon DEF Ambiguous
<1>7. PICK slash : slash = Occurs(path, <<"/">>)
  OBVIOUS
<1>8. PICK last : last = IF slash = {} THEN <<>> ELSE After(path, Last(slash))
  OBVIOUS
<1>9. PICK uri : uri = IF IsDatabase(last) THEN Before(path, Last(slash)) ELSE a
  OBVIOUS
<1>10. PICK database : database = IF IsDatabase(last) THEN last ELSE <<>>
  OBVIOUS
<1>11. /\ uri # <<>> /\ uri \in Text /\ database \in Text
       /\ ~Ambiguous(w) => uri = u /\ database = d
  <2>1. CASE d # <<>>
    <3>1. a = u \o (<<"/">> \o d) /\ Assoc(u, <<"/">>, d) /\ u \o <<"/">> \in Text
      BY <1>2, <1>5, <2>1, AssociativeText, ConcatText, Zenon
    <3>2. Assoc(u \o <<"/">>, d, p) /\ d \o p \in Text
      BY <3>1, AssociativeText, ConcatText, Zenon
    <3>3. path = u \o <<"/">> \o (d \o p)
      BY <1>2, <3>1, <3>2, Zenon DEF Assoc
    <3>4. Free(d \o p, {"/"})
      <4>1. {"/"} \subseteq {"/", "?"}
        OBVIOUS
      <4>2. Free(d, {"/"})
        BY <1>3, <4>1, FreeFewer, Zenon
      <4> QED
        BY <1>4, <4>2, FreeText, Zenon
    <3>5. CutLast(u, "/", d \o p)
      BY <1>5, <3>2, <3>4, LastCutToken, Zenon
    <3>6. slash # {} /\ Before(path, Last(slash)) = u /\ After(path, Last(slash)) = d \o p
      BY <1>7, <3>3, <3>5, Zenon DEF CutLast
    <3>7. last = d \o p
      BY <1>8, <3>6, Zenon
    <3>8. a # <<>>
      <4>1. Len(a) = Len(u) + Len(<<"/">> \o d) /\ <<"/">> \o d \in Text
        BY <1>5, <3>1, ConcatText, Zenon
      <4>2. Len(u) \in Nat /\ Len(u) # 0 /\ Len(<<"/">> \o d) \in Nat
        BY <1>3, <4>1, EmptySeq, LenProperties DEF Text
      <4>3. Len(a) # 0
        BY <4>1, <4>2
      <4> QED
        BY <4>3
    <3>9. /\ uri # <<>> /\ uri \in Text /\ database \in Text
      BY <1>3, <1>5, <1>9, <1>10, <3>2, <3>6, <3>7, <3>8, Zenon
    <3>10. ASSUME ~Ambiguous(w) PROVE uri = u /\ database = d
      <4>1. IsDatabase(d) /\ w.settings = <<>>
        BY <1>6, <2>1, <3>10, Zenon
      <4>2. p = <<>>
        BY <1>1, <4>1, Zenon DEF Params
      <4>3. d \o <<>> = d
        BY ConcatEmptySeq DEF Text
      <4>4. last = d
        BY <3>7, <4>2, <4>3, Zenon
      <4> QED
        BY <1>9, <1>10, <3>6, <4>1, <4>4, Zenon
    <3> QED
      BY <3>9, <3>10
  <2>2. CASE d = <<>>
    <3>1. a = u
      <4>1. u \o <<>> = u
        BY ConcatEmptySeq DEF Text
      <4> QED
        BY <1>2, <2>2, <4>1, Zenon
    <3>2. CASE Occurs(u, <<"/">>) = {}
      <4>1. Free(u, {"/"})
        BY <3>2, NotThereText, Zenon
      <4>2. Free(path, {"/"})
        BY <1>2, <1>4, <3>1, <4>1, FreeText, Zenon
      <4>3. slash = {}
        BY <1>7, <4>2, NotThereText, Zenon
      <4>4. last = <<>> /\ ~IsDatabase(last)
        BY <1>8, <4>3, EmptyNoDatabase, Zenon
      <4> QED
        BY <1>3, <1>5, <1>9, <1>10, <2>2, <3>1, <4>4, Zenon
    <3>3. CASE Occurs(u, <<"/">>) # {}
      <4>1. PICK m : m = Last(Occurs(u, <<"/">>))
        OBVIOUS
      <4>2. PICK b \in Text, c \in Text : b = Before(u, m) /\ c = After(u, m)
        <5>1. m \in Occurs(u, <<"/">>)
          BY <1>5, <3>3, <4>1, OneToken, Found, Zenon
        <5> QED
          BY <1>5, <5>1, CutAtToken, Zenon
      <4>3. u = b \o <<"/">> \o c /\ m \in 1..Len(u) /\ Len(b) = m - 1
        <5>1. m \in Occurs(u, <<"/">>)
          BY <1>5, <3>3, <4>1, OneToken, Found, Zenon
        <5> QED
          BY <1>5, <4>2, <5>1, CutAtToken, Zenon
      <4>4. c = LastPart(u) /\ Free(c, {"/"})
        BY <1>5, <3>3, <4>1, <4>2, AfterLast, Zenon DEF LastPart
      <4>5. b \o <<"/">> \in Text /\ c \o p \in Text
        BY <1>5, ConcatText, Zenon
      <4>6. Assoc(b \o <<"/">>, c, p)
        BY <4>5, AssociativeText, Zenon
      <4>7. path = b \o <<"/">> \o (c \o p)
        BY <1>2, <3>1, <4>3, <4>6, Zenon DEF Assoc
      <4>8. CutLast(b, "/", c \o p)
        <5>1. Free(c \o p, {"/"})
          BY <1>4, <4>4, FreeText, Zenon
        <5> QED
          BY <1>5, <4>5, <5>1, LastCutToken, Zenon
      <4>9. slash # {} /\ Before(path, Last(slash)) = b /\ After(path, Last(slash)) = c \o p
        BY <1>7, <4>7, <4>8, Zenon DEF CutLast
      <4>10. last = c \o p
        BY <1>8, <4>9, Zenon
      <4>11. IsDatabase(last) <=> IsDatabase(c)
        BY <1>4, <4>10, NumberInFront, Zenon
      <4>12. CASE IsDatabase(c)
        <5>1. m # 1
          BY <1>3, <4>1, <4>4, <4>12, Zenon
        <5>2. b # <<>>
          <6>1. Len(b) # 0
            BY <4>3, <5>1
          <6> QED
            BY <6>1
        <5>3. Ambiguous(w)
          BY <1>6, <2>2, <4>4, <4>12, Zenon
        <5> QED
          BY <1>9, <1>10, <4>5, <4>9, <4>10, <4>11, <4>12, <5>2, <5>3, Zenon
      <4>13. CASE ~IsDatabase(c)
        BY <1>3, <1>5, <1>9, <1>10, <2>2, <3>1, <4>11, <4>13, Zenon
      <4> QED
        BY <4>12, <4>13
    <3> QED
      BY <3>2, <3>3
  <2> QED
    BY <2>1, <2>2
<1> QED
  BY <1>1, <1>7, <1>8, <1>9, <1>10, <1>11, Zenon

\* What the options of a text say: what w says, but for what is ambiguous.
Reads(w, o) ==
  /\ [o EXCEPT !.uri = <<>>, !.database = <<>>] =
     [w.options EXCEPT !.uri = <<>>, !.database = <<>>]
  /\ ~Ambiguous(w) => o = w.options

\* All of the options but for the address and the database.
Rest(o, e) == [o EXCEPT !.uri = e, !.database = e]

Alike(o, p) == Rest(o, <<>>) = Rest(p, <<>>)

\* Records that agree on all fields are the same.
LEMMA SameRest ==
  ASSUME NEW o \in Given, NEW p \in Given,
         o.alias = p.alias, o.schema = p.schema, o.password = p.password,
         o.keep_alive = p.keep_alive, o.connect_timeout = p.connect_timeout,
         o.socket_timeout = p.socket_timeout
  PROVE  Alike(o, p) /\ (o.uri = p.uri /\ o.database = p.database => o = p)
<1>1. ASSUME NEW e PROVE Rest(o, e) = Rest(p, e)
  BY DEF Given, Rest
<1>2. ASSUME o.uri = p.uri, o.database = p.database PROVE o = p
  BY <1>2 DEF Given
<1> QED
  BY <1>1, <1>2, Zenon DEF Alike

\* parse takes what a user writes for what it means.
LEMMA ParseWritten ==
  ASSUME NEW w \in Written
  PROVE  \E o : Parse(TextOf(w)) = {o} /\ Reads(w, o)
<1>1. PICK s : s = TextOf(w)
  OBVIOUS
<1>2. PICK path \in Text : path = PathText(w)
  BY WrittenIs, Zenon
<1>3. PICK u : u = [alias |-> w.options.alias, schema |-> w.options.schema,
                    auth |-> w.options.password, path |-> path]
  OBVIOUS
<1>4. /\ u.alias = w.options.alias /\ u.schema = w.options.schema
      /\ u.auth = w.options.password /\ u.path = path
  BY <1>3
<1>5. SplitUri(s) = {u}
  BY <1>1, <1>2, <1>3, ReadUri, Zenon
<1>6. PICK p : /\ SplitPath(path) = {p}
               /\ p.uri # <<>> /\ p.uri \in Text /\ p.database \in Text
               /\ p.parameters = SettingsText(w.settings)
               /\ ~Ambiguous(w) => p.uri = w.options.uri /\ p.database = w.options.database
  <2>1. PICK question : question = Occurs(path, <<"?">>)
    OBVIOUS
  <2>2. PICK slash : slash = Occurs(path, <<"/">>)
    OBVIOUS
  <2>3. PICK last : last = IF slash = {} THEN <<>> ELSE After(path, Last(slash))
    OBVIOUS
  <2>4. PICK bare : bare = AddressText(w.options)
    OBVIOUS
  <2>5. PICK uri : uri = IF IsDatabase(last) THEN Before(path, Last(slash)) ELSE bare
    OBVIOUS
  <2>6. PICK db : db = IF IsDatabase(last) THEN last ELSE <<>>
    OBVIOUS
  <2>7. PICK t : t = SettingsText(w.settings)
    OBVIOUS
  <2>8. /\ bare = IF question = {} THEN path ELSE Before(path, Last(question))
        /\ t = IF question = {} THEN <<>> ELSE After(path, Last(question))
    BY <1>2, <2>1, <2>4, <2>7, ReadQuestion, Zenon
  <2>9. /\ uri # <<>> /\ uri \in Text /\ db \in Text
        /\ ~Ambiguous(w) => uri = w.options.uri /\ db = w.options.database
    BY <1>2, <2>2, <2>3, <2>4, <2>5, <2>6, ReadSlash, Zenon
  <2>10. PICK p : p = [uri |-> uri, database |-> db, parameters |-> t]
    OBVIOUS
  <2>11. p.uri = uri /\ p.database = db /\ p.parameters = t
    BY <2>10
  <2>12. SplitPath(path) =
           IF uri = <<>> THEN {} ELSE {[uri |-> uri, database |-> db, parameters |-> t]}
    BY <2>1, <2>2, <2>3, <2>5, <2>6, <2>8, Zenon DEF SplitPath
  <2>13. SplitPath(path) = {p}
    BY <2>9, <2>10, <2>12, Zenon
  <2> QED
    BY <2>7, <2>9, <2>11, <2>13, Zenon
<1>7. PICK opts : opts = [alias |-> u.alias, schema |-> u.schema, uri |-> p.uri,
                          database |-> p.database, password |-> u.auth, keep_alive |-> FALSE,
                          connect_timeout |-> 0, socket_timeout |-> 0]
  OBVIOUS
<1>8. /\ w.options \in Given /\ w.settings \in Seq(Settings)
      /\ w.options.alias \in Text /\ w.options.schema \in Text /\ w.options.password \in Text
  BY WrittenIs, Zenon
<1>9. opts \in Given
  BY <1>4, <1>6, <1>7, <1>8, GivenRecord, Zenon
<1>10. Parse(s) = ParseParameters(opts, p.parameters)
  <2>1. Parse(s) =
          UNION {UNION {ParseParameters(
                  [alias |-> v.alias, schema |-> v.schema, uri |-> q.uri,
                   database |-> q.database, password |-> v.auth, keep_alive |-> FALSE,
                   connect_timeout |-> 0, socket_timeout |-> 0], q.parameters) :
                q \in SplitPath(v.path)} : v \in SplitUri(s)}
    BY Zenon DEF Parse
  <2>2. SplitUri(s) = {u} /\ SplitPath(u.path) = {p}
    BY <1>4, <1>5, <1>6, Zenon
  <2> DEFINE F(v, q) == ParseParameters(
                  [alias |-> v.alias, schema |-> v.schema, uri |-> q.uri,
                   database |-> q.database, password |-> v.auth, keep_alive |-> FALSE,
                   connect_timeout |-> 0, socket_timeout |-> 0], q.parameters)
  <2>3. F(u, p) = ParseParameters(opts, p.parameters)
    BY <1>7, Zenon
  <2>4. Parse(s) = UNION {UNION {F(v, q) : q \in SplitPath(v.path)} : v \in SplitUri(s)}
    BY <2>1, Zenon
  <2> HIDE DEF F
  <2>5. UNION {F(u, q) : q \in {p}} = F(u, p)
    OBVIOUS
  <2>6. Parse(s) = UNION {UNION {F(v, q) : q \in SplitPath(v.path)} : v \in {u}}
    BY <2>2, <2>4, Zenon
  <2>7. Parse(s) = UNION {F(u, q) : q \in SplitPath(u.path)}
    BY <2>6
  <2> QED
    BY <2>2, <2>3, <2>5, <2>7, Zenon
<1>11. PICK o : o = Result(opts, w.settings)
  OBVIOUS
<1>12. Parse(s) = {o}
  BY <1>6, <1>8, <1>9, <1>10, <1>11, ReadSettings, Zenon
<1>13. /\ opts.alias = u.alias /\ opts.schema = u.schema /\ opts.uri = p.uri
       /\ opts.database = p.database /\ opts.password = u.auth /\ opts.keep_alive = FALSE
       /\ opts.connect_timeout = 0 /\ opts.socket_timeout = 0
  BY <1>7
<1>14. /\ w.options.keep_alive = Value(w.settings, "keep_alive", FALSE)
       /\ w.options.connect_timeout = Value(w.settings, "connect_timeout", 0)
       /\ w.options.socket_timeout = Value(w.settings, "socket_timeout", 0)
  BY WrittenIs, Zenon DEF Writable
<1>15. PICK k \in BOOLEAN, c \in Int, t \in Int :
         k = w.options.keep_alive /\ c = w.options.connect_timeout /\ t = w.options.socket_timeout
  BY <1>8 DEF Given
<1>16. o = [opts EXCEPT !.keep_alive = k, !.connect_timeout = c, !.socket_timeout = t]
  BY <1>11, <1>13, <1>14, <1>15, Zenon DEF Result
<1>17. /\ o \in Given
       /\ o.alias = opts.alias /\ o.schema = opts.schema /\ o.password = opts.password
       /\ o.uri = opts.uri /\ o.database = opts.database
       /\ o.keep_alive = k /\ o.connect_timeout = c /\ o.socket_timeout = t
  BY <1>9, <1>16 DEF Given
<1>18. /\ o.alias = w.options.alias /\ o.schema = w.options.schema
       /\ o.password = w.options.password /\ o.keep_alive = w.options.keep_alive
       /\ o.connect_timeout = w.options.connect_timeout
       /\ o.socket_timeout = w.options.socket_timeout
       /\ o.uri = p.uri /\ o.database = p.database
  BY <1>4, <1>13, <1>15, <1>17, Zenon
<1>19. Reads(w, o)
  <2>1. /\ Alike(o, w.options)
        /\ o.uri = w.options.uri /\ o.database = w.options.database => o = w.options
    BY <1>8, <1>17, <1>18, SameRest, Zenon
  <2> QED
    BY <1>6, <1>18, <2>1, Zenon DEF Reads, Alike, Rest
<1> QED
  BY <1>1, <1>12, <1>19, Zenon

\* Where a transport connects to is what an address means.
LEMMA FirstColon ==
  ASSUME NEW uri \in Text, NEW i \in 1..Len(uri), Free(Before(uri, i), {":"}), uri[i] = ":"
  PROVE  Occurs(uri, <<":">>) # {} /\ First(Occurs(uri, <<":">>)) = i
<1>1. PICK n \in Nat : n = Len(uri)
  BY LenProperties DEF Text
<1>2. PICK S : S = Occurs(uri, <<":">>)
  OBVIOUS
<1>3. S = {j \in 1..n : uri[j] = ":"}
  BY <1>1, <1>2, OccursOne DEF Text
<1>4. i \in S
  BY <1>1, <1>3
<1>5. \A j \in S : i <= j
  <2>1. ASSUME NEW j \in S, j < i PROVE FALSE
    <3>1. j \in 1..(i - 1) /\ i - 1 \in Nat /\ i \in 1..n
      BY <1>1, <1>3, <2>1
    <3>2. \A k \in 1..(i - 1) : uri[k] \in Tokens
      BY <1>1, <3>1 DEF Text
    <3>3. /\ Len(SubSeq(uri, 1, i - 1)) = IF 1 <= i - 1 THEN i - 1 - 1 + 1 ELSE 0
          /\ \A k \in 1..(i - 1 - 1 + 1) : SubSeq(uri, 1, i - 1)[k] = uri[1 + k - 1]
      BY <1>1, <3>1, <3>2, SubSeqProperties
    <3>4. Before(uri, i) = SubSeq(uri, 1, i - 1)
      BY DEF Before
    <3>5. Len(Before(uri, i)) = i - 1 /\ Before(uri, i)[j] = uri[j]
      <4>1. 1 + j - 1 = j /\ j \in 1..(i - 1 - 1 + 1) /\ 1 <= i - 1 /\ i - 1 - 1 + 1 = i - 1
        BY <3>1
      <4> QED
        BY <3>3, <3>4, <4>1
    <3>6. uri[j] = ":"
      BY <1>3, <2>1
    <3> QED
      BY <3>1, <3>5, <3>6 DEF Free
  <2>2. \A j \in S : j \in Int
    BY <1>3
  <2> QED
    BY <1>1, <2>1, <2>2
<1>6. First(S) = i
  <2>1. S \subseteq Nat
    BY <1>3
  <2> QED
    BY <1>4, <1>5, <2>1, FirstUnique
<1> QED
  BY <1>2, <1>4, <1>6

\* A transport takes an address for what it means.
LEMMA Connects ==
  ASSUME NEW uri \in Text, uri # <<>>, NEW schema, NEW where, Means(uri, schema, where)
  PROVE  \/ /\ schema = <<"unix">> /\ UnixEndpoint(uri) = where
            /\ where[2] = uri /\ ~(Len(uri) > PathMax)
         \/ schema = <<"tcp">> /\ TcpEndpoint(uri) = where
<1>1. CASE schema = <<"unix">> /\ Len(uri) <= PathMax /\ where = <<"unix", uri>>
  <2>1. UnixEndpoint(uri) = where
    BY <1>1 DEF UnixEndpoint
  <2>2. where[2] = uri
    BY <1>1
  <2>3. ~(Len(uri) > PathMax)
    BY <1>1, PathMaxAssumption, LenProperties DEF Text
  <2> QED
    BY <1>1, <2>1, <2>2, <2>3
<1>2. CASE schema = <<"tcp">> /\ Free(uri, {":"}) /\ where = <<"tcp", uri, <<"6379">>>>
  <2>1. Occurs(uri, <<":">>) = {}
    BY <1>2, NotThereText, Zenon
  <2> QED
    BY <1>2, <2>1, Zenon DEF TcpEndpoint
<1>3. ASSUME NEW i \in 1..Len(uri), schema = <<"tcp">>, Free(Before(uri, i), {":"}),
             uri[i] = ":", where = <<"tcp", Before(uri, i), After(uri, i)>>
      PROVE  schema = <<"tcp">> /\ TcpEndpoint(uri) = where
  <2>1. Occurs(uri, <<":">>) # {} /\ First(Occurs(uri, <<":">>)) = i
    BY <1>3, FirstColon
  <2> QED
    BY <1>3, <2>1, Zenon DEF TcpEndpoint
<1> QED
  BY <1>1, <1>2, <1>3, Zenon DEF Means

-----------------------------------------------------------------------------
(* The system: what its options are, from the text to the endpoint.        *)

\* Options that were read from a text are the text's parts.
LosslessInv ==
  /\ text \in Text
  /\ text # <<>> => (stage = "text" => options = {}) /\ \A o \in options : Read(text, o)

\* Only parse makes options, and it makes one record at most.
LEMMA OptionsMade ==
  ASSUME Next
  PROVE  /\ text' = text /\ meant' = meant /\ size' = size
         /\ \/ /\ stage = "text" /\ stage' \in {"options", "refused"}
               /\ UNCHANGED endpoint
               /\ \/ Parse(text) = {} /\ options' = {}
                  \/ \E o \in Parse(text) : options' = {o}
               /\ (options' # {} => stage' = "options")
            \/ /\ stage \in {"options", "pool", "connection", "connecting"}
               /\ stage' # "text" /\ UNCHANGED options
<1>1. CASE ParseText
  BY <1>1 DEF ParseText, Check
<1>2. CASE AddConnection
  BY <1>2 DEF AddConnection, Check
<1>3. CASE CreatePool
  BY <1>3 DEF CreatePool, Check
<1>4. CASE CreateConnection
  BY <1>4 DEF CreateConnection, Check
<1>5. CASE ConnectTransport
  BY <1>5 DEF ConnectTransport, Check
<1> QED
  BY <1>1, <1>2, <1>3, <1>4, <1>5 DEF Next

\* A text, any text, that is accepted is its parts put together again.
THEOREM LosslessCorrect == Spec => []Lossless
<1>1. Init => LosslessInv
  <2> SUFFICES ASSUME Init PROVE LosslessInv
    OBVIOUS
  <2>1. <<>> \in Text
    BY SeparatorTexts, Zenon
  <2>2. \A w \in Written : TextOf(w) \in Text
    BY TextOfIs, Zenon
  <2>3. CASE stage = "text" /\ options = {}
    <3>1. text \in Text
      BY <2>2, <2>3, TextsAssumption DEF Init
    <3> QED
      BY <2>3, <3>1 DEF LosslessInv
  <2>4. CASE text = <<>>
    BY <2>1, <2>4 DEF LosslessInv
  <2> QED
    BY <2>3, <2>4 DEF Init
<1>2. LosslessInv /\ [Next]_vars => LosslessInv'
  <2> SUFFICES ASSUME LosslessInv, [Next]_vars PROVE LosslessInv'
    OBVIOUS
  <2>1. CASE UNCHANGED vars
    BY <2>1 DEF vars, LosslessInv
  <2>2. CASE Next
    <3>1. text' = text /\ text' \in Text
      BY <2>2, OptionsMade DEF LosslessInv
    <3>2. CASE stage = "text"
      <4>1. stage' # "text" /\ options' \subseteq Parse(text)
        BY <2>2, <3>2, OptionsMade
      <4>2. \A o \in options' : Read(text, o)
        BY <3>1, <4>1, ParseRead
      <4> QED
        BY <3>1, <4>1, <4>2, Zenon DEF LosslessInv
    <3>3. CASE stage # "text"
      <4>1. stage' # "text" /\ options' = options
        BY <2>2, <3>3, OptionsMade
      <4> QED
        BY <3>1, <4>1, Zenon DEF LosslessInv
    <3> QED
      BY <3>2, <3>3
  <2> QED
    BY <2>1, <2>2
<1>3. LosslessInv => Lossless
  BY Zenon DEF LosslessInv, Lossless, Read
<1> QED
  BY <1>1, <1>2, <1>3, PTL DEF Spec

-----------------------------------------------------------------------------
(* From the text to the endpoint: what is meant passes all checks.         *)

\* A text that means something is taken for it, and so are its options, in
\* every check: what is meant passes all of them.
MeantInv ==
  /\ endpoint # Nowhere => stage = "done"
  /\ \A w \in meant :
       /\ w \in Written
       /\ stage = "text" => text = TextOf(w)
       /\ stage # "text" => \E o : options = {o} /\ Reads(w, o)
       /\ ~Ambiguous(w) => /\ endpoint # Nowhere => endpoint = w.endpoint
                           /\ stage # "swallowed" /\ (size > 0 => stage # "refused")

\* What is meant passes the check of add_connection, the pool and the connection.
LEMMA Accepted ==
  ASSUME NEW w \in Written
  PROVE  /\ w.options.uri # <<>> /\ w.options.alias # <<>>
         /\ w.options.schema \in {<<"tcp">>, <<"unix">>}
BY WrittenIs, Zenon DEF Writable, Means

\* ... and that of the transport, which connects to the address that was meant.
LEMMA ConnectsAsMeant ==
  ASSUME NEW w \in Written, options = {w.options}, ConnectTransport
  PROVE  stage' = "done" /\ endpoint' = w.endpoint
<1> DEFINE o == w.options
           unix == o.schema = <<"unix">>
           target == IF unix THEN UnixEndpoint(o.uri) ELSE TcpEndpoint(o.uri)
           ok == /\ o.uri # <<>>
                 /\ IF unix THEN ~(Len(target[2]) > PathMax) ELSE o.schema = <<"tcp">>
<1>1. /\ Check("connecting", ok, "done", "swallowed")
      /\ endpoint' = IF ok THEN target ELSE Nowhere
  BY DEF ConnectTransport
<1>2. o.uri \in Text /\ o.uri # <<>> /\ Means(o.uri, o.schema, w.endpoint)
  BY WrittenIs, Zenon DEF Writable
<1>3. <<"unix">> # <<"tcp">>
  OBVIOUS
<1>4. \/ /\ o.schema = <<"unix">> /\ UnixEndpoint(o.uri) = w.endpoint
         /\ w.endpoint[2] = o.uri /\ ~(Len(o.uri) > PathMax)
      \/ o.schema = <<"tcp">> /\ TcpEndpoint(o.uri) = w.endpoint
  BY <1>2, Connects, Zenon
<1>5. ok /\ target = w.endpoint
  BY <1>2, <1>3, <1>4, Zenon
<1> HIDE DEF ok, target
<1>6. stage' = "done"
  BY <1>1, <1>5 DEF Check
<1> QED
  BY <1>1, <1>5, <1>6

\* One step, for one thing that is meant.
LEMMA MeantStep ==
  ASSUME MeantInv, NEW w \in meant, Next
  PROVE  /\ stage' # "text"
         /\ \E o : options' = {o} /\ Reads(w, o)
         /\ ~Ambiguous(w) => /\ endpoint' # Nowhere => endpoint' = w.endpoint
                             /\ stage' # "swallowed" /\ (size > 0 => stage' # "refused")
<1>1. /\ w \in Written
      /\ stage = "text" => text = TextOf(w)
      /\ stage # "text" => \E o : options = {o} /\ Reads(w, o)
      /\ ~Ambiguous(w) => /\ endpoint # Nowhere => endpoint = w.endpoint
                          /\ stage # "swallowed" /\ (size > 0 => stage # "refused")
  BY Zenon DEF MeantInv
<1>2. /\ w.options.uri # <<>> /\ w.options.alias # <<>>
      /\ w.options.schema \in {<<"tcp">>, <<"unix">>}
  BY <1>1, Accepted, Zenon
<1>3. CASE ParseText
  <2>1. stage = "text" /\ UNCHANGED endpoint
    BY <1>3 DEF ParseText, Check
  <2>2. PICK o : Parse(text) = {o} /\ Reads(w, o)
    BY <1>1, <2>1, ParseWritten, Zenon
  <2>3. options' = {o}
    BY <1>3, <2>2 DEF ParseText
  <2>4. stage' = "options"
    BY <1>3, <2>3 DEF ParseText, Check
  <2> QED
    BY <1>1, <2>1, <2>2, <2>3, <2>4
<1>4. ASSUME stage # "text", UNCHANGED options, stage' # "text"
      PROVE  \E o : options' = {o} /\ Reads(w, o)
  BY <1>1, <1>4
<1>5. ASSUME stage # "text", ~Ambiguous(w) PROVE options = {w.options}
  BY <1>1, <1>5, Zenon DEF Reads
<1>6. CASE AddConnection
  <2>1. stage = "options" /\ stage' \in {"pool", "refused"} /\ UNCHANGED <<options, endpoint>>
    BY <1>6 DEF AddConnection, Check
  <2>2. ASSUME ~Ambiguous(w) PROVE stage' = "pool"
    <3>1. Check("options", w.options.uri # <<>> /\ w.options.alias # <<>>, "pool", "refused")
      BY <1>5, <1>6, <2>1, <2>2 DEF AddConnection
    <3> QED
      BY <1>2, <3>1 DEF Check
  <2> QED
    BY <1>1, <1>4, <2>1, <2>2
<1>7. CASE CreatePool
  <2>1. stage = "pool" /\ stage' \in {"connection", "refused"} /\ UNCHANGED <<options, endpoint>>
    BY <1>7 DEF CreatePool, Check
  <2>2. ASSUME ~Ambiguous(w), size > 0 PROVE stage' = "connection"
    <3>1. Check("pool", size > 0 /\ w.options.uri # <<>>, "connection", "refused")
      BY <1>5, <1>7, <2>1, <2>2 DEF CreatePool
    <3> QED
      BY <1>2, <2>2, <3>1 DEF Check
  <2> QED
    BY <1>1, <1>4, <2>1, <2>2
<1>8. CASE CreateConnection
  <2>1. /\ stage = "connection" /\ stage' \in {"connecting", "refused"}
        /\ UNCHANGED <<options, endpoint>>
    BY <1>8 DEF CreateConnection, Check
  <2>2. ASSUME ~Ambiguous(w) PROVE stage' = "connecting"
    <3>1. Check("connection", w.options.schema \in {<<"tcp">>, <<"unix">>}, "connecting",
                "refused")
      BY <1>5, <1>8, <2>1, <2>2 DEF CreateConnection
    <3> QED
      BY <1>2, <3>1 DEF Check
  <2> QED
    BY <1>1, <1>4, <2>1, <2>2
<1>9. CASE ConnectTransport
  <2>1. stage = "connecting" /\ stage' \in {"done", "swallowed"} /\ UNCHANGED options
    BY <1>9 DEF ConnectTransport, Check
  <2>2. ASSUME ~Ambiguous(w) PROVE stage' = "done" /\ endpoint' = w.endpoint
    BY <1>1, <1>5, <1>9, <2>1, <2>2, ConnectsAsMeant
  <2> QED
    BY <1>4, <2>1, <2>2
<1> QED
  BY <1>3, <1>6, <1>7, <1>8, <1>9 DEF Next

\* Only the transport has an endpoint to tell, and it is the last to be asked.
LEMMA EndpointStep ==
  ASSUME endpoint # Nowhere => stage = "done", Next
  PROVE  endpoint' # Nowhere => stage' = "done"
<1>1. CASE ParseText
  BY <1>1 DEF ParseText, Check
<1>2. CASE AddConnection
  BY <1>2 DEF AddConnection, Check
<1>3. CASE CreatePool
  BY <1>3 DEF CreatePool, Check
<1>4. CASE CreateConnection
  BY <1>4 DEF CreateConnection, Check
<1>5. CASE ConnectTransport
  BY <1>5 DEF ConnectTransport, Check
<1> QED
  BY <1>1, <1>2, <1>3, <1>4, <1>5 DEF Next

\* What a user writes is taken for what it means, and what is not ambiguous
\* reaches the address it names, whatever is in its parts.
THEOREM MeantCorrect == Spec => []TakenAsMeant
<1>1. Init => MeantInv
  <2> SUFFICES ASSUME Init PROVE MeantInv
    OBVIOUS
  <2>1. endpoint = Nowhere
    BY DEF Init
  <2>2. CASE meant = {}
    BY <2>1, <2>2 DEF MeantInv
  <2>3. ASSUME NEW w \in Written, stage = "text", text = TextOf(w), meant = {w}
        PROVE  MeantInv
    BY <2>1, <2>3 DEF MeantInv
  <2> QED
    BY <2>2, <2>3 DEF Init
<1>2. MeantInv /\ [Next]_vars => MeantInv'
  <2> SUFFICES ASSUME MeantInv, [Next]_vars PROVE MeantInv'
    OBVIOUS
  <2>1. CASE UNCHANGED vars
    BY <2>1 DEF vars, MeantInv
  <2>2. CASE Next
    <3>1. meant' = meant /\ size' = size
      BY <2>2, OptionsMade
    <3>2. endpoint' # Nowhere => stage' = "done"
      BY <2>2, EndpointStep DEF MeantInv
    <3>3. ASSUME NEW w \in meant
          PROVE  /\ w \in Written /\ stage' # "text"
                 /\ \E o : options' = {o} /\ Reads(w, o)
                 /\ ~Ambiguous(w) => /\ endpoint' # Nowhere => endpoint' = w.endpoint
                                     /\ stage' # "swallowed" /\ (size > 0 => stage' # "refused")
      BY <2>2, MeantStep DEF MeantInv
    <3> QED
      BY <3>1, <3>2, <3>3, Zenon DEF MeantInv
  <2> QED
    BY <2>1, <2>2
<1>3. MeantInv => TakenAsMeant
  <2> SUFFICES ASSUME MeantInv, NEW w \in meant, stage # "text"
               PROVE  /\ \E o \in options :
                           /\ [o EXCEPT !.uri = <<>>, !.database = <<>>] =
                              [w.options EXCEPT !.uri = <<>>, !.database = <<>>]
                           /\ ~Ambiguous(w) => o = w.options
                      /\ endpoint # Nowhere /\ ~Ambiguous(w) => endpoint = w.endpoint
                      /\ size > 0 /\ ~Ambiguous(w) => stage \notin {"refused", "swallowed"}
    BY Zenon DEF TakenAsMeant
  <2>1. PICK o : options = {o} /\ Reads(w, o)
    BY Zenon DEF MeantInv
  <2>2. o \in options
    BY <2>1
  <2>3. ~Ambiguous(w) => /\ endpoint # Nowhere => endpoint = w.endpoint
                         /\ stage # "swallowed" /\ (size > 0 => stage # "refused")
    BY Zenon DEF MeantInv
  <2>4. size > 0 /\ ~Ambiguous(w) => stage \notin {"refused", "swallowed"}
    BY <2>3
  <2> QED
    BY <2>1, <2>2, <2>3, <2>4, Zenon DEF Reads
<1> QED
  BY <1>1, <1>2, <1>3, PTL DEF Spec

-----------------------------------------------------------------------------
(* What is thrown inside the machine, for any texts and options, whatever  *)
(* parse makes of them.                                                    *)

\* What the checks so far have found out.  The options are those that were
\* checked: nobody replaces them on the way.
CheckedOK ==
  /\ stage \in {"connection", "connecting"} => \A o \in options : o.uri # <<>>
  /\ stage = "connecting" => \A o \in options : o.schema \in {<<"tcp">>, <<"unix">>}

NotYet == stage # "done" => endpoint = Nowhere

\* Options are one record or none, so that the one a check has seen is the one
\* that is there.
OneOptions == \A o, p \in options : o = p

RegistrationInv == OneOptions /\ CheckedOK /\ NotYet /\ SwallowedOnlyLongPath

\* A check passes or does not, and leaves the text and the size alone.
LEMMA Checks ==
  ASSUME NEW here, NEW ok, NEW next, NEW otherwise, Check(here, ok, next, otherwise)
  PROVE  stage = here /\ (ok => stage' = next) /\ (~ok => stage' = otherwise)
BY DEF Check

\* Every check before connecting refuses, and so finds nothing to swallow.
LEMMA BeforeConnecting ==
  ASSUME RegistrationInv, ParseText \/ AddConnection \/ CreatePool \/ CreateConnection
  PROVE  RegistrationInv'
<1> USE DEF RegistrationInv, OneOptions, CheckedOK, NotYet, SwallowedOnlyLongPath
<1>1. CASE ParseText
  <2>1. stage = "text" /\ stage' \in {"options", "refused"} /\ endpoint' = endpoint
    BY <1>1, Checks DEF ParseText
  <2>2. \A o, p \in options' : o = p
    BY <1>1 DEF ParseText
  <2> QED
    BY <2>1, <2>2
<1>2. CASE AddConnection
  <2>1. stage = "options" /\ stage' \in {"pool", "refused"} /\ UNCHANGED <<options, endpoint>>
    BY <1>2, Checks DEF AddConnection
  <2> QED
    BY <2>1
<1>3. CASE CreatePool
  <2>1. PICK o \in options : Check("pool", size > 0 /\ o.uri # <<>>, "connection", "refused")
    BY <1>3 DEF CreatePool
  <2>2. stage = "pool" /\ stage' \in {"connection", "refused"} /\ UNCHANGED <<options, endpoint>>
    BY <1>3, <2>1, Checks DEF CreatePool
  <2>3. stage' = "connection" => o.uri # <<>>
    BY <2>1 DEF Check
  <2> QED
    BY <2>2, <2>3
<1>4. CASE CreateConnection
  <2>1. PICK o \in options :
          Check("connection", o.schema \in {<<"tcp">>, <<"unix">>}, "connecting", "refused")
    BY <1>4 DEF CreateConnection
  <2>2. /\ stage = "connection" /\ stage' \in {"connecting", "refused"}
        /\ UNCHANGED <<options, endpoint>>
    BY <1>4, <2>1, Checks DEF CreateConnection
  <2>3. stage' = "connecting" => o.schema \in {<<"tcp">>, <<"unix">>}
    BY <2>1 DEF Check
  <2> QED
    BY <2>2, <2>3
<1> QED
  BY <1>1, <1>2, <1>3, <1>4

\* Of what connecting looks at on entry, only the length of a path was not
\* looked at before.
LEMMA Connecting ==
  ASSUME RegistrationInv, ConnectTransport
  PROVE  RegistrationInv'
<1> USE DEF RegistrationInv, OneOptions, CheckedOK, NotYet, SwallowedOnlyLongPath
<1> DEFINE unix(o) == o.schema = <<"unix">>
           target(o) == IF unix(o) THEN UnixEndpoint(o.uri) ELSE TcpEndpoint(o.uri)
           ok(o) == /\ o.uri # <<>>
                    /\ IF unix(o) THEN ~(Len(target(o)[2]) > PathMax) ELSE o.schema = <<"tcp">>
<1>1. PICK o \in options : /\ Check("connecting", ok(o), "done", "swallowed")
                           /\ endpoint' = IF ok(o) THEN target(o) ELSE Nowhere
                           /\ UNCHANGED options
  BY DEF ConnectTransport
<1>2. stage = "connecting" /\ o.uri # <<>> /\ o.schema \in {<<"tcp">>, <<"unix">>}
  BY <1>1 DEF Check
<1>3. stage' = IF ok(o) THEN "done" ELSE "swallowed"
  BY <1>1 DEF Check
<1>4. CASE ok(o)
  BY <1>1, <1>3, <1>4
<1>5. CASE ~ok(o)
  <2>1. unix(o) /\ Len(target(o)[2]) > PathMax
    BY <1>2, <1>5
  <2>2. target(o)[2] = o.uri
    BY <2>1, <1>2 DEF UnixEndpoint
  <2>3. stage' = "swallowed" /\ endpoint' = Nowhere /\ options' = options
    BY <1>1, <1>3, <1>5
  <2>4. o.schema = <<"unix">> /\ Len(o.uri) > PathMax
    BY <2>1, <2>2
  <2> QED
    BY <2>3, <2>4
<1> QED
  BY <1>4, <1>5

\* The one exception of connecting that reaches nobody is that of a path too
\* long for the address of a socket.
THEOREM SwallowedCorrect == Spec => []SwallowedOnlyLongPath
<1>1. Init => RegistrationInv
  BY DEF Init, RegistrationInv, OneOptions, CheckedOK, NotYet, SwallowedOnlyLongPath
<1>2. RegistrationInv /\ [Next]_vars => RegistrationInv'
  <2> SUFFICES ASSUME RegistrationInv, [Next]_vars
               PROVE  RegistrationInv'
    OBVIOUS
  <2>1. CASE Next
    BY <2>1, BeforeConnecting, Connecting DEF Next
  <2>2. CASE UNCHANGED vars
    BY <2>2 DEF vars, RegistrationInv, OneOptions, CheckedOK, NotYet, SwallowedOnlyLongPath
  <2> QED
    BY <2>1, <2>2
<1>3. RegistrationInv => SwallowedOnlyLongPath
  BY DEF RegistrationInv
<1> QED
  BY <1>1, <1>2, <1>3, PTL DEF Spec
===============================================================================
