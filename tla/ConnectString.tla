---------------------------- MODULE ConnectString ----------------------------
(***************************************************************************)
(* connection_options::parse.  A text is a sequence of tokens: the one-    *)
(* character strings with a meaning of their own (= : / @ ? & -), the      *)
(* numbers, in digits, and words, which contain none of these.  No two     *)
(* numbers are adjacent, as they would be one.  A function that throws     *)
(* connection_error returns the empty set, else the set of its one result. *)
(***************************************************************************)
EXTENDS Integers, Sequences

CONSTANTS Tokens,  \* all of them
          Numbers, \* function from the tokens that are numbers to their values
          IntMax,  \* the largest int: 2^31 - 1 in the program
          Truth    \* function from the spellings of a Boolean, in any case, to it

Separators == {"=", ":", "/", "@", "?", "&", "-"}

ASSUME TokensAssumption == Separators \cup DOMAIN Numbers \cup DOMAIN Truth \subseteq Tokens
ASSUME NumbersAssumption ==
  /\ \A n \in DOMAIN Numbers : Numbers[n] \in Nat
  /\ DOMAIN Numbers \cap Separators = {}
ASSUME IntMaxAssumption == IntMax \in Nat
ASSUME TruthAssumption ==
  DOMAIN Truth \cap Separators = {} /\ \A w \in DOMAIN Truth : Truth[w] \in BOOLEAN

Before(s, i) == SubSeq(s, 1, i - 1)
After(s, i) == SubSeq(s, i + 1, Len(s))

\* Where `what' occurs in s: find takes the First, rfind the Last.
Occurs(s, what) ==
  {i \in 1..(Len(s) - Len(what) + 1) : SubSeq(s, i, i + Len(what) - 1) = what}
First(S) == CHOOSE i \in S : \A j \in S : i <= j
Last(S) == CHOOSE i \in S : \A j \in S : i >= j

\* alias=schema://[auth@]path
SplitUri(s) ==
  LET equals == Occurs(s, <<"=">>)
      alias  == Before(s, First(equals))
      target == After(s, First(equals))
      colon  == Occurs(target, <<":", "/", "/">>)
      rest   == After(target, First(colon) + 2)
      at     == Occurs(rest, <<"@">>)
  IN  IF equals = {} \/ alias = <<>> \/ colon = {} \/ 1 \in colon THEN {}
      ELSE {[alias |-> alias, schema |-> Before(target, First(colon)),
             auth |-> IF at = {} THEN <<>> ELSE Before(rest, First(at)),
             path |-> IF at = {} THEN rest ELSE After(rest, First(at))]}

\* What std::stoi and std::stoul read at the front of s: {} if they throw, else
\* the value and what follows.  Both take a sign.
Leading(s) ==
  IF s # <<>> /\ s[1] \in DOMAIN Numbers
    THEN {[value |-> Numbers[s[1]], rest |-> Tail(s)]}
  ELSE IF Len(s) > 1 /\ s[1] = "-" /\ s[2] \in DOMAIN Numbers
    THEN {[value |-> -Numbers[s[2]], rest |-> After(s, 2)]}
  ELSE {}

\* stoi also throws when the value is not an int.
IsDatabase(s) == \E n \in Leading(s) : n.value \in (-IntMax - 1)..IntMax

\* Seeded fault: the text before the question mark is always the address.
SplitPathBare(path) ==
  LET question == Occurs(path, <<"?">>)
      slash    == Occurs(path, <<"/">>)
      last     == IF slash = {} THEN <<>> ELSE After(path, Last(slash))
      bare     == IF question = {} THEN path ELSE Before(path, Last(question))
      named    == IsDatabase(last)
  IN  IF bare = <<>> THEN {}
      ELSE {[uri |-> bare, database |-> IF named THEN last ELSE <<>>,
             parameters |-> IF question = {} THEN <<>> ELSE After(path, Last(question))]}

\* path[/database][?parameters].  The part after the last slash is taken for
\* a database if it begins with a number, and then with all that follows.
SplitPath(path) ==
  LET question == Occurs(path, <<"?">>)
      slash    == Occurs(path, <<"/">>)
      last     == IF slash = {} THEN <<>> ELSE After(path, Last(slash))
      bare     == IF question = {} THEN path ELSE Before(path, Last(question))
      named    == IsDatabase(last)
      uri      == IF named THEN Before(path, Last(slash)) ELSE bare
  IN  IF uri = <<>> THEN {}
      ELSE {[uri |-> uri, database |-> IF named THEN last ELSE <<>>,
             parameters |-> IF question = {} THEN <<>> ELSE After(path, Last(question))]}

\* Milliseconds.  stoul takes a negative number modulo 2^64, which the signed
\* count of a std::chrono duration turns back into the negative number.
Timeout(s) ==
  {n.value * (CASE n.rest = <<"ms">> -> 1 [] n.rest = <<"s">> -> 1000
                [] n.rest = <<"m">> -> 60000) :
     n \in {m \in Leading(s) : m.rest \in {<<"ms">>, <<"s">>, <<"m">>}}}

Flag(s) == {Truth[w] : w \in {v \in DOMAIN Truth : s = <<v>>}}

\* Seeded fault: the value of one timeout is stored in the other.
SetOptionSwapped(opts, key, val) ==
  CASE key = <<"keep_alive">> -> {[opts EXCEPT !.keep_alive = b] : b \in Flag(val)}
    [] key = <<"connect_timeout">> -> {[opts EXCEPT !.socket_timeout = t] : t \in Timeout(val)}
    [] key = <<"socket_timeout">> -> {[opts EXCEPT !.connect_timeout = t] : t \in Timeout(val)}
    [] OTHER -> {}

SetOption(opts, key, val) ==
  CASE key = <<"keep_alive">> -> {[opts EXCEPT !.keep_alive = b] : b \in Flag(val)}
    [] key = <<"connect_timeout">> -> {[opts EXCEPT !.connect_timeout = t] : t \in Timeout(val)}
    [] key = <<"socket_timeout">> -> {[opts EXCEPT !.socket_timeout = t] : t \in Timeout(val)}
    [] OTHER -> {}

\* boost::split: the parts between the separators, one more than there are of
\* these, empty ones included; parts[i] is what the first i tokens make.
SplitAt(s, separator) ==
  LET parts[i \in 0..Len(s)] ==
        IF i = 0 THEN << <<>> >>
        ELSE LET done == parts[i - 1]
             IN  IF s[i] = separator THEN Append(done, <<>>)
                 ELSE [done EXCEPT ![Len(done)] = Append(@, s[i])]
  IN  parts[Len(s)]

\* key=value&key=value...: set one after another; set[i] is what the first i make.
ParseParameters(opts, s) ==
  LET parameters == SplitAt(s, "&")
      set[i \in 0..Len(parameters)] ==
        IF i = 0 THEN {opts}
        ELSE LET pair == SplitAt(parameters[i], "=")
             IN  IF Len(pair) # 2 THEN {}
                 ELSE UNION {SetOption(o, pair[1], pair[2]) : o \in set[i - 1]}
  IN  IF s = <<>> THEN {opts} ELSE set[Len(parameters)]

Parse(s) ==
  UNION {UNION {ParseParameters(
                  [alias |-> u.alias, schema |-> u.schema, uri |-> p.uri,
                   database |-> p.database, password |-> u.auth, keep_alive |-> FALSE,
                   connect_timeout |-> 0, socket_timeout |-> 0], p.parameters) :
                p \in SplitPath(u.path)} : u \in SplitUri(s)}
=============================================================================
