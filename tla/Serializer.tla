----------------------------- MODULE Serializer -----------------------------
(***************************************************************************)
(* Protocol::serialize: a command, a sequence of arguments which are       *)
(* sequences of bytes, is printed into a buffer of exactly the size        *)
(* computed for it, a std::vector in which snprintf also leaves a NUL.     *)
(***************************************************************************)
EXTENDS RespParser

NUL == "\\0"

DecimalText(n) ==
  LET text[k \in 0..n] == IF k < 10 THEN <<Digits[k + 1]>>
                          ELSE Append(text[k \div 10], Digits[(k % 10) + 1])
  IN  text[n]

NumberText(i) == IF i < 0 THEN <<"-">> \o DecimalText(0 - i) ELSE DecimalText(i)

DigitCount(n) ==
  LET count[k \in 0..n] == IF k = 0 THEN 0 ELSE 1 + count[k \div 10]
  IN  count[n]

\* How many digits are printed; zero has one, too.
SizeForInt(n) == IF DigitCount(n) = 0 THEN 1 ELSE DigitCount(n)

CommandSize(args) ==
  LET sz[n \in 0..Len(args)] ==
        IF n = 0 THEN 1 + SizeForInt(Len(args)) + 2
        ELSE sz[n - 1] + 1 + SizeForInt(Len(args[n])) + 2 + Len(args[n]) + 2
  IN  sz[Len(args)]

\* Bytes written at an offset.  The buffer grows if they do not fit, which in
\* the code is a write outside of it.
Write(buff, at, bytes) ==
  LET end == at + Len(bytes)
  IN  [i \in 1..(IF end > Len(buff) THEN end ELSE Len(buff)) |->
         IF i \in (at + 1)..end THEN bytes[i - at] ELSE buff[i]]

\* snprintf: size - 1 bytes at most, and a NUL; returns the length of all.
Snprintf(buff, total, size, text) ==
  LET printed == IF Len(text) < size THEN text ELSE SubSeq(text, 1, size - 1)
  IN  [buff  |-> Write(buff, total, Append(printed, NUL)),
       total |-> total + Len(text)]

Header(mark, n) == <<mark>> \o DecimalText(n) \o Terminator

\* One round of the loop over the arguments.
Argument(b, size, arg) ==
  LET c == Snprintf(b.buff, b.total, size, Header("$", Len(arg)))
  IN  [buff  |-> Write(c.buff, c.total, arg \o Terminator),
       total |-> c.total + Len(arg) + 2]

\* The command appended to what the buffer holds; b[n] is what there is after n
\* arguments.
Serialize(buff, args) ==
  LET size  == CommandSize(args)
      zeros == [i \in 1..size |-> NUL]
      b[n \in 0..Len(args)] ==
        IF n = 0 THEN Snprintf(buff \o zeros, Len(buff), size, Header("*", Len(args)))
        ELSE Argument(b[n - 1], size, args[n])
  IN  b[Len(args)].buff

\* Several commands, one after the other.
SerializeAll(cmds) ==
  LET buff[n \in 0..Len(cmds)] ==
        IF n = 0 THEN <<>> ELSE Serialize(buff[n - 1], cmds[n])
  IN  buff[Len(cmds)]
=============================================================================
