---------------------------- MODULE RespReader ----------------------------
(***************************************************************************)
(* The loop of read_message over a buffer that a single read filled: parse *)
(* a reply, report it, drop the bytes it used.  The buffer holds any bytes.*)
(***************************************************************************)
EXTENDS RespParser

CONSTANT Buffers \* what a read may leave in the buffer

ASSUME BuffersAssumption == Buffers \subseteq Seq(Byte)

VARIABLES incoming,  \* incoming_: the bytes still to be parsed
          max_bytes, \* the loop counter
          parsed     \* what handler_parse_result_t was given

vars == <<incoming, max_bytes, parsed>>

\* handle_read calls read_message with the size of what was read.
Received(b) == incoming = b /\ max_bytes = Len(b) /\ parsed = <<>>

Init == \E b \in Buffers : Received(b)

\* handler_parse_result_t: the bytes to drop, 0 for a protocol error.
Consumed(p) == IF p.tag = "protocol" THEN 0 ELSE p.consumed

ReadOne ==
  /\ max_bytes > 0
  /\ LET p == RawParse(incoming)
         n == IF Consumed(p) = 0 THEN max_bytes ELSE Consumed(p)
     IN  /\ parsed' = Append(parsed, p)
         /\ incoming' = From(incoming, n + 1)
         /\ max_bytes' = max_bytes - n

Spec == Init /\ [][ReadOne]_vars

-----------------------------------------------------------------------------
\* Every round of the loop uses at least one byte and no more than there are,
\* whatever the bytes: the loop ends, and max_bytes, a size_t, never wraps around.
LoopProgress ==
  [][max_bytes' \in 0..(max_bytes - 1) /\ Len(incoming') = max_bytes']_vars
=============================================================================
