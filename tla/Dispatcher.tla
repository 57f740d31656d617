----------------------------- MODULE Dispatcher -----------------------------
(***************************************************************************)
(* What a connection pool promises about the order of requests, with no    *)
(* connections in sight: requests start in the order in which they         *)
(* arrived, nobody overtakes one that waits, at most Capacity are executed *)
(* at a time, and one that waits can only leave from the front.            *)
(***************************************************************************)
EXTENDS Naturals, Sequences, FiniteSets

CONSTANTS Jobs,      \* requests
          Capacity   \* how many are executed at a time

VARIABLES waiting,   \* FIFO of requests that have not started
          serving,   \* requests being executed
          over       \* requests executed, refused or dropped

vars == <<waiting, serving, over>>

Queued == {waiting[i] : i \in 1..Len(waiting)}
Fresh == Jobs \ (Queued \cup serving \cup over)

Init == waiting = <<>> /\ serving = {} /\ over = {}

\* Arrivals: join the queue, start at once if nobody waits, or be refused.
Arrive(r) == /\ r \in Fresh
             /\ waiting' = Append(waiting, r)
             /\ UNCHANGED <<serving, over>>

StartAtOnce(r) == /\ r \in Fresh
                  /\ waiting = <<>>
                  /\ serving' = serving \cup {r}
                  /\ Cardinality(serving') <= Capacity
                  /\ UNCHANGED <<waiting, over>>

Refuse(r) == /\ r \in Fresh
             /\ over' = over \cup {r}
             /\ UNCHANGED <<waiting, serving>>

\* An execution ends, well or badly.
Finish(r) == /\ r \in serving
             /\ serving' = serving \ {r}
             /\ over' = over \cup {r}
             /\ UNCHANGED waiting

\* The front of the queue starts, in a free place or in the place of r.
Start == /\ waiting # <<>>
         /\ waiting' = Tail(waiting)
         /\ serving' = serving \cup {Head(waiting)}
         /\ Cardinality(serving') <= Capacity
         /\ UNCHANGED over

Replace(r) == /\ r \in serving
              /\ waiting # <<>>
              /\ waiting' = Tail(waiting)
              /\ serving' = (serving \ {r}) \cup {Head(waiting)}
              /\ over' = over \cup {r}

\* The front of the queue gets an error instead.
Reject == /\ waiting # <<>>
          /\ waiting' = Tail(waiting)
          /\ over' = over \cup {Head(waiting)}
          /\ UNCHANGED serving

Next == \/ \E r \in Jobs : Arrive(r) \/ StartAtOnce(r) \/ Refuse(r)
        \/ \E r \in serving : Finish(r) \/ Replace(r)
        \/ Start \/ Reject

Spec == Init /\ [][Next]_vars

\* The queue does not stand still for ever.
Leave == Start \/ Reject \/ \E r \in serving : Replace(r)

FairSpec == Spec /\ WF_vars(Leave)
=============================================================================
