-------------------------------- MODULE Fifo --------------------------------
(***************************************************************************)
(* What a pipe of the scheduler promises (luafwk/sched/pipe.lua): what is  *)
(* sent is received once and in order, a value that is pushed back is the  *)
(* next one to be received, and a full pipe takes nothing more.            *)
(***************************************************************************)
EXTENDS Integers, Sequences

CONSTANTS Readers, Values, Limits, Nothing

VARIABLES queue,   \* what is in the pipe
          limit,   \* its maximal length, 0 when there is none
          received,     \* the last value each reader has received
          dumped   \* what the last reset has returned

vars == <<queue, limit, received, dumped>>

Full == queue # << >> /\ Len(queue) = limit

Init ==
  /\ queue = << >> /\ dumped = << >>
  /\ limit \in Limits
  /\ received = [r \in Readers |-> Nothing]

Put(x) ==
  /\ ~ Full
  /\ queue' = Append(queue, x)
  /\ UNCHANGED <<limit, received, dumped>>

Take(r) ==
  /\ queue # << >>
  /\ queue' = Tail(queue) /\ received' = [received EXCEPT ![r] = Head(queue)]
  /\ UNCHANGED <<limit, dumped>>

PutBack(r) ==
  /\ ~ Full /\ received[r] # Nothing
  /\ queue' = <<received[r]>> \o queue /\ received' = [received EXCEPT ![r] = Nothing]
  /\ UNCHANGED <<limit, dumped>>

SetLimit(m) ==
  /\ m = 0 \/ Len(queue) <= m
  /\ limit' = m
  /\ UNCHANGED <<queue, received, dumped>>

Empty ==
  /\ queue' = << >> /\ dumped' = queue
  /\ UNCHANGED <<limit, received>>

Next ==
  \/ \E x \in Values : Put(x)
  \/ \E r \in Readers : Take(r) \/ PutBack(r)
  \/ \E m \in Limits : SetLimit(m)
  \/ Empty

Spec == Init /\ [][Next]_vars
=============================================================================
