----------------------------- MODULE PipeProofs -----------------------------
(***************************************************************************)
(* For any number of tasks, any limits and any waste parameters, and with  *)
(* reset() called at any time: a task that waits has something to wait for *)
(* and the pipe stays within its limit.  Neither is inductive: what makes  *)
(* them so is that state always agrees with the indices and the limit, and *)
(* that a task that waits is a task for which the state is the one it      *)
(* found, because every change of the state wakes it.                      *)
(***************************************************************************)
EXTENDS Pipe, TLAPS

IndexOK ==
  /\ sndidx \in Nat /\ rcvidx \in Nat /\ 1 <= rcvidx /\ rcvidx <= sndidx
  /\ maxlength \in Nat
  /\ at \in [Ends -> {"idle", "waiting", "woken"}]

StateOK == state = StateOf(Length, maxlength)

WaitingOK ==
  /\ \A r \in Readers : at[r] = "waiting" => state = "empty"
  /\ \A w \in Writers : at[w] = "waiting" => state = "full"

IInv == IndexOK /\ StateOK /\ WaitingOK /\ WithinLimit

\* After updatestate, the state agrees with the pipe and the tasks that still
\* wait found the pipe in the state it is in.
LEMMA UpdateStateOK ==
  ASSUME NEW self, UpdateState(self), IInv,
         sndidx' \in Nat, rcvidx' \in Nat, 1 <= rcvidx', rcvidx' <= sndidx',
         maxlength' \in Nat, WithinLimit'
  PROVE  IInv'
<1>1. IndexOK'
  BY DEF IndexOK, IInv, UpdateState
<1>2. StateOK'
  BY DEF StateOK, UpdateState, Length
<1>3. WaitingOK'
  BY DEF WaitingOK, IInv, IndexOK, UpdateState, Ends
<1>. QED  BY <1>1, <1>2, <1>3 DEF IInv

\* A value is added to a pipe that is not full.
LEMMA OneMore ==
  ASSUME sndidx \in Nat, rcvidx \in Nat, sndidx' \in Nat, rcvidx' \in Nat, maxlength \in Nat,
         sndidx' - rcvidx' = sndidx - rcvidx + 1, maxlength' = maxlength,
         WithinLimit, Length # maxlength \/ maxlength = 0
  PROVE  WithinLimit'
<1>1. Length' = sndidx' - rcvidx'
  BY DEF Length
<1>2. Length' = Length + 1
  BY <1>1, Zenon DEF Length
<1>3. Length \in Int /\ maxlength \in Int
  BY DEF Length
<1>4. maxlength # 0 => Length' <= maxlength
  BY <1>2, <1>3 DEF WithinLimit
<1>. QED  BY <1>4 DEF WithinLimit

\* A value is taken away: indices s and r before, t and q after it.
LEMMA OneLess ==
  ASSUME NEW s \in Nat, NEW r \in Nat, NEW t \in Nat, NEW q \in Nat, NEW max \in Nat,
         t - q = s - (r + 1), s - r <= max
  PROVE  t - q <= max
OBVIOUS

\* What recompact does to the two indices.
LEMMA RecompactOK ==
  ASSUME NEW c, NEW r \in Nat, Recompact(c, r), sndidx \in Nat, 1 <= r, r <= sndidx
  PROVE  /\ sndidx' \in Nat /\ rcvidx' \in Nat /\ 1 <= rcvidx' /\ rcvidx' <= sndidx'
         /\ sndidx' - rcvidx' = sndidx - r
BY PipeAssumption, SMTT(30) DEF Recompact

\* A new pipe is empty and nobody waits.
LEMMA InitOK == PipeInit => IInv
<1>. SUFFICES ASSUME PipeInit PROVE IInv
  OBVIOUS
<1>1. IndexOK /\ WithinLimit
  BY PipeAssumption DEF PipeInit, IndexOK, WithinLimit, Length
<1>2. StateOK
  BY DEF PipeInit, StateOK, StateOf, Length
<1>3. WaitingOK
  BY DEF PipeInit, WaitingOK, Ends
<1>. QED  BY <1>1, <1>2, <1>3 DEF IInv

\* Every operation of the pipe preserves the inductive invariant.
LEMMA StepOK == IInv /\ [PipeNext]_pipeVars => IInv'
<1>. SUFFICES ASSUME IInv, [PipeNext]_pipeVars PROVE IInv'
  OBVIOUS
<1>1. ASSUME NEW r \in Readers, ReceiveWaits(r) PROVE IInv'
  BY <1>1, PipeAssumption
  DEF IInv, ReceiveWaits, Blocks, IndexOK, StateOK, WaitingOK, WithinLimit, Length, StateOf, Ends
<1>2. ASSUME NEW r \in Readers, ReceiveTakes(r) PROVE IInv'
  <2>1. rcvidx + 1 \in Nat /\ 1 <= rcvidx + 1 /\ rcvidx + 1 <= sndidx /\ sndidx \in Nat
    BY <1>2 DEF IInv, ReceiveTakes, IndexOK
  <2>2. /\ sndidx' \in Nat /\ rcvidx' \in Nat /\ 1 <= rcvidx' /\ rcvidx' <= sndidx'
        /\ sndidx' - rcvidx' = sndidx - (rcvidx + 1) /\ maxlength' = maxlength
    BY <1>2, <2>1, RecompactOK DEF ReceiveTakes
  <2>3. sndidx \in Nat /\ rcvidx \in Nat /\ maxlength \in Nat
    BY DEF IInv, IndexOK
  <2>4. WithinLimit'
    BY <2>2, <2>3, OneLess, Zenon DEF IInv, WithinLimit, Length
  <2>. QED  BY <1>2, <2>2, <2>4, UpdateStateOK DEF IInv, ReceiveTakes, IndexOK
<1>3. ASSUME NEW r \in Readers, PushBack(r) PROVE IInv'
  <2>1. Length # maxlength \/ maxlength = 0
    BY <1>3 DEF IInv, PushBack, StateOK, StateOf, Length, IndexOK
  <2>2. /\ sndidx' \in Nat /\ rcvidx' \in Nat /\ 1 <= rcvidx' /\ rcvidx' <= sndidx'
        /\ sndidx' - rcvidx' = sndidx - rcvidx + 1 /\ maxlength' = maxlength
    BY <1>3 DEF IInv, PushBack, IndexOK
  <2>3. sndidx \in Nat /\ rcvidx \in Nat /\ maxlength \in Nat
    BY DEF IInv, IndexOK
  <2>4. WithinLimit'
    BY <2>1, <2>2, <2>3, OneMore DEF IInv
  <2>. QED  BY <1>3, <2>2, <2>4, UpdateStateOK DEF IInv, PushBack, IndexOK
<1>4. ASSUME NEW w \in Writers, NEW x \in Values, SendWaits(w, x) PROVE IInv'
  BY <1>4, PipeAssumption
  DEF IInv, SendWaits, Blocks, IndexOK, StateOK, WaitingOK, WithinLimit, Length, StateOf, Ends
<1>5. ASSUME NEW w \in Writers, NEW x \in Values, SendPuts(w, x) PROVE IInv'
  <2>1. Length # maxlength \/ maxlength = 0
    BY <1>5 DEF IInv, SendPuts, StateOK, StateOf, Length, IndexOK
  <2>2. /\ sndidx' \in Nat /\ rcvidx' \in Nat /\ 1 <= rcvidx' /\ rcvidx' <= sndidx'
        /\ sndidx' - rcvidx' = sndidx - rcvidx + 1 /\ maxlength' = maxlength
    BY <1>5 DEF IInv, SendPuts, IndexOK
  <2>3. sndidx \in Nat /\ rcvidx \in Nat /\ maxlength \in Nat
    BY DEF IInv, IndexOK
  <2>4. WithinLimit'
    BY <2>1, <2>2, <2>3, OneMore DEF IInv
  <2>. QED  BY <1>5, <2>2, <2>4, UpdateStateOK DEF IInv, SendPuts, IndexOK
<1>6. ASSUME NEW t \in Ends, TimeOut(t) PROVE IInv'
  BY <1>6, PipeAssumption
  DEF IInv, TimeOut, IndexOK, StateOK, WaitingOK, WithinLimit, Length, StateOf, Ends
<1>7. ASSUME NEW m \in Limits, SetMaxLength(m) PROVE IInv'
  <2>1. WithinLimit' /\ maxlength' \in Nat
    BY <1>7, PipeAssumption DEF IInv, SetMaxLength, WithinLimit, Length, IndexOK
  <2>. QED  BY <1>7, <2>1, UpdateStateOK DEF IInv, SetMaxLength, IndexOK
<1>8. CASE Reset
  BY <1>8, UpdateStateOK DEF IInv, Reset, IndexOK, WithinLimit, Length
<1>9. CASE UNCHANGED pipeVars
  BY <1>9 DEF IInv, pipeVars, IndexOK, StateOK, WaitingOK, WithinLimit, Length
<1>. QED  BY <1>1, <1>2, <1>3, <1>4, <1>5, <1>6, <1>7, <1>8, <1>9 DEF PipeNext

\* The inductive invariant holds for ever.
LEMMA Inductive == PipeSpec => []IInv
BY InitOK, StepOK, PTL DEF PipeSpec

\* No task waits in receive() or send() for a signal that updatestate has
\* already sent, whatever the number of tasks and the limits.
THEOREM PipeNoLostSignal == PipeSpec => []NoLostSignal
<1>1. IInv => NoLostSignal
  BY DEF IInv, IndexOK, StateOK, WaitingOK, NoLostSignal, StateOf, Length, Ends
<1>. QED  BY <1>1, Inductive, PTL

\* The pipe never holds more than maxlength values, although the limit is
\* compared for equality only and changes while the pipe is in use.
THEOREM PipeWithinLimit == PipeSpec => []WithinLimit
BY Inductive, PTL DEF IInv

\* Both together: the safety of a pipe, for any tasks, limits and waste
\* parameters, with reset() at any time.
THEOREM PipeSafety == PipeSpec => []PipeSafe
BY PipeNoLostSignal, PipeWithinLimit, PTL DEF PipeSafe
-----------------------------------------------------------------------------
(***************************************************************************)
(* The pipe implements the FIFO queue of Fifo.  The step simulation needs  *)
(* that the cells reach exactly up to the place of the next value: then    *)
(* the part of content between the indices is the queue.                   *)
(***************************************************************************)
Cells == Values \cup {Nothing}

ContentOK == content \in Seq(Cells) /\ Len(content) = sndidx - 1 /\ received \in [Readers -> Cells]

Queue == [i \in 1 .. Length |-> Item(rcvidx + i - 1)]

\* Sequences with the same elements are the same.
LEMMA SameSequence ==
  ASSUME NEW S, NEW s \in Seq(S), NEW t \in Seq(S), Len(s) = Len(t), \A i \in 1 .. Len(s) : s[i] = t[i]
  PROVE  s = t
OBVIOUS

\* The queue is the part of content between the two indices.
QueueOK ==
  /\ Length \in Nat /\ Queue \in Seq(Cells) /\ Len(Queue) = Length
  /\ \A i \in 1 .. Length : Queue[i] = content[rcvidx + i - 1] /\ rcvidx + i - 1 \in 1 .. Len(content)

LEMMA QueueIs == IInv /\ ContentOK => QueueOK
<1>. SUFFICES ASSUME IInv, ContentOK PROVE QueueOK
  OBVIOUS
<1>1. Length \in Nat /\ Length = sndidx - rcvidx /\ rcvidx \in Nat /\ sndidx \in Nat /\ 1 <= rcvidx
  BY DEF IInv, IndexOK, Length
<1>2. \A i \in 1 .. Length : rcvidx + i - 1 \in 1 .. Len(content)
  BY <1>1 DEF ContentOK
<1>3. \A i \in 1 .. Length : Item(rcvidx + i - 1) = content[rcvidx + i - 1]
  BY <1>2 DEF Item, ContentOK
<1>4. \A i \in 1 .. Length : content[rcvidx + i - 1] \in Cells
  BY <1>2 DEF ContentOK
<1>5. Queue \in [1 .. Length -> Cells]
  BY <1>3, <1>4 DEF Queue
<1>6. Queue \in Seq(Cells) /\ Len(Queue) = Length
  BY <1>1, <1>5
<1>. QED  BY <1>1, <1>2, <1>3, <1>6, Zenon DEF Queue, QueueOK

\* The cells that recompact keeps: from r on they are those of c.
LEMMA RecompactKeeps ==
  ASSUME NEW c \in Seq(Cells), NEW r \in Nat, Recompact(c, r), sndidx \in Nat, 1 <= r, r <= sndidx,
         Len(c) = sndidx - 1
  PROVE  /\ content' \in Seq(Cells) /\ Len(content') = sndidx' - 1
         /\ \A i \in 1 .. sndidx - r : content'[rcvidx' + i - 1] = c[r + i - 1]
<1>1. CASE content' = c /\ rcvidx' = r /\ sndidx' = sndidx
  BY <1>1
<1>2. CASE content' = SubSeq(c, r, Len(c)) /\ rcvidx' = 1 /\ sndidx' = sndidx - r + 1
  <2>1. \A i \in r .. Len(c) : i \in 1 .. Len(c)
    OBVIOUS
  <2>2. Len(content') = sndidx - r
    BY <1>2
  <2>3. \A i \in 1 .. sndidx - r : content'[i] = c[r + i - 1] /\ r + i - 1 \in 1 .. Len(c)
    BY <1>2
  <2>4. content' \in Seq(Cells)
    BY <1>2
  <2>. QED  BY <1>2, <2>2, <2>3, <2>4
<1>. QED  BY <1>1, <1>2 DEF Recompact
\* After a step the same holds.
LEMMA QueueIsNext == IInv' /\ ContentOK' => QueueOK'
BY QueueIs, PTL

\* receive() takes the first value of the queue.
LEMMA TakesFirst ==
  ASSUME IInv, IInv', ContentOK, NEW r \in Readers, ReceiveTakes(r)
  PROVE  /\ ContentOK' /\ Queue # << >> /\ Queue' = Tail(Queue)
         /\ received' = [received EXCEPT ![r] = Head(Queue)] /\ UNCHANGED <<maxlength, dumped>>
<1>. DEFINE c == [content EXCEPT ![rcvidx] = Nothing]
<1>1. /\ sndidx \in Nat /\ rcvidx \in Nat /\ 1 <= rcvidx /\ rcvidx + 1 <= sndidx /\ rcvidx \in 1 .. Len(content)
      /\ rcvidx + 1 \in Nat /\ 1 <= rcvidx + 1
  BY DEF IInv, IndexOK, ReceiveTakes, ContentOK
<1>2. /\ c \in Seq(Cells) /\ Len(c) = sndidx - 1
      /\ \A i \in 1 .. Len(content) : i # rcvidx => c[i] = content[i]
  BY <1>1 DEF ContentOK, Cells
<1>3. Recompact(c, rcvidx + 1)
  BY DEF ReceiveTakes
<1>. HIDE DEF c
<1>4. /\ content' \in Seq(Cells) /\ Len(content') = sndidx' - 1
      /\ \A i \in 1 .. sndidx - (rcvidx + 1) : content'[rcvidx' + i - 1] = c[(rcvidx + 1) + i - 1]
  BY <1>1, <1>2, <1>3, RecompactKeeps, Zenon
<1>5. sndidx' - rcvidx' = sndidx - (rcvidx + 1)
  BY <1>1, <1>3, RecompactOK
<1>6. ContentOK'
  <2>1. content[rcvidx] \in Cells /\ received' = [received EXCEPT ![r] = content[rcvidx]]
    BY <1>1 DEF ContentOK, ReceiveTakes
  <2>. QED  BY <1>4, <2>1 DEF ContentOK
<1>7. QueueOK /\ QueueOK'
  BY <1>6, QueueIs, QueueIsNext
<1>8. Length = sndidx - rcvidx /\ Length' = Length - 1 /\ Length > 0 /\ 1 \in 1 .. Length
  BY <1>1, <1>5 DEF Length
<1>9. Queue \in Seq(Cells) /\ Len(Queue) = Length /\ Queue # << >> /\ Queue[1] = content[rcvidx]
  BY <1>1, <1>7, <1>8 DEF QueueOK
<1>10. Head(Queue) = content[rcvidx] /\ Tail(Queue) \in Seq(Cells) /\ Len(Tail(Queue)) = Length - 1
       /\ \A i \in 1 .. Length - 1 : Tail(Queue)[i] = Queue[i + 1]
  BY <1>8, <1>9
<1>11. \A i \in 1 .. Length - 1 : Queue'[i] = Tail(Queue)[i]
  <2>. SUFFICES ASSUME NEW i \in 1 .. Length - 1 PROVE Queue'[i] = Queue[i + 1]
    BY <1>10
  <2>1. Queue'[i] = content'[rcvidx' + i - 1]
    BY <1>7, <1>8 DEF QueueOK
  <2>2. content'[rcvidx' + i - 1] = c[rcvidx + i]
    <3>1. i \in 1 .. sndidx - (rcvidx + 1) /\ (rcvidx + 1) + i - 1 = rcvidx + i
      BY <1>1, <1>8
    <3>. QED  BY <1>4, <3>1
  <2>3. i + 1 \in 1 .. Length /\ rcvidx + (i + 1) - 1 = rcvidx + i /\ rcvidx + i # rcvidx
    BY <1>1, <1>7 DEF QueueOK
  <2>4. Queue[i + 1] = content[rcvidx + i] /\ rcvidx + i \in 1 .. Len(content)
    BY <1>7, <2>3 DEF QueueOK
  <2>. QED  BY <1>2, <2>1, <2>2, <2>3, <2>4
<1>12. Queue' = Tail(Queue)
  BY <1>7, <1>8, <1>10, <1>11, SameSequence, Zenon DEF QueueOK
<1>. QED  BY <1>6, <1>9, <1>10, <1>12, Zenon DEF ReceiveTakes

\* send() puts its value behind the others.
LEMMA PutsLast ==
  ASSUME IInv, IInv', ContentOK, NEW w \in Writers, NEW x \in Values, SendPuts(w, x)
  PROVE  ContentOK' /\ Queue' = Append(Queue, x) /\ UNCHANGED <<maxlength, received, dumped>>
<1>1. /\ sndidx \in Nat /\ rcvidx \in Nat /\ 1 <= rcvidx /\ rcvidx <= sndidx
      /\ sndidx' = sndidx + 1 /\ rcvidx' = rcvidx /\ x \in Cells
  BY DEF IInv, IndexOK, SendPuts, Cells
<1>2. content' = [i \in 1 .. sndidx |-> IF i < sndidx THEN content[i] ELSE x]
  BY DEF SendPuts
<1>3. \A i \in 1 .. sndidx : i < sndidx => i \in 1 .. Len(content) /\ content[i] \in Cells
  BY <1>1 DEF ContentOK
<1>4. content' \in Seq(Cells) /\ Len(content') = sndidx
  <2>1. content' \in [1 .. sndidx -> Cells]
    BY <1>1, <1>2, <1>3
  <2>. QED  BY <1>1, <2>1
<1>5. ContentOK'
  BY <1>1, <1>4 DEF ContentOK, SendPuts
<1>6. QueueOK /\ QueueOK'
  BY <1>5, QueueIs, QueueIsNext
<1>7. Length \in Nat /\ Length = sndidx - rcvidx /\ Length' = Length + 1
  BY <1>1, <1>6 DEF Length, QueueOK
<1>8. /\ Append(Queue, x) \in Seq(Cells) /\ Len(Append(Queue, x)) = Length + 1
      /\ Append(Queue, x)[Length + 1] = x /\ \A i \in 1 .. Length : Append(Queue, x)[i] = Queue[i]
  BY <1>1, <1>6 DEF QueueOK
<1>9. ASSUME NEW i \in 1 .. Length + 1 PROVE Queue'[i] = Append(Queue, x)[i]
  <2>1. Queue'[i] = content'[rcvidx + i - 1] /\ rcvidx + i - 1 \in 1 .. sndidx
    BY <1>1, <1>4, <1>6, <1>7 DEF QueueOK
  <2>2. CASE i = Length + 1
    <3>1. rcvidx + i - 1 = sndidx
      BY <1>1, <1>7, <2>2
    <3>. QED  BY <1>1, <1>2, <1>8, <2>1, <2>2, <3>1
  <2>3. CASE i \in 1 .. Length
    <3>1. rcvidx + i - 1 < sndidx
      BY <1>1, <1>7, <2>3
    <3>2. Queue[i] = content[rcvidx + i - 1]
      BY <1>6, <2>3 DEF QueueOK
    <3>3. content'[rcvidx + i - 1] = content[rcvidx + i - 1]
      <4>1. rcvidx + i - 1 \in 1 .. sndidx
        BY <2>1
      <4>. QED  BY <1>2, <3>1, <4>1
    <3>4. Append(Queue, x)[i] = Queue[i]
      BY <1>8, <2>3, Zenon
    <3>. QED  BY <2>1, <3>2, <3>3, <3>4, Zenon
  <2>4. \A n \in Nat : \A k \in 1 .. n + 1 : k = n + 1 \/ k \in 1 .. n
    OBVIOUS
  <2>. QED  BY <1>7, <2>2, <2>3, <2>4, Zenon
<1>10. Queue' = Append(Queue, x)
  BY <1>6, <1>7, <1>8, <1>9, SameSequence DEF QueueOK
<1>. QED  BY <1>5, <1>10 DEF SendPuts

\* pushback() puts its value before the others, in a new cell or in a wasted one.
LEMMA PutsFirst ==
  ASSUME IInv, IInv', ContentOK, NEW r \in Readers, PushBack(r)
  PROVE  /\ ContentOK' /\ Queue' = <<received[r]>> \o Queue
         /\ received' = [received EXCEPT ![r] = Nothing] /\ UNCHANGED <<maxlength, dumped>>
<1>1. /\ sndidx \in Nat /\ rcvidx \in Nat /\ 1 <= rcvidx /\ rcvidx <= sndidx /\ received[r] \in Cells
      /\ content \in Seq(Cells) /\ Len(content) = sndidx - 1
  BY DEF IInv, IndexOK, ContentOK
<1>2. /\ content' \in Seq(Cells) /\ Len(content') = sndidx' - 1 /\ sndidx' - rcvidx' = sndidx - rcvidx + 1
      /\ content'[rcvidx'] = received[r]
      /\ \A i \in 1 .. sndidx - rcvidx : content'[rcvidx' + i] = content[rcvidx + i - 1]
  <2>1. CASE rcvidx = 1
    <3>1. content' = <<received[r]>> \o content /\ sndidx' = sndidx + 1 /\ rcvidx' = 1
      BY <2>1 DEF PushBack
    <3>2. /\ <<received[r]>> \in Seq(Cells) /\ Len(<<received[r]>>) = 1
          /\ content' \in Seq(Cells) /\ Len(content') = Len(content) + 1
          /\ content'[1] = received[r] /\ \A i \in 1 .. Len(content) : content'[1 + i] = content[i]
      BY <1>1, <3>1
    <3>. QED  BY <1>1, <2>1, <3>1, <3>2
  <2>2. CASE rcvidx # 1
    <3>1. content' = [content EXCEPT ![rcvidx - 1] = received[r]] /\ rcvidx' = rcvidx - 1 /\ sndidx' = sndidx
      BY <2>2 DEF PushBack
    <3>2. rcvidx - 1 \in 1 .. Len(content)
      BY <1>1, <2>2
    <3>3. /\ content' \in Seq(Cells) /\ Len(content') = Len(content) /\ content'[rcvidx - 1] = received[r]
          /\ \A i \in 1 .. Len(content) : i # rcvidx - 1 => content'[i] = content[i]
      BY <1>1, <3>1, <3>2
    <3>4. \A i \in 1 .. sndidx - rcvidx :
            rcvidx + i - 1 \in 1 .. Len(content) /\ rcvidx + i - 1 # rcvidx - 1 /\ (rcvidx - 1) + i = rcvidx + i - 1
      BY <1>1
    <3>. QED  BY <1>1, <3>1, <3>3, <3>4
  <2>. QED  BY <2>1, <2>2
<1>3. ContentOK'
  <2>1. received' = [received EXCEPT ![r] = Nothing] /\ Nothing \in Cells
    BY DEF PushBack, Cells
  <2>. QED  BY <1>2, <2>1 DEF ContentOK
<1>4. QueueOK /\ QueueOK'
  BY <1>3, QueueIs, QueueIsNext
<1>5. Length \in Nat /\ Length = sndidx - rcvidx /\ Length' = Length + 1
  <2>1. Length \in Nat /\ Length = sndidx - rcvidx /\ Length' = sndidx' - rcvidx'
    BY <1>4, Zenon DEF Length, QueueOK
  <2>. QED  BY <1>2, <2>1, Zenon
<1>0. rcvidx' \in Nat
  BY DEF IInv, IndexOK
<1>6. /\ <<received[r]>> \in Seq(Cells) /\ Len(<<received[r]>>) = 1
      /\ <<received[r]>> \o Queue \in Seq(Cells) /\ Len(<<received[r]>> \o Queue) = Length + 1
      /\ (<<received[r]>> \o Queue)[1] = received[r]
      /\ \A i \in 1 .. Length : (<<received[r]>> \o Queue)[i + 1] = Queue[i]
  BY <1>1, <1>4 DEF QueueOK
<1>7. ASSUME NEW i \in 1 .. Length + 1 PROVE Queue'[i] = (<<received[r]>> \o Queue)[i]
  <2>1. Queue'[i] = content'[rcvidx' + i - 1]
    BY <1>4, <1>5 DEF QueueOK
  <2>2. CASE i = 1
    <3>1. rcvidx' + i - 1 = rcvidx'
      <4>1. \A n \in Nat : n + 1 - 1 = n
        OBVIOUS
      <4>. QED  BY <1>0, <2>2, <4>1, Zenon
    <3>. QED  BY <1>2, <1>6, <2>1, <2>2, <3>1
  <2>3. CASE i # 1
    <3>1. i - 1 \in 1 .. Length /\ (i - 1) + 1 = i /\ rcvidx' + i - 1 = rcvidx' + (i - 1)
      <4>1. Length \in Nat
        BY <1>5, Zenon
      <4>. QED  BY <1>0, <2>3, <4>1
    <3>2. content'[rcvidx' + (i - 1)] = content[rcvidx + (i - 1) - 1]
      BY <1>2, <1>5, <3>1
    <3>3. Queue[i - 1] = content[rcvidx + (i - 1) - 1]
      BY <1>4, <3>1 DEF QueueOK
    <3>. QED  BY <1>6, <2>1, <3>1, <3>2, <3>3
  <2>. QED  BY <2>2, <2>3, Zenon
<1>8. Queue' = <<received[r]>> \o Queue
  BY <1>4, <1>5, <1>6, <1>7, SameSequence DEF QueueOK
<1>. QED  BY <1>3, <1>8 DEF PushBack

\* What does not touch the cells and the indices does not touch the queue.
LEMMA SameQueue ==
  ASSUME UNCHANGED <<content, sndidx, rcvidx>>
  PROVE  Queue' = Queue /\ (ContentOK /\ UNCHANGED received => ContentOK')
BY DEF Queue, Item, Length, ContentOK
-----------------------------------------------------------------------------
FInv == IInv /\ ContentOK

LEMMA InitFInv == PipeInit => FInv
<1>. SUFFICES ASSUME PipeInit PROVE FInv
  OBVIOUS
<1>1. content \in Seq(Cells) /\ Len(content) = sndidx - 1 /\ received \in [Readers -> Cells]
  BY DEF PipeInit, Cells
<1>. QED  BY <1>1, InitOK DEF FInv, ContentOK

\* A step of the abstract queue, or none of its variables changes.
Simulated == [Abstract!Next]_(Abstract!vars)

LEMMA StutterIs ==
  ASSUME Queue' = Queue, UNCHANGED <<maxlength, received, dumped>>
  PROVE  Simulated
BY DEF Simulated, Abstract!vars, Queue

\* Full is what updatestate calls "full".
LEMMA FullIs ==
  ASSUME FInv, state # "full"
  PROVE  ~ Abstract!Full
<1>1. Length \in Nat /\ Len(Queue) = Length /\ maxlength \in Nat
  BY QueueIs DEF FInv, QueueOK, IInv, IndexOK
<1>2. ~ (Queue # << >> /\ Len(Queue) = maxlength)
  <2>1. Length # 0 => Length # maxlength
    BY DEF FInv, IInv, StateOK, StateOf
  <2>2. Length = 0 => Queue = << >>
    BY <1>1, QueueIs DEF FInv, QueueOK
  <2>. QED  BY <1>1, <2>1, <2>2
<1>. QED  BY <1>2, Zenon DEF Abstract!Full, Queue

\* Each operation of the pipe is one of the queue, or leaves it alone, unless
\* reset() is called on a used pipe.
LEMMA StepSimulates == FInv /\ [PipeNext]_pipeVars => ContentOK' /\ (Simulated \/ upset')
<1>. SUFFICES ASSUME FInv, [PipeNext]_pipeVars PROVE ContentOK' /\ (Simulated \/ upset')
  OBVIOUS
<1>0. IInv /\ ContentOK /\ IInv'
  BY StepOK DEF FInv
<1>1. ASSUME NEW r \in Readers, ReceiveWaits(r) PROVE ContentOK' /\ Simulated
  <2>1. UNCHANGED <<content, sndidx, rcvidx>> /\ UNCHANGED <<maxlength, received, dumped>>
    BY <1>1 DEF ReceiveWaits, Blocks
  <2>. QED  BY <1>0, <2>1, SameQueue, StutterIs
<1>2. ASSUME NEW r \in Readers, ReceiveTakes(r) PROVE ContentOK' /\ Simulated
  <2>1. /\ ContentOK' /\ Queue # << >> /\ Queue' = Tail(Queue)
        /\ received' = [received EXCEPT ![r] = Head(Queue)] /\ UNCHANGED <<maxlength, dumped>>
    BY <1>0, <1>2, TakesFirst
  <2>2. Abstract!Take(r)
    BY <2>1, Zenon DEF Abstract!Take, Queue
  <2>. QED  BY <2>1, <2>2 DEF Simulated, Abstract!Next
<1>3. ASSUME NEW r \in Readers, PushBack(r) PROVE ContentOK' /\ Simulated
  <2>1. /\ ContentOK' /\ Queue' = <<received[r]>> \o Queue
        /\ received' = [received EXCEPT ![r] = Nothing] /\ UNCHANGED <<maxlength, dumped>>
    BY <1>0, <1>3, PutsFirst
  <2>2. ~ Abstract!Full /\ received[r] # Nothing
    BY <1>3, FullIs DEF PushBack
  <2>3. Abstract!PutBack(r)
    BY <2>1, <2>2, Zenon DEF Abstract!PutBack, Queue
  <2>. QED  BY <2>1, <2>3 DEF Simulated, Abstract!Next
<1>4. ASSUME NEW w \in Writers, NEW x \in Values, SendWaits(w, x) PROVE ContentOK' /\ Simulated
  <2>1. UNCHANGED <<content, sndidx, rcvidx>> /\ UNCHANGED <<maxlength, received, dumped>>
    BY <1>4 DEF SendWaits, Blocks
  <2>. QED  BY <1>0, <2>1, SameQueue, StutterIs
<1>5. ASSUME NEW w \in Writers, NEW x \in Values, SendPuts(w, x) PROVE ContentOK' /\ Simulated
  <2>1. ContentOK' /\ Queue' = Append(Queue, x) /\ UNCHANGED <<maxlength, received, dumped>>
    BY <1>0, <1>5, PutsLast
  <2>2. ~ Abstract!Full
    BY <1>5, FullIs DEF SendPuts
  <2>3. Abstract!Put(x)
    BY <2>1, <2>2, Zenon DEF Abstract!Put, Queue
  <2>. QED  BY <2>1, <2>3 DEF Simulated, Abstract!Next
<1>6. ASSUME NEW t \in Ends, TimeOut(t) PROVE ContentOK' /\ Simulated
  <2>1. UNCHANGED <<content, sndidx, rcvidx>> /\ UNCHANGED <<maxlength, received, dumped>>
    BY <1>6 DEF TimeOut
  <2>. QED  BY <1>0, <2>1, SameQueue, StutterIs
<1>7. ASSUME NEW m \in Limits, SetMaxLength(m) PROVE ContentOK' /\ Simulated
  <2>1. /\ UNCHANGED <<content, sndidx, rcvidx>> /\ UNCHANGED <<received, dumped>>
        /\ maxlength' = m /\ Length <= m
    BY <1>7 DEF SetMaxLength
  <2>2. ContentOK' /\ Queue' = Queue /\ Len(Queue) <= m
    BY <1>0, <2>1, SameQueue, QueueIs DEF QueueOK
  <2>3. Abstract!SetLimit(m)
    BY <2>1, <2>2, Zenon DEF Abstract!SetLimit, Queue
  <2>. QED  BY <2>2, <2>3 DEF Simulated, Abstract!Next
<1>8. CASE Reset
  <2>1. /\ dumped' = content /\ content' = [i \in DOMAIN content |-> Nothing]
        /\ UNCHANGED <<sndidx, rcvidx, maxlength>> /\ UNCHANGED received /\ upset' = (upset \/ sndidx # 1)
    BY <1>8 DEF Reset
  <2>2. content \in Seq(Cells) /\ Len(content) = sndidx - 1 /\ Nothing \in Cells
    BY <1>0 DEF ContentOK, Cells
  <2>3. content' \in Seq(Cells) /\ Len(content') = Len(content)
    <3>1. content' \in [1 .. Len(content) -> Cells] /\ Len(content) \in Nat
      BY <2>1, <2>2
    <3>. QED  BY <3>1
  <2>4. ContentOK'
    BY <1>0, <2>1, <2>2, <2>3 DEF ContentOK
  <2>5. CASE sndidx = 1
    <3>1. Length = 0 /\ Length' = 0
      BY <1>0, <2>1, <2>5 DEF Length, IInv, IndexOK
    <3>2. Queue = << >> /\ Queue' = << >> /\ content = << >>
      BY <1>0, <2>2, <2>4, <2>5, <3>1, QueueIs, QueueIsNext DEF QueueOK
    <3>3. Abstract!Empty
      BY <2>1, <3>2 DEF Abstract!Empty, Queue
    <3>. QED  BY <2>4, <3>3 DEF Simulated, Abstract!Next
  <2>. QED  BY <2>1, <2>4, <2>5, Zenon
<1>9. CASE UNCHANGED pipeVars
  <2>1. UNCHANGED <<content, sndidx, rcvidx>> /\ UNCHANGED <<maxlength, received, dumped>>
    BY <1>9 DEF pipeVars
  <2>. QED  BY <1>0, <2>1, SameQueue, StutterIs
<1>. QED  BY <1>1, <1>2, <1>3, <1>4, <1>5, <1>6, <1>7, <1>8, <1>9 DEF PipeNext

\* Until reset() is called on a used pipe, every behaviour of the pipe, with its
\* wasted cells, recompact, pushback and changes of the limit, is a behaviour of
\* the FIFO queue, for any tasks, limits and waste parameters.
THEOREM PipeIsFifo == PipeSpec => FifoSpec
<1>1. PipeInit => Abstract!Init
  <2>. SUFFICES ASSUME PipeInit PROVE Abstract!Init
    OBVIOUS
  <2>1. Queue = << >>
    <3>1. FInv /\ Length = 0
      BY InitFInv DEF PipeInit, Length
    <3>. QED  BY <3>1, QueueIs DEF FInv, QueueOK
  <2>. QED  BY <2>1 DEF PipeInit, Abstract!Init, Queue
<1>2. FInv /\ [PipeNext]_pipeVars => FInv'
  BY StepOK, StepSimulates DEF FInv
<1>3. FInv /\ [PipeNext]_pipeVars => [[Abstract!Next]_(Abstract!vars) \/ upset']_pipeVars
  BY StepSimulates DEF Simulated
<1>. QED  BY <1>1, <1>2, <1>3, InitFInv, PTL DEF PipeSpec, FifoSpec
=============================================================================
