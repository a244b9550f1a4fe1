-------------------------------- MODULE Pipe --------------------------------
(***************************************************************************)
(* The pipes of the scheduler (luafwk/sched/pipe.lua).  Tasks that find    *)
(* the pipe empty or full wait for its "state" signal, which is sent only  *)
(* when the state changes.  A task runs alone between two calls of wait(). *)
(* The cells of content are collected when enough of them are wasted.      *)
(***************************************************************************)
EXTENDS Integers, Sequences

CONSTANTS Readers, Writers,
          Limits,      \* values of maxlength; 0 stands for nil, no limit
          WasteAbs, WasteProp,   \* wasteabs and wasteprop
          MaxSend,     \* bound: values sent
          MaxTune,     \* bound: calls of setmaxlength, pushback and reset
          Nothing      \* no value

ASSUME PipeAssumption ==
  /\ Limits \subseteq Nat /\ {WasteAbs, WasteProp, MaxSend, MaxTune} \subseteq Nat
  /\ Readers \cap Writers = {}
  /\ Nothing \notin Nat

Ends == Readers \cup Writers
Values == 1 .. MaxSend

VARIABLES content, sndidx, rcvidx, maxlength, state,
          at,      \* of each task: "idle", "waiting" in wait(), or "woken"
          val,     \* the value a writer is sending
          received,     \* the value a reader has received last
          dumped,  \* what the last reset() has returned
          upset,   \* reset() was called on a pipe that had been used
          sent, tuned   \* values sent; calls of setmaxlength, pushback and reset

pipeVars == <<content, sndidx, rcvidx, maxlength, state, at, val, received, dumped, upset, sent, tuned>>

Length == sndidx - rcvidx

StateOf(n, max) == CASE n = 0 -> "empty" [] n # 0 /\ n = max -> "full" [] OTHER -> "ready"

PipeInit ==
  /\ content = << >> /\ sndidx = 1 /\ rcvidx = 1
  /\ maxlength \in Limits /\ state = "empty"
  /\ at = [t \in Ends |-> "idle"]
  /\ val = [t \in Writers |-> Nothing] /\ received = [t \in Readers |-> Nothing]
  /\ dumped = << >> /\ upset = FALSE /\ sent = 0 /\ tuned = 0

\* Mutant: the cell that was consumed is kept.
RecompactEarly(c, r) ==
  LET wasted == r - 1
      used == sndidx - r
  IN  IF wasted <= WasteAbs \/ wasted <= WasteProp * used
      THEN content' = c /\ rcvidx' = r /\ sndidx' = sndidx
      ELSE content' = SubSeq(c, wasted, Len(c)) /\ rcvidx' = 1 /\ sndidx' = used + 1

\* updatestate: the signal wakes every task that waits; self goes on to "idle".
UpdateState(self) ==
  /\ state' = StateOf(sndidx' - rcvidx', maxlength')
  /\ at' = [t \in Ends |-> CASE t = self -> "idle"
                              [] t # self /\ at[t] = "waiting" /\ state' # state -> "woken"
                              [] OTHER -> at[t]]

\* recompact, once the cell before r is consumed.
Recompact(c, r) ==
  LET wasted == r - 1
      used == sndidx - r
  IN  IF wasted <= WasteAbs \/ wasted <= WasteProp * used
      THEN content' = c /\ rcvidx' = r /\ sndidx' = sndidx
      ELSE content' = SubSeq(c, r, Len(c)) /\ rcvidx' = 1 /\ sndidx' = used + 1

(* receive                                                                 *)

Blocks(t, why) ==
  /\ at[t] \in {"idle", "woken"} /\ why
  /\ at' = [at EXCEPT ![t] = "waiting"]
  /\ UNCHANGED <<content, sndidx, rcvidx, maxlength, state, received, dumped, upset, tuned>>

ReceiveWaits(r) == Blocks(r, rcvidx = sndidx) /\ UNCHANGED <<val, sent>>

ReceiveTakes(r) ==
  /\ at[r] \in {"idle", "woken"} /\ rcvidx # sndidx
  /\ received' = [received EXCEPT ![r] = content[rcvidx]]
  /\ Recompact([content EXCEPT ![rcvidx] = Nothing], rcvidx + 1)
  /\ UNCHANGED maxlength
  /\ UpdateState(r)
  /\ UNCHANGED <<val, dumped, upset, sent, tuned>>

(* send                                                                    *)

\* The value a call of send() has as its argument, also when it is resumed.
Sending(w, x) ==
  \/ at[w] = "idle" /\ sent < MaxSend /\ x = sent + 1 /\ sent' = sent + 1
  \/ at[w] = "woken" /\ x = val[w] /\ UNCHANGED sent

SendWaits(w, x) ==
  /\ Sending(w, x)
  /\ Blocks(w, state = "full") /\ val' = [val EXCEPT ![w] = x]

SendPuts(w, x) ==
  /\ Sending(w, x) /\ state # "full"
  /\ content' = [i \in 1 .. sndidx |-> IF i < sndidx THEN content[i] ELSE x]
  /\ sndidx' = sndidx + 1 /\ UNCHANGED <<rcvidx, maxlength>>
  /\ UpdateState(w)
  /\ val' = [val EXCEPT ![w] = Nothing]
  /\ UNCHANGED <<received, dumped, upset, tuned>>

\* The delay is over before the state changes, or before the task runs again.
TimeOut(t) ==
  /\ \/ at[t] = "waiting"
     \/ at[t] = "woken" /\ IF t \in Readers THEN rcvidx = sndidx ELSE state = "full"
  /\ at' = [at EXCEPT ![t] = "idle"]
  /\ val' = IF t \in Writers THEN [val EXCEPT ![t] = Nothing] ELSE val
  /\ UNCHANGED <<content, sndidx, rcvidx, maxlength, state, received, dumped, upset, sent, tuned>>

(* pushback, setmaxlength, reset                                           *)

Tune == tuned < MaxTune /\ tuned' = tuned + 1

\* Mutant of SetMaxLength: the new limit is not signalled.
SetMaxLengthSilent(m) ==
  /\ m # 0 /\ Length <= m /\ Tune
  /\ maxlength' = m
  /\ UNCHANGED <<content, sndidx, rcvidx, state, at, val, received, dumped, upset, sent>>

\* A reader pushes back what it has just received.
PushBack(r) ==
  /\ at[r] = "idle" /\ received[r] # Nothing /\ state # "full" /\ Tune
  /\ IF rcvidx = 1
     THEN content' = <<received[r]>> \o content /\ sndidx' = sndidx + 1 /\ UNCHANGED rcvidx
     ELSE content' = [content EXCEPT ![rcvidx - 1] = received[r]]
          /\ rcvidx' = rcvidx - 1 /\ UNCHANGED sndidx
  /\ received' = [received EXCEPT ![r] = Nothing]
  /\ UNCHANGED maxlength
  /\ UpdateState(r)
  /\ UNCHANGED <<val, dumped, upset, sent>>

SetMaxLength(m) ==
  /\ m # 0 /\ Length <= m /\ Tune
  /\ maxlength' = m
  /\ UNCHANGED <<content, sndidx, rcvidx>>
  /\ UpdateState(Nothing)
  /\ UNCHANGED <<val, received, dumped, upset, sent>>

\* reset leaves the indices: what comes after it on a used pipe is upset.
Reset ==
  /\ Tune
  /\ dumped' = content /\ content' = [i \in DOMAIN content |-> Nothing]
  /\ UNCHANGED <<sndidx, rcvidx, maxlength>>
  /\ UpdateState(Nothing)
  /\ upset' = (upset \/ sndidx # 1)
  /\ UNCHANGED <<val, received, sent>>

PipeNext ==
  \/ \E r \in Readers : ReceiveWaits(r) \/ ReceiveTakes(r) \/ PushBack(r)
  \/ \E w \in Writers : \E x \in Values : SendWaits(w, x) \/ SendPuts(w, x)
  \/ \E t \in Ends : TimeOut(t)
  \/ \E m \in Limits : SetMaxLength(m)
  \/ Reset

PipeSpec == PipeInit /\ [][PipeNext]_pipeVars

\* Mutant of Resent: a writer that was woken goes on only if the pipe is full.
ResentFull(w) == at[w] = "woken" /\ \E x \in Values : SendWaits(w, x)

\* A writer that was woken looks again whether there is room.
Resent(w) == at[w] = "woken" /\ \E x \in Values : SendWaits(w, x) \/ SendPuts(w, x)

\* Readers call receive() again and again without a delay, and the scheduler
\* runs the tasks that are ready.
PipeFairness ==
  /\ \A r \in Readers : WF_pipeVars(ReceiveTakes(r) \/ ReceiveWaits(r))
  /\ \A w \in Writers : WF_pipeVars(Resent(w))

PipeFairSpec == PipeSpec /\ PipeFairness

-----------------------------------------------------------------------------
PipeTypeOK ==
  /\ content \in Seq(Values \cup {Nothing}) /\ dumped \in Seq(Values \cup {Nothing})
  /\ sndidx \in Nat \ {0} /\ rcvidx \in 1 .. sndidx
  /\ maxlength \in Limits /\ state \in {"empty", "ready", "full"}
  /\ at \in [Ends -> {"idle", "waiting", "woken"}]
  /\ val \in [Writers -> Values \cup {Nothing}] /\ received \in [Readers -> Values \cup {Nothing}]
  /\ upset \in BOOLEAN /\ sent \in 0 .. MaxSend /\ tuned \in 0 .. MaxTune

\* No task waits for a signal that has already been sent: a reader waits only
\* while the pipe is empty, a writer only while it is full (updatestate signals
\* changes of the state, not values).
NoLostSignal ==
  /\ \A r \in Readers : at[r] = "waiting" => Length = 0
  /\ \A w \in Writers : at[w] = "waiting" => Length = maxlength

\* The pipe never holds more than maxlength values.
WithinLimit == maxlength # 0 => Length <= maxlength

\* At any time, resets included: no task waits for a signal that is gone, and no
\* change of the limit leaves more in the pipe than it allows (updatestate).
PipeSafe == NoLostSignal /\ WithinLimit

Item(i) == IF i \in DOMAIN content THEN content[i] ELSE Nothing
Abstract == INSTANCE Fifo WITH
              queue <- [i \in 1 .. Length |-> Item(rcvidx + i - 1)], limit <- maxlength

\* The pipe behaves as a FIFO queue until reset() is called on a used pipe: cells
\* that are consumed, recompacted or written again by pushback never show.
FifoSpec == Abstract!Init /\ [][[Abstract!Next]_(Abstract!vars) \/ upset']_pipeVars

\* A value in the pipe is received, and a task does not stay in send() for ever,
\* whoever else sends and receives, although only changes of the state are
\* signalled (updatestate).
SentIsReceived ==
  /\ \A x \in Values :
       (\E i \in rcvidx .. sndidx - 1 : Item(i) = x) ~> (\E r \in Readers : received[r] = x) \/ upset
  /\ \A w \in Writers : val[w] # Nothing ~> val[w] = Nothing
=============================================================================
