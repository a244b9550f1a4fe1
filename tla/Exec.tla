-------------------------------- MODULE Exec --------------------------------
(***************************************************************************)
(* POSIX signals in the main loop (luafwk/sched/lposixsignal.c) and the    *)
(* patched os.execute, which waits for SIGCHLD (luafwk/sched/exec.lua).    *)
(* The handler runs at any time at which signals are not blocked and only  *)
(* fills a ring buffer; l_select blocks signals, turns the buffer into     *)
(* scheduler signals, and lets pselect unblock them while it sleeps.       *)
(***************************************************************************)
EXTENDS Integers, Sequences, FiniteSets

CONSTANTS Tasks,      \* tasks that call os.execute
          Others,     \* other signals that have the handler, e.g. "SIGTERM"
          MaxSignals, \* MAX_SIGNALS
          MaxRuns,    \* bound: commands of a task
          MaxOther,   \* bound: other signals
          None

ASSUME ExecAssumption == MaxSignals \in Nat \ {0} /\ None \notin Tasks

VARIABLES lastI, nSig, sigs,  \* sigBuffer
          handler,   \* signals that have the handler
          pending,   \* signals blocked by the mask
          phase,     \* of the main loop: "timers", "tasks", "blocked" in l_select, "pselect"
          running,   \* the task that is running, or None
          pc,        \* of each task
          child,     \* the process of each task: "none", "runs" or "zombie"
          runs, others,
          taken,     \* signals handled and not yet given to the scheduler
          unheard    \* tasks whose process ended without a SIGCHLD in the buffer

vars == <<lastI, nSig, sigs, handler, pending, phase, running, pc, child, runs, others, taken, unheard>>
buffer == <<lastI, nSig, sigs, taken, unheard>>

Init ==
  /\ lastI = -1 /\ nSig = 0 /\ sigs = [i \in 0 .. MaxSignals - 1 |-> None]
  /\ handler = Others
  /\ pending = {} /\ phase = "timers" /\ running = None
  /\ pc = [t \in Tasks |-> "idle"] /\ child = [t \in Tasks |-> "none"]
  /\ runs = [t \in Tasks |-> 0] /\ others = 0 /\ taken = << >> /\ unheard = {}

-----------------------------------------------------------------------------
\* s is among the signals step() has yet to read.
InRing(s) == \E k \in 0 .. nSig - 1 : taken[Len(taken) - k] = s

\* Zombies, when the last SIGCHLD is overwritten by a signal: the buffer is full.
Overwritten ==
  IF nSig = MaxSignals /\ sigs[(lastI + 1) % MaxSignals] = "SIGCHLD" /\ ~InRing("SIGCHLD")'
  THEN {t \in Tasks : child[t] = "zombie"} ELSE {}

\* signal_handler
Handle(s) ==
  /\ lastI' = (lastI + 1) % MaxSignals
  /\ sigs' = [sigs EXCEPT ![lastI'] = s]
  /\ nSig' = IF nSig + 1 >= MaxSignals THEN MaxSignals ELSE nSig + 1
  /\ taken' = Append(taken, s)
  /\ unheard' = unheard \cup Overwritten

\* A signal reaches the process: it is blocked or handled.
Arrives(s) ==
  IF phase = "blocked" THEN pending' = pending \cup {s} /\ UNCHANGED buffer
                       ELSE Handle(s) /\ UNCHANGED pending

\* SIGCHLD is ignored as long as it has no handler.
ChildDies(t) ==
  /\ child[t] = "runs" /\ child' = [child EXCEPT ![t] = "zombie"]
  /\ \/ "SIGCHLD" \in handler /\ Arrives("SIGCHLD")
     \/ /\ "SIGCHLD" \notin handler /\ unheard' = unheard \cup {t}
        /\ UNCHANGED <<lastI, nSig, sigs, taken, pending>>
  /\ UNCHANGED <<handler, phase, running, pc, runs, others>>

OtherSignal(s) ==
  /\ others < MaxOther /\ others' = others + 1
  /\ Arrives(s)
  /\ UNCHANGED <<handler, phase, running, pc, child, runs>>

\* A signal that was blocked is delivered as soon as the mask allows it.
Unblocked(s) ==
  /\ phase # "blocked" /\ s \in pending /\ pending' = pending \ {s}
  /\ Handle(s)
  /\ UNCHANGED <<handler, phase, running, pc, child, runs, others>>

-----------------------------------------------------------------------------
\* The kernel delivers what the mask lets through before the process goes on.
CanRun(p) == phase = p /\ pending = {}

\* os.execute, in the steps a signal can fall between: fork, ...
Execute(t) ==
  /\ CanRun("tasks") /\ running = None /\ pc[t] = "idle" /\ runs[t] < MaxRuns
  /\ runs' = [runs EXCEPT ![t] = @ + 1]
  /\ child' = [child EXCEPT ![t] = "runs"]
  /\ pc' = [pc EXCEPT ![t] = "forked"] /\ running' = t
  /\ unheard' = unheard \ {t}
  /\ UNCHANGED <<lastI, nSig, sigs, taken, handler, pending, phase, others>>

\* ... psignal.signal("SIGCHLD", true), ...
Install(t) ==
  /\ running = t /\ pc[t] = "forked"
  /\ handler' = handler \cup {"SIGCHLD"}
  /\ pc' = [pc EXCEPT ![t] = "armed"]
  /\ UNCHANGED <<buffer, pending, phase, running, child, runs, others>>

\* ... sched.wait("posixsignal", "SIGCHLD"), ...
Wait(t) ==
  /\ running = t /\ pc[t] = "armed"
  /\ pc' = [pc EXCEPT ![t] = "waiting"] /\ running' = None
  /\ UNCHANGED <<buffer, handler, pending, phase, child, runs, others>>

\* ... and waitpid, every second until the process has ended.
Poll(t) ==
  /\ CanRun("tasks") /\ running = None /\ pc[t] = "ready"
  /\ IF child[t] = "zombie"
     THEN child' = [child EXCEPT ![t] = "none"] /\ pc' = [pc EXCEPT ![t] = "idle"]
     ELSE pc' = [pc EXCEPT ![t] = "asleep"] /\ UNCHANGED child
  /\ UNCHANGED <<buffer, handler, pending, phase, running, runs, others>>

-----------------------------------------------------------------------------
\* sched.loop: timer_step wakes the tasks whose second is over, then
\* sched_step runs what is ready.
TimerStep(S) ==
  /\ CanRun("timers")
  /\ pc' = [t \in Tasks |-> IF t \in S THEN "ready" ELSE pc[t]]
  /\ phase' = "tasks"
  /\ UNCHANGED <<buffer, handler, pending, running, child, runs, others>>

\* l_select blocks the signals once no task is ready.
Block ==
  /\ CanRun("tasks") /\ running = None /\ \A t \in Tasks : pc[t] # "ready"
  /\ phase' = "blocked"
  /\ UNCHANGED <<buffer, handler, pending, running, pc, child, runs, others>>

\* Mutant: the place wraps around one cell late.
OldestShifted == IF lastI - nSig < 0 THEN MaxSignals + lastI - nSig ELSE lastI - nSig + 1

\* tmpI, the place of the oldest signal.
Oldest == IF lastI - nSig + 1 < 0 THEN MaxSignals + lastI - nSig + 1 ELSE lastI - nSig + 1

Queued == [k \in 1 .. nSig |-> sigs[(Oldest + k - 1) % MaxSignals]]

\* step: every signal of the buffer is signalled to the tasks, oldest first;
\* l_select then returns without sleeping.
Drain ==
  /\ phase = "blocked" /\ nSig > 0
  /\ pc' = [t \in Tasks |->
              IF pc[t] = "waiting" /\ \E k \in 1 .. nSig : Queued[k] = "SIGCHLD"
              THEN "ready" ELSE pc[t]]
  /\ nSig' = 0 /\ taken' = << >> /\ phase' = "timers"
  /\ UNCHANGED <<lastI, sigs, unheard, handler, pending, running, child, runs, others>>

\* Mutant: the signals are unblocked before pselect.
SleepUnblocked ==
  /\ phase = "blocked" /\ nSig = 0
  /\ phase' = "pselect" /\ pending' = {}
  /\ UNCHANGED <<buffer, handler, running, pc, child, runs, others>>

\* pselect unblocks the signals and sleeps.
Sleep ==
  /\ phase = "blocked" /\ nSig = 0
  /\ phase' = "pselect"
  /\ UNCHANGED <<buffer, handler, pending, running, pc, child, runs, others>>

\* It returns when a signal was handled or a timer is due.
Return ==
  /\ CanRun("pselect") /\ (nSig > 0 \/ \E t \in Tasks : pc[t] = "asleep")
  /\ phase' = "timers"
  /\ UNCHANGED <<buffer, handler, pending, running, pc, child, runs, others>>

\* A new command is asked for by a task woken for some other reason.
OtherEvent ==
  /\ CanRun("pselect") /\ \E t \in Tasks : pc[t] = "idle" /\ runs[t] < MaxRuns
  /\ phase' = "timers"
  /\ UNCHANGED <<buffer, handler, pending, running, pc, child, runs, others>>

Asleep == {t \in Tasks : pc[t] = "asleep"}

Loop == (\E S \in SUBSET Asleep : TimerStep(S)) \/ Block \/ Drain \/ Sleep \/ Return

Next ==
  \/ \E t \in Tasks : ChildDies(t) \/ Execute(t) \/ Install(t) \/ Wait(t) \/ Poll(t)
  \/ \E s \in Others : OtherSignal(s)
  \/ \E s \in pending : Unblocked(s)
  \/ Loop \/ OtherEvent

Spec == Init /\ [][Next]_vars

\* The loop and the running task go on, the kernel delivers what is unblocked,
\* and a second ends after finitely many turns of the loop.
FairSpec ==
  /\ Spec
  /\ WF_vars(Loop) /\ WF_vars(\E s \in pending : Unblocked(s))
  /\ \A t \in Tasks : WF_vars(Install(t)) /\ WF_vars(Wait(t)) /\ WF_vars(Poll(t))
                     /\ SF_vars(\E S \in SUBSET Asleep : t \in S /\ TimerStep(S))

-----------------------------------------------------------------------------
TypeOK ==
  /\ lastI \in -1 .. MaxSignals - 1 /\ nSig \in 0 .. MaxSignals
  /\ sigs \in [0 .. MaxSignals - 1 -> Others \cup {"SIGCHLD", None}]
  /\ phase \in {"timers", "tasks", "blocked", "pselect"} /\ running \in Tasks \cup {None}
  /\ pc \in [Tasks -> {"idle", "forked", "armed", "waiting", "ready", "asleep"}]
  /\ child \in [Tasks -> {"none", "runs", "zombie"}] /\ unheard \subseteq Tasks

\* What step() reads from the ring is what the handler wrote since the last
\* time, in order, and the oldest signals only are lost when it overflows.
RingIsQueue ==
  /\ TypeOK
  /\ nSig = (IF Len(taken) > MaxSignals THEN MaxSignals ELSE Len(taken))
  /\ Queued = SubSeq(taken, Len(taken) - nSig + 1, Len(taken))

\* The wakeup of os.execute is not lost: when its process has ended while it is
\* about to wait for SIGCHLD, or waits, a SIGCHLD is still to be delivered or is
\* in the buffer that the next step() reads, unless the process ended before
\* there was a handler, or the SIGCHLD was overwritten in a full buffer.
ZombieIsHeard ==
  \A t \in Tasks :
    child[t] = "zombie" /\ pc[t] \in {"forked", "armed", "waiting"} /\ t \notin unheard =>
      "SIGCHLD" \in pending \/ \E k \in 1 .. nSig : Queued[k] = "SIGCHLD"

\* The signals that the handler of lposixsignal.c writes reach step(), all but the
\* oldest of too many, and with them the SIGCHLD that os.execute waits for.
SignalsAreKept == RingIsQueue /\ ZombieIsHeard

\* os.execute returns once its process has ended: its SIGCHLD is not lost
\* between the handler, the buffer, the mask and the sleep of the main loop,
\* unless it came before the handler or was overwritten in a full buffer.
ExecuteReturns == \A t \in Tasks : (child[t] = "zombie") ~> (pc[t] = "idle" \/ t \in unheard)
=============================================================================
