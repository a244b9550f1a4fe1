----------------------------- MODULE MCProgress -----------------------------
(***************************************************************************)
(* What tasks of the agent wait for: the date of a timer, the SIGCHLD of a *)
(* process started by os.execute, and a lock.  The three are independent:  *)
(* an initial state chooses one of them (part).  Exec and Lock are         *)
(* extended and have variables of their own; Timer has v1 .. v8.           *)
(***************************************************************************)
EXTENDS Exec, Lock

CONSTANTS o1, o2, p1

VARIABLES part, v1, v2, v3, v4, v5, v6, v7, v8

timer == <<v1, v2, v3, v4, v5, v6, v7, v8>>
MCvars == <<part, timer, vars, lockVars>>

\* Two one-shot timers, one without a delay, and a periodic one.
T == INSTANCE Timer WITH
  Once <- {o1, o2}, Periodic <- {p1},
  Delays <- [t \in {o1, o2, p1} |-> CASE t = o1 -> 0 [] t = o2 -> 2 [] t = p1 -> 1],
  MaxTime <- 4, MaxOps <- 4,
  now <- v1, events <- v2, nd <- v3, step <- v4, cancelled <- v5, touched <- v6, late <- v7, ops <- v8

MCInit == Init /\ T!Init /\ LockInit /\ part \in {"timer", "exec", "lock"}

InTimer == part = "timer" /\ UNCHANGED <<part, vars, lockVars>>
InExec == part = "exec" /\ UNCHANGED <<part, timer, lockVars>>
InLock == part = "lock" /\ UNCHANGED <<part, timer, vars>>

MCNext == (InTimer /\ T!Next) \/ (InExec /\ Next) \/ (InLock /\ LockNext)

\* The fairness of each part, as its module states and explains it.
MCSpec ==
  /\ MCInit /\ [][MCNext]_MCvars
  /\ WF_MCvars(InTimer /\ T!Step) /\ WF_MCvars(InTimer /\ T!Tick)
  /\ WF_MCvars(InExec /\ Loop) /\ WF_MCvars(InExec /\ \E s \in pending : Unblocked(s))
  /\ \A t \in Tasks :
       /\ WF_MCvars(InExec /\ Install(t)) /\ WF_MCvars(InExec /\ Wait(t)) /\ WF_MCvars(InExec /\ Poll(t))
       /\ SF_MCvars(InExec /\ \E S \in SUBSET Asleep : t \in S /\ TimerStep(S))
  /\ \A t \in Threads : WF_MCvars(InLock /\ Resume(t))

\* The table of the timers misses no date, a timer is not triggered before its
\* date, and one that was cancelled is not triggered (sched/timer.lua).
TimersAreExact == T!TableIsExact /\ T!NotBeforeDue /\ T!CancelIsFinal

\* A timer whose date has come is triggered, rearmed or cancelled: it does not
\* stay behind in the table (timer.lua, step).
DueIsTriggered ==
  \A t \in {o1, o2, p1} :
    (part = "timer" /\ v3[t] \in 1 .. v1) ~> (v3[t] \notin 1 .. v1 \/ t \in v6)
=============================================================================
