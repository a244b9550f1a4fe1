-------------------------------- MODULE Timer --------------------------------
(***************************************************************************)
(* Timers (luafwk/sched/timer.lua, with the timer objects of               *)
(* luafwk/timer.lua): a sorted list of dates, which may hold dates nobody  *)
(* waits for any more, and for each date the set of timers due then.       *)
(* step() triggers the timers that are due one by one; code that listens   *)
(* to a timer runs inside it and may cancel and rearm timers, as any task  *)
(* may between two steps.  step() has taken a date out of the table before *)
(* it triggers the timers of that date: touched remembers the timers that  *)
(* a callback cancelled or rearmed while they were in its own batch, which *)
(* the table no longer knows.                                              *)
(***************************************************************************)
EXTENDS Integers, Sequences, SequencesExt

CONSTANTS Once, Periodic,  \* one-shot and periodic timers
          Delays,          \* a delay or a period for each timer
          MaxTime,         \* bound: the clock
          MaxOps,          \* bound: calls of new, cancel and rearm
          None

Timers == Once \cup Periodic

VARIABLES now,       \* monotonic_time()
          events,    \* dates: the list part; due: the set of timers of each date
          nd,        \* the next due date of each timer, 0 for nil
          step,      \* the state of step(): its now, what is left of the date, the timer triggered
          cancelled, \* timers cancelled by the program and not rearmed since
          touched,   \* timers cancelled or rearmed in their own batch
          late,      \* another cancelled timer has been triggered
          ops        \* calls so far

vars == <<now, events, nd, step, cancelled, touched, late, ops>>

MaxDelay == CHOOSE d \in {Delays[t] : t \in Timers} : \A t \in Timers : Delays[t] <= d
Dates == 1 .. MaxTime + (MaxOps + 1) * MaxDelay

Idle == [now |-> 0, left |-> {}, cur |-> None]

Init ==
  /\ now = 1
  /\ events = [dates |-> << >>, due |-> [d \in Dates |-> {}]]
  /\ nd = [t \in Timers |-> 0]
  /\ step = Idle /\ cancelled = {} /\ touched = {} /\ late = FALSE /\ ops = 0

-----------------------------------------------------------------------------
\* The methods :nextevent().
OneshotNext(t) == IF nd[t] = 0 THEN now + Delays[t] ELSE 0

PeriodicNext(t) ==
  LET n == (IF nd[t] = 0 THEN now ELSE nd[t]) + Delays[t]
  IN  IF n < now THEN (1 + now \div Delays[t]) * Delays[t] ELSE n

NextEvent(t) == IF t \in Once THEN OneshotNext(t) ELSE PeriodicNext(t)

\* The place of a date in the list: before the first later one.
Inserted(dates, d) ==
  LET n == SelectInSeq(dates, LAMBDA x : x > d)
  IN  IF n = 0 THEN Append(dates, d) ELSE InsertAt(dates, n, d)

AddEvent(ev, t, d) ==
  [dates |-> IF ev.due[d] # {} THEN ev.dates ELSE Inserted(ev.dates, d),
   due |-> [ev.due EXCEPT ![d] = @ \cup {t}]]

\* addtimer with the events ev and the next date n.
AddTimer(ev, t, n) ==
  /\ nd' = [nd EXCEPT ![t] = n]
  /\ events' = IF n = 0 THEN ev ELSE AddEvent(ev, t, n)

Registered(t) == nd[t] # 0 /\ t \in events.due[nd[t]]

\* removetimer leaves the date in the list.
Removed(t) == [events EXCEPT !.due[nd[t]] = @ \ {t}]

-----------------------------------------------------------------------------
\* The program calls an operation between two steps, or in a callback.
Calls(t) ==
  /\ step = Idle \/ step.cur # None
  /\ touched' = touched \cup ({t} \cap (step.left \cup {step.cur}))
  /\ ops < MaxOps /\ ops' = ops + 1
  /\ UNCHANGED <<now, step, late>>

\* Mutant: only the timers of the first date are found.
CancelHead(t) ==
  /\ Calls(t)
  /\ cancelled' = cancelled \cup {t}
  /\ IF Registered(t) /\ nd[t] = Head(events.dates)
     THEN events' = Removed(t) /\ nd' = [nd EXCEPT ![t] = 0]
     ELSE UNCHANGED <<events, nd>>

Cancel(t) ==
  /\ Calls(t)
  /\ cancelled' = cancelled \cup {t}
  /\ IF Registered(t)
     THEN events' = Removed(t) /\ nd' = [nd EXCEPT ![t] = 0]
     ELSE UNCHANGED <<events, nd>>

\* new() and rearm(): a timer that is registered is cancelled first.
Rearm(t) ==
  /\ Calls(t)
  /\ cancelled' = cancelled \ {t}
  /\ IF Registered(t)
     THEN AddTimer(Removed(t), t, now + Delays[t])
     ELSE AddTimer(events, t, NextEvent(t))

\* step(): the clock is read once, then each date that is due is processed.
StepBegin ==
  /\ step = Idle /\ events.dates # << >>
  /\ step' = [Idle EXCEPT !.now = now]
  /\ UNCHANGED <<now, events, nd, cancelled, touched, late, ops>>

Due == events.dates # << >> /\ step.now >= Head(events.dates)

StepDate ==
  /\ step # Idle /\ step.cur = None /\ step.left = {} /\ Due
  /\ LET d == Head(events.dates)
     IN  /\ step' = [step EXCEPT !.left = events.due[d]]
         /\ events' = [dates |-> Tail(events.dates), due |-> [events.due EXCEPT ![d] = {}]]
  /\ UNCHANGED <<now, nd, cancelled, touched, late, ops>>

\* The trigger: a function is called, or a signal sent.
StepTrigger(t) ==
  /\ step.cur = None /\ t \in step.left
  /\ step' = [step EXCEPT !.cur = t, !.left = @ \ {t}]
  /\ late' = (late \/ t \in cancelled \ touched)
  /\ UNCHANGED <<now, events, nd, cancelled, touched, ops>>

\* Mutant: a one-shot timer keeps its date.
StepReaddForgets(t) ==
  /\ step.cur = t
  /\ step' = [step EXCEPT !.cur = None]
  /\ IF t \in Once THEN UNCHANGED <<events, nd>> ELSE AddTimer(events, t, NextEvent(t))
  /\ UNCHANGED <<now, cancelled, touched, late, ops>>

\* The timer is added again, if it has a next date.
StepReadd(t) ==
  /\ step.cur = t
  /\ step' = [step EXCEPT !.cur = None]
  /\ AddTimer(events, t, NextEvent(t))
  /\ UNCHANGED <<now, cancelled, touched, late, ops>>

StepEnd ==
  /\ step # Idle /\ step.cur = None /\ step.left = {} /\ ~ Due
  /\ step' = Idle
  /\ UNCHANGED <<now, events, nd, cancelled, touched, late, ops>>

Tick ==
  /\ now < MaxTime /\ now' = now + 1
  /\ UNCHANGED <<events, nd, step, cancelled, touched, late, ops>>

Step == StepBegin \/ StepDate \/ StepEnd \/ \E t \in Timers : StepTrigger(t) \/ StepReadd(t)

Next ==
  \/ Step
  \/ \E t \in Timers : Cancel(t) \/ Rearm(t)
  \/ Tick

Spec == Init /\ [][Next]_vars

\* The main loop calls step() whenever a date elapses, and time goes on.
Fairness == WF_vars(Step) /\ WF_vars(Tick)

FairSpec == Spec /\ Fairness

-----------------------------------------------------------------------------
TypeOK ==
  /\ now \in 1 .. MaxTime
  /\ events.dates \in Seq(Dates) /\ events.due \in [Dates -> SUBSET Timers]
  /\ nd \in [Timers -> Dates \cup {0}]
  /\ step \in [now : 0 .. MaxTime, left : SUBSET Timers, cur : Timers \cup {None}]
  /\ cancelled \subseteq Timers /\ touched \subseteq Timers
  /\ late \in BOOLEAN /\ ops \in 0 .. MaxOps

\* The list stays sorted and holds every date at which a timer is due, so that
\* nextevent() and step(), which look at its head only, miss none.  A timer is
\* registered for the date nd says and for no other, and one that is being
\* triggered is not registered, unless it was rearmed in its own batch.
TableIsExact ==
  /\ TypeOK
  /\ \A i \in 1 .. Len(events.dates) - 1 : events.dates[i] <= events.dates[i + 1]
  /\ \A d \in Dates : events.due[d] # {} => d \in ToSet(events.dates)
  /\ \A t \in Timers \ touched, d \in Dates :
       t \in events.due[d] => nd[t] = d /\ t \notin step.left \cup {step.cur}

\* A timer is not triggered before its date.
NotBeforeDue == \A t \in Timers \ touched : t \in step.left \/ t = step.cur => nd[t] <= now

\* A timer that the program has cancelled is not triggered, unless the callback
\* of a timer of the same date has cancelled it.
CancelIsFinal == ~ late

\* A timer that is due is triggered or cancelled: it does not keep its date.
DueIsTriggered ==
  \A t \in Timers, d \in 1 .. MaxTime : (nd[t] = d) ~> (nd[t] # d \/ t \in touched)
=============================================================================
