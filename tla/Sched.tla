------------------------------- MODULE Sched --------------------------------
(***************************************************************************)
(* The collaborative scheduler: tasks, signals and hooks                   *)
(* (luafwk/sched/init.lua, with the timeouts of sched/timer.lua).          *)
(*                                                                         *)
(* The code of tasks and hooks is arbitrary: any of the operations below,  *)
(* in any order.  Code runs in the task being stepped, or in a hook called *)
(* by signal(); hooks may signal, so signal() nests and `stack' holds its  *)
(* activations, the innermost last.  The tables reached through            *)
(* __tasks.waiting are shared and replaced while they are being read, so   *)
(* they have identities: waiting maps an emitter to the identity of its    *)
(* event table, emq an event table to its queues, queue a queue to its     *)
(* cells; 0 is nil.  Nothing refers to the identities that are free.       *)
(***************************************************************************)
EXTENDS Naturals, Sequences, FiniteSets, SequencesExt

CONSTANTS Objects,    \* emitters that are not tasks
          Tasks,      \* coroutines
          Events,     \* the events of the objects
          Cells,      \* identities of cells, numbers from 1 up
          TableIds,   \* identities of event tables, numbers from 1 up
          QueueIds,   \* identities of cell queues, numbers from 1 up
          MaxDepth,   \* bound on nested signals
          HookRegs,   \* what hooks register for: <<emitter, events, timeout?>>
          WaitRegs,   \* what tasks wait for: <<emitters, events, timeout?>>
          None

Emitters == Objects \cup Tasks

\* The keys of an event table: events, the wildcard, and "timeout" for the
\* cells that have a timer.  A task only emits "die".
Keys == Events \cup {"*", "timeout", "die"}
EventsOf(e) == IF e \in Tasks THEN {"die"} ELSE Events

VARIABLES status,   \* of a coroutine: "unborn", "new", "live" or "dead"
          ready,    \* __tasks.ready
          running,  \* __tasks.running
          body,     \* the coroutine whose code runs, None in the main loop
          stepping, \* is the main loop inside sched.step()?
          cell,     \* the cells
          waiting, emq, queue,  \* __tasks.waiting
          stack,    \* activations of signal() and of timeout callbacks
          reentered,\* history: emitters signalled from inside one of their signals
          confused  \* history: tasks killed before they started, and their killers

vars == <<status, ready, running, body, stepping, cell, waiting, emq, queue, stack,
          reentered, confused>>
history == <<reentered, confused>>

NoCell == [kind |-> "empty", thread |-> None, timer |-> FALSE, on |-> {}]

\* kind: "empty" once emptied, "task", "hook", or "once" for sigOnce();
\* on: the emitter-key pairs it was registered for.
CellType == [kind : {"empty", "task", "hook", "once"}, thread : Tasks \cup {None},
             timer : BOOLEAN, on : SUBSET (Emitters \X Keys)]

\* at: "open" before parse_queue(key), "hook" while the hook cur runs, "scan"
\* after it returned.
FrameType == [em : Emitters \cup {None}, ev : Keys, tab : TableIds \cup {0}, key : Keys,
              at : {"open", "scan", "hook"}, old : Seq(Cells),
              new : QueueIds \cup {0}, woken : Seq(Tasks), cur : Cells \cup {0}]

TypeOK ==
  /\ status \in [Tasks -> {"unborn", "new", "live", "dead"}]
  /\ ready \in Seq(Tasks)
  /\ running \in Tasks \cup {None}
  /\ body \in Tasks \cup {None}
  /\ stepping \in BOOLEAN
  /\ cell \in [Cells -> CellType]
  /\ waiting \in [Emitters -> TableIds \cup {0}]
  /\ emq \in [TableIds -> [Keys -> QueueIds \cup {0}]]
  /\ queue \in [QueueIds -> Seq(Cells)]
  /\ stack \in Seq(FrameType)
  /\ Len(stack) <= MaxDepth + 1
  /\ reentered \in SUBSET Emitters
  /\ confused \in SUBSET Tasks

NoTable == [k \in Keys |-> 0]

Init ==
  /\ status = [t \in Tasks |-> "unborn"]
  /\ ready = <<>>
  /\ running = None
  /\ body = None
  /\ stepping = FALSE
  /\ cell = [c \in Cells |-> NoCell]
  /\ waiting = [e \in Emitters |-> 0]
  /\ emq = [i \in TableIds |-> NoTable]
  /\ queue = [i \in QueueIds |-> <<>>]
  /\ stack = <<>>
  /\ reentered = {}
  /\ confused = {}

-----------------------------------------------------------------------------
\* The heap: what is referred to from waiting table w, tables m and frames s.
UsedTables(w, s) == Range(w) \cup {f.tab : f \in ToSet(s)}
UsedQueues(w, m, s) ==
  UNION {Range(m[i]) : i \in UsedTables(w, s) \cap TableIds}
    \cup {f.new : f \in ToSet(s)}
UsedCells(w, m, q, s) ==
  UNION {ToSet(q[i]) : i \in UsedQueues(w, m, s) \cap QueueIds}
    \cup UNION {ToSet(f.old) \cup {f.cur} : f \in ToSet(s)}

\* The new value of the heap: identities nobody refers to become free.
Heap(w, m, q, s) ==
  LET tables == UsedTables(w, s)
      queues == UsedQueues(w, m, s)
  IN  /\ waiting' = w
      /\ stack' = s
      /\ emq' = [i \in TableIds |-> IF i \in tables THEN m[i] ELSE NoTable]
      /\ queue' = [i \in QueueIds |-> IF i \in queues THEN q[i] ELSE <<>>]

FreeTables == TableIds \ UsedTables(waiting, stack)
FreeQueues == QueueIds \ UsedQueues(waiting, emq, stack)
FreeCells ==
  {c \in Cells : cell[c].kind = "empty"} \ UsedCells(waiting, emq, queue, stack)

\* One free identity for each member of S.
Fresh(S, free) ==
  FoldSet(LAMBDA x, f : f @@ (x :> Min(free \ Range(f))), <<>>, S)

Top == Last(stack)
SetTop(f) == [stack EXCEPT ![Len(stack)] = f]
Pop == Front(stack)

\* Code runs: a task's own, or a hook's.
InHook == stack # <<>> /\ Top.at = "hook"
InTask == stack = <<>> /\ body # None
CodeRuns == InHook \/ InTask
InLoop == stack = <<>> /\ body = None

-----------------------------------------------------------------------------
\* register(cell, emitter, events), for every emitter of E: a new cell is
\* appended to the queue of each event, and to "timeout" if it has a timer.
\* s is the new stack.
Register(E, K, kind, thread, timer, s) ==
  LET c      == Min(FreeCells)
      keys   == K \cup (IF timer THEN {"timeout"} ELSE {})
      newTab == Fresh({e \in E : waiting[e] = 0}, FreeTables)
      w      == newTab @@ waiting
      newQ   == Fresh({p \in E \X keys : emq[w[p[1]]][p[2]] = 0}, FreeQueues)
      m      == FoldSet(LAMBDA p, f : [f EXCEPT ![w[p[1]]][p[2]] = newQ[p]],
                        emq, DOMAIN newQ)
      into   == {m[w[e]][k] : e \in E, k \in keys}
  IN /\ FreeCells # {}
     /\ cell' = [cell EXCEPT ![c] = [kind |-> kind, thread |-> thread,
                                     timer |-> timer, on |-> E \X keys]]
     /\ Heap(w, m, FoldSet(LAMBDA i, q : [q EXCEPT ![i] = Append(@, c)], queue, into), s)

\* The stack after a call to signal(e, ev), which returns at once if e has no
\* event table.
Signalling(e, ev) ==
  IF waiting[e] = 0 THEN stack
  ELSE Append(stack, [em |-> e, ev |-> ev, tab |-> waiting[e], key |-> "*",
                      at |-> "open", old |-> <<>>, new |-> 0,
                      woken |-> <<>>, cur |-> 0])

\* A hook returns or raises: it goes to the new queue unless it is a `once'
\* cell or it raised KILL_TOKEN; then the cell is emptied.  A cell emptied
\* meanwhile has lost its `once' field and is put back, empty.
HookReturn(killed) ==
  LET f        == Top
      reattach == cell[f.cur].kind # "once" /\ ~killed
      frame    == [f EXCEPT !.at = "scan", !.cur = 0]
  IN /\ InHook
     /\ cell' = IF reattach THEN cell ELSE [cell EXCEPT ![f.cur] = NoCell]
     /\ Heap(waiting, emq,
             IF reattach /\ f.new # 0 THEN [queue EXCEPT ![f.new] = Append(@, f.cur)]
                                      ELSE queue,
             IF f.em = None THEN Pop ELSE SetTop(frame))
     /\ UNCHANGED <<status, ready, running, body, stepping>>

-----------------------------------------------------------------------------
\* signal(): no other code runs from one hook to the next.

\* The place of the first hook among the cells, 0 if there is none.
FirstHook(cells) ==
  SelectInSeq(cells, LAMBDA c : cell[c].kind \in {"hook", "once"})

\* runcell() of cells that are not hooks: the tasks to reschedule.
Woken(cells) ==
  LET sel == SelectSeq(cells, LAMBDA c : cell[c].kind = "task")
  IN  [i \in 1 .. Len(sel) |-> cell[sel[i]].thread]

\* runcell() of cells that are not hooks: those of tasks are emptied.
Emptied(cells) ==
  [c \in Cells |-> IF c \in ToSet(cells) /\ cell[c].kind = "task" THEN NoCell
                   ELSE cell[c]]

\* Mutant of Forgotten: the emitter's entry goes with its first empty queue.
ForgottenEarly(m, tab) == TRUE

\* The end of parse_queue(): the emitter's entry goes with its last queue.
Forgotten(m, tab) == m[tab] = NoTable

\* parse_queue(key): take the queue of key, leave a new one in its place and
\* run the cells up to the next hook, which is called.  After the last cell,
\* drop the new queue if it is empty and go on with the key of the event, or
\* reschedule the tasks woken up and return.
ParseQueue ==
  LET f     == Top
      q     == emq[f.tab][f.key]
      swap  == f.at = "open" /\ q # 0
      new   == IF swap THEN Min(FreeQueues) ELSE f.new
      old   == IF swap THEN queue[q] ELSE f.old
      m     == IF swap THEN [emq EXCEPT ![f.tab][f.key] = new] ELSE emq
      hook  == FirstHook(old)
      now   == IF hook = 0 THEN old ELSE SubSeq(old, 1, hook - 1)
      woken == f.woken \o Woken(now)
      gone  == new # 0 /\ queue[new] = <<>>
      mm    == IF gone THEN [m EXCEPT ![f.tab][f.key] = 0] ELSE m
  IN /\ stack # <<>> /\ f.at # "hook"
     /\ \/ /\ hook # 0
           /\ cell' = [Emptied(now) EXCEPT ![old[hook]].timer = FALSE]
           /\ Heap(waiting, m, queue,
                   SetTop([f EXCEPT !.at = "hook", !.cur = old[hook], !.new = new,
                             !.old = SubSeq(old, hook + 1, Len(old)), !.woken = woken]))
           /\ UNCHANGED ready
        \/ /\ hook = 0
           /\ cell' = Emptied(now)
           /\ Heap(IF gone /\ Forgotten(mm, f.tab) THEN [waiting EXCEPT ![f.em] = 0]
                                                   ELSE waiting,
                   mm, queue,
                   IF f.key = f.ev THEN Pop
                   ELSE SetTop([f EXCEPT !.at = "open", !.key = f.ev, !.old = <<>>,
                                         !.new = 0, !.woken = woken]))
           /\ ready' = IF f.key = f.ev THEN ready \o woken ELSE ready
     /\ UNCHANGED <<status, running, body, stepping>>

-----------------------------------------------------------------------------
\* What the code of tasks and hooks may do.

\* Code calls signal(e, ev); the bound on nested signals.
Signal(e, ev) ==
  /\ Len(stack) < MaxDepth
  /\ reentered' = IF \E f \in ToSet(stack) : f.em = e
                  THEN reentered \cup {e} ELSE reentered
  /\ stack' = Signalling(e, ev)

\* sched.signal(e, ev)
Emit(e, ev) ==
  /\ CodeRuns
  /\ Signal(e, ev)
  /\ UNCHANGED <<status, ready, running, body, stepping, cell, waiting, emq, queue,
                 confused>>

\* sched.sigHook, sigOnce, sigRun and sigRunOnce on events K of emitter e.
SigHook(e, K, kind, timer) ==
  /\ CodeRuns
  /\ Register({e}, K, kind, None, timer, stack)
  /\ UNCHANGED <<status, ready, running, body, stepping>>

\* sched.kill(cell) of a hook.
KillHook(c) ==
  /\ CodeRuns
  /\ cell[c].kind \in {"hook", "once"}
  /\ cell' = [cell EXCEPT ![c] = NoCell]
  /\ UNCHANGED <<status, ready, running, body, stepping, waiting, emq, queue, stack>>

\* sched.run(f): a coroutine nothing refers to is created, and is ready.
Run(t) ==
  /\ CodeRuns \/ (InLoop /\ ~stepping)
  /\ \/ status[t] = "unborn"
     \/ /\ status[t] = "dead" /\ t \notin {body, running}
        /\ t \notin ToSet(ready) /\ waiting[t] = 0
        /\ \A f \in ToSet(stack) : f.em # t /\ t \notin ToSet(f.woken)
  /\ status' = [status EXCEPT ![t] = "new"]
  /\ ready' = Append(ready, t)
  /\ confused' = confused \ {t}
  /\ UNCHANGED <<running, body, stepping, cell, waiting, emq, queue, stack, reentered>>

\* sched.kill(t) of a task that does not run and has started.  wait() raises
\* KILL_TOKEN in it, its cell is emptied, and "die" is signalled.  An entry of
\* t in ready stays there.  A dead task is only signalled again.
KillTask(t) ==
  /\ CodeRuns
  /\ t \notin {running, body} /\ status[t] \in {"live", "dead"}
  /\ status' = [status EXCEPT ![t] = "dead"]
  /\ cell' = [c \in Cells |-> IF cell[c].thread = t THEN NoCell ELSE cell[c]]
  /\ Signal(t, "die")
  /\ UNCHANGED <<ready, running, body, stepping, waiting, emq, queue, confused>>

\* sched.kill(t) of a task that has not started: coroutine.resume() starts it.
\* It ends, or it blocks in a wait() that takes __tasks.running, the caller of
\* kill(), for the current task.  Then "die" is signalled.
KillNewTask(t) ==
  /\ CodeRuns /\ Len(stack) < MaxDepth
  /\ t # running /\ status[t] = "new"
  /\ \/ /\ status' = [status EXCEPT ![t] = "dead"]
        /\ Signal(t, "die")
        /\ UNCHANGED <<running, cell, waiting, emq, queue, confused>>
     \/ /\ running # None
        /\ status' = [status EXCEPT ![t] = "live"]
        /\ running' = None
        /\ \E r \in WaitRegs :
             /\ t \notin r[1]
             /\ Register(r[1], r[2], "task", running, r[3], Signalling(t, "die"))
        /\ confused' = confused \cup {t, running}
        /\ UNCHANGED reentered
  /\ UNCHANGED <<ready, body, stepping>>

\* sched.kill(__tasks.running) and killSelf() called by a hook: the hook dies.
KillSelfInHook == HookReturn(TRUE)

-----------------------------------------------------------------------------
\* What the code of a task may do, besides.

\* sched.wait(e, K) and sched.multiWait(E, K), with or without a timeout.
Wait(E, K, timer) ==
  /\ InTask /\ running # None
  /\ Register(E, K, "task", running, timer, stack)
  /\ running' = None
  /\ body' = None
  /\ UNCHANGED <<status, ready, stepping>>

\* sched.wait(): reschedule at the end of the queue.
Yield ==
  /\ InTask /\ running # None
  /\ ready' = Append(ready, running)
  /\ running' = None
  /\ body' = None
  /\ UNCHANGED <<status, stepping, cell, waiting, emq, queue, stack>>

\* The task returns, raises, or kills itself: step() signals "die".
End ==
  /\ InTask
  /\ status' = [status EXCEPT ![body] = "dead"]
  /\ body' = None
  /\ stack' = Signalling(body, "die")
  /\ UNCHANGED <<ready, running, stepping, cell, waiting, emq, queue>>

-----------------------------------------------------------------------------
\* The main loop: timer.step(), sched.step(), fd.step().

BeginStep ==
  /\ InLoop /\ ~stepping
  /\ stepping' = TRUE
  /\ UNCHANGED <<status, ready, running, body, cell, waiting, emq, queue, stack>>

\* sched.step() resumes the first ready task.  One that was killed meanwhile
\* cannot be resumed and is signalled "die" again.
Resume ==
  LET t == Head(ready) IN
  /\ InLoop /\ stepping /\ ready # <<>>
  /\ ready' = Tail(ready)
  /\ running' = t
  /\ IF status[t] = "dead"
     THEN /\ stack' = Signalling(t, "die")
          /\ UNCHANGED <<status, body>>
     ELSE /\ status' = [status EXCEPT ![t] = "live"]
          /\ body' = t
          /\ UNCHANGED stack
  /\ UNCHANGED <<stepping, cell, waiting, emq, queue>>

\* Nothing is ready: sched.gc() drops emptied cells, then empty queues and
\* tables, and step() returns.
EndStep ==
  LET live(c) == cell[c].kind # "empty"
      q == [i \in QueueIds |-> SelectSeq(queue[i], live)]
      m == [i \in TableIds |-> [k \in Keys |->
              IF emq[i][k] # 0 /\ q[emq[i][k]] = <<>> THEN 0 ELSE emq[i][k]]]
      w == [e \in Emitters |->
              IF waiting[e] # 0 /\ m[waiting[e]] = NoTable THEN 0 ELSE waiting[e]]
  IN /\ InLoop /\ stepping /\ ready = <<>>
     /\ running' = None
     /\ stepping' = FALSE
     /\ Heap(w, m, q, stack)
     /\ reentered' = {e \in reentered : \E c \in Cells, k \in Keys : <<e, k>> \in cell[c].on}
     /\ confused' = {t \in confused : status[t] = "live"}
     /\ UNCHANGED <<status, ready, body, cell>>

\* timer.step() calls timeout_callback() of a cell: a task is ready at once, a
\* hook runs and stays in the queues it is in.
Timeout(c) ==
  /\ InLoop /\ ~stepping /\ cell[c].timer
  /\ IF cell[c].kind = "task"
     THEN /\ ready' = Append(ready, cell[c].thread)
          /\ cell' = [cell EXCEPT ![c] = NoCell]
          /\ UNCHANGED stack
     ELSE /\ stack' = <<[em |-> None, ev |-> "timeout", tab |-> 0, key |-> "timeout",
                         at |-> "hook", old |-> <<>>, new |-> 0, woken |-> <<>>,
                         cur |-> c]>>
          /\ cell' = [cell EXCEPT ![c].timer = FALSE]
          /\ UNCHANGED ready
  /\ UNCHANGED <<status, running, body, stepping, waiting, emq, queue>>

\* fd.step() signals what select() reports.
FdSignal(e, ev) ==
  /\ InLoop /\ ~stepping
  /\ stack' = Signalling(e, ev)
  /\ UNCHANGED <<status, ready, running, body, stepping, cell, waiting, emq, queue>>

Next ==
  \/ \E e \in Objects : \E ev \in EventsOf(e) : Emit(e, ev)
  \/ \E t \in Tasks : Run(t) \/ KillTask(t) \/ KillNewTask(t)
  \/ /\ UNCHANGED history
     /\ \/ \E e \in Objects : \E ev \in EventsOf(e) : FdSignal(e, ev)
        \/ \E r \in HookRegs, kind \in {"hook", "once"} : SigHook(r[1], r[2], kind, r[3])
        \/ \E r \in WaitRegs : Wait(r[1], r[2], r[3])
        \/ \E c \in Cells : KillHook(c) \/ Timeout(c)
        \/ HookReturn(FALSE) \/ KillSelfInHook
        \/ ParseQueue
        \/ Yield \/ End \/ BeginStep \/ Resume
  \/ EndStep

Spec == Init /\ [][Next]_vars

-----------------------------------------------------------------------------
\* Properties.

\* Is cell c in the queue that a signal of key k by emitter e would parse?
Attached(c, e, k) ==
  /\ waiting[e] # 0 /\ emq[waiting[e]][k] # 0
  /\ c \in ToSet(queue[emq[waiting[e]][k]])

\* Is cell c about to be run, or running, in a signal of emitter e for key k?
InSignal(c, e, k) ==
  \E f \in ToSet(stack) : f.em = e /\ f.key = k /\ (c = f.cur \/ c \in ToSet(f.old))

\* Every signal of emitter p[1] for key p[2] finds the cell, unless a hook
\* signalled that emitter while one of its signals was being delivered.
Reachable(c) ==
  \A p \in cell[c].on :
    p[1] \in reentered \/ Attached(c, p[1], p[2]) \/ InSignal(c, p[1], p[2])

\* sigHook: "The callback is called synchronously as soon as the corresponding
\* signal is emitted, and every time it is emitted": until it is killed, a hook
\* stays where each signal it registered for will find it, and so does a task
\* blocked in wait(), through nested signals, registrations and kills by other
\* hooks; only signalling an emitter from inside its own signal() detaches one.
ListenersStayAttached ==
  \A c \in Cells : cell[c].kind # "empty" => Reachable(c)

\* The places where a task that lives can be, with their multiplicity: its
\* code runs, it is ready, it is about to be rescheduled, it is blocked.
Places(t) ==
  (IF body = t THEN 1 ELSE 0)
  + Cardinality({i \in 1..Len(ready) : ready[i] = t})
  + Cardinality({p \in (1..Len(stack)) \X (1..Cardinality(Cells)) :
                   p[2] <= Len(stack[p[1]].woken) /\ stack[p[1]].woken[p[2]] = t})
  + Cardinality({c \in Cells : cell[c].thread = t})

\* A task that started and is not dead is in exactly one place: it is neither
\* forgotten nor rescheduled twice, whatever signals, timeouts, kills and
\* multiple waits race to wake it up.  The exception is kill() of a task that
\* never ran, which starts it under the name of the killer.
TaskInOnePlace ==
  /\ TypeOK
  /\ \A t \in Tasks : status[t] \in {"new", "live"} => t \in confused \/ Places(t) = 1
=============================================================================
