--------------------------------- MODULE Fd ---------------------------------
(***************************************************************************)
(* Waiting for file descriptors (luafwk/sched/fd.lua) in the main loop of  *)
(* luafwk/sched/platform.lua: the tasks that are ready run, then select()  *)
(* is called on the watch lists and its answer is turned into signals and  *)
(* calls of the functions registered with when_readable and its likes.     *)
(* Descriptors are objects: one that is closed is never used again.        *)
(***************************************************************************)
EXTENDS Naturals, Sequences, FiniteSets

CONSTANTS Fds, Tasks, Dirs,
          MaxWatch   \* bound: registrations

VARIABLES list,    \* the list part of fdt.wait_read, wait_write and wait_except
          index,   \* their hash part: the place of a descriptor, 0 for nil
          func,    \* whether a function is registered
          task,    \* of each task: its state and what it waits for
          open,    \* descriptors that are open
          loop,    \* what select() has returned and is not notified yet, and the call in progress
          orphans, \* what tasks waited for when they were killed
          count    \* registrations so far

vars == <<list, index, func, task, open, loop, orphans, count>>

Idle == [st |-> "idle"]
Blocked(st, rw, fd) == [st |-> st, rw |-> rw, fd |-> fd]
WaitsFor(t, rw, fd) == task[t].st # "idle" /\ task[t].rw = rw /\ task[t].fd = fd

Running == [at |-> "tasks"]
Notifying(left) == [at |-> "notify", left |-> left]

Init ==
  /\ list = [rw \in Dirs |-> << >>]
  /\ index = [rw \in Dirs |-> [fd \in Fds |-> 0]]
  /\ func = [rw \in Dirs |-> [fd \in Fds |-> FALSE]]
  /\ task = [t \in Tasks |-> Idle]
  /\ open = Fds /\ loop = Running /\ orphans = {} /\ count = 0

-----------------------------------------------------------------------------
\* The watch lists as a record; add_watch and remove_watch on it.
Lists == [list |-> list, index |-> index, func |-> func]
Become(w) == list' = w.list /\ index' = w.index /\ func' = w.func

Added(w, rw, fd, f) ==
  [list |-> [w.list EXCEPT ![rw] = Append(@, fd)],
   index |-> [w.index EXCEPT ![rw][fd] = Len(w.list[rw]) + 1],
   func |-> [w.func EXCEPT ![rw][fd] = f]]

\* Mutant: the descriptor moved to the free place is not told so.
UnwatchedSwap(w, rw, fd) ==
  LET l == w.list[rw]
      lasti == Len(l)
      i == w.index[rw][fd]
  IN  IF i = 0 THEN w
      ELSE [list |-> [w.list EXCEPT ![rw] = [k \in 1 .. lasti - 1 |-> IF k = i THEN l[lasti] ELSE l[k]]],
            index |-> [w.index EXCEPT ![rw][fd] = 0],
            func |-> [w.func EXCEPT ![rw][fd] = FALSE]]

\* The last descriptor of the list takes the place of the one removed.
Unwatched(w, rw, fd) ==
  LET l == w.list[rw]
      lasti == Len(l)
      i == w.index[rw][fd]
  IN  IF i = 0 THEN w
      ELSE [list |-> [w.list EXCEPT ![rw] = [k \in 1 .. lasti - 1 |-> IF k = i THEN l[lasti] ELSE l[k]]],
            index |-> [w.index EXCEPT ![rw] = [@ EXCEPT ![l[lasti]] = i, ![fd] = 0]],
            func |-> [w.func EXCEPT ![rw][fd] = FALSE]]

\* Tasks that a signal of the descriptor fd wakes.
Woken(rws, fd) ==
  [t \in Tasks |-> IF task[t].st = "waiting" /\ task[t].fd = fd /\ task[t].rw \in rws
                   THEN Blocked("woken", task[t].rw, fd) ELSE task[t]]

\* Code runs: a task, or a function called by notify_fd.
Code == loop.at \in {"tasks", "call"}

-----------------------------------------------------------------------------
WaitFd(t, rw, fd) ==
  /\ loop.at = "tasks" /\ task[t] = Idle /\ fd \in open /\ count < MaxWatch
  /\ index[rw][fd] = 0
  /\ Become(Added(Lists, rw, fd, FALSE))
  /\ task' = [task EXCEPT ![t] = Blocked("waiting", rw, fd)]
  /\ count' = count + 1
  /\ UNCHANGED <<open, loop, orphans>>

\* The end of wait_fd, once the task runs again.
Resume(t) ==
  /\ loop.at = "tasks" /\ task[t].st = "woken"
  /\ Become(Unwatched(Lists, task[t].rw, task[t].fd))
  /\ task' = [task EXCEPT ![t] = Idle]
  /\ UNCHANGED <<open, loop, orphans, count>>

\* sched.wait ends with "timeout".
TimeOut(t) ==
  /\ loop.at = "tasks" /\ task[t].st = "waiting"
  /\ task' = [task EXCEPT ![t] = Blocked("woken", task[t].rw, task[t].fd)]
  /\ UNCHANGED <<list, index, func, open, loop, orphans, count>>

\* sched.kill: the task does not run again, wait_fd does not end.
Kill(t) ==
  /\ Code /\ task[t].st \in {"waiting", "woken"}
  /\ task' = [task EXCEPT ![t] = Idle]
  /\ orphans' = orphans \cup {<<task[t].rw, task[t].fd>>}
  /\ UNCHANGED <<list, index, func, open, loop, count>>

\* when_fd with and without a function; a program only takes back its own.
WhenFd(rw, fd) ==
  /\ Code /\ fd \in open /\ count < MaxWatch /\ index[rw][fd] = 0
  /\ Become(Added(Lists, rw, fd, TRUE))
  /\ count' = count + 1
  /\ UNCHANGED <<task, open, loop, orphans>>

WhenFdNil(rw, fd) ==
  /\ Code /\ func[rw][fd]
  /\ Become(Unwatched(Lists, rw, fd))
  /\ UNCHANGED <<task, open, loop, orphans, count>>

Close(fd) ==
  /\ Code /\ fd \in open
  /\ LET w1 == IF "read" \in Dirs THEN Unwatched(Lists, "read", fd) ELSE Lists
         w2 == IF "write" \in Dirs THEN Unwatched(w1, "write", fd) ELSE w1
     IN  Become(IF "except" \in Dirs THEN Unwatched(w2, "except", fd) ELSE w2)
  /\ task' = Woken(Dirs, fd)
  /\ open' = open \ {fd}
  /\ UNCHANGED <<loop, orphans, count>>

-----------------------------------------------------------------------------
\* sched.fd.step: when no task is ready, select() returns some of the watched
\* descriptors; those that are readable come first, exceptions last.
Select ==
  /\ loop.at = "tasks" /\ \A t \in Tasks : task[t].st # "woken"
  /\ \E S \in SUBSET {x \in Dirs \X Fds : index[x[1]][x[2]] # 0 /\ x[2] \in open} :
       S # {} /\ loop' = Notifying(S)
  /\ UNCHANGED <<list, index, func, task, open, orphans, count>>

Before(a, b) == \/ a = "read" /\ b # "read"
                \/ a = "write" /\ b = "except"

NextNotified(x) == x \in loop.left /\ \A y \in loop.left : ~ Before(y[1], x[1])

Signal(left, rw, fd) ==
  /\ task' = Woken({rw}, fd)
  /\ loop' = IF left = {} THEN Running ELSE Notifying(left)

\* notify_fd without a function.
Notify(rw, fd) ==
  /\ loop.at = "notify" /\ NextNotified(<<rw, fd>>) /\ ~ func[rw][fd]
  /\ Signal(loop.left \ {<<rw, fd>>}, rw, fd)
  /\ UNCHANGED <<list, index, func, open, orphans, count>>

\* notify_fd calls the function, ...
Call(rw, fd) ==
  /\ loop.at = "notify" /\ NextNotified(<<rw, fd>>) /\ func[rw][fd]
  /\ loop' = [at |-> "call", left |-> loop.left \ {<<rw, fd>>}, rw |-> rw, fd |-> fd]
  /\ UNCHANGED <<list, index, func, task, open, orphans, count>>

\* ... removes it if it did not ask to be called again, and signals.
Return(again) ==
  /\ loop.at = "call"
  /\ Become(IF again THEN Lists ELSE Unwatched(Lists, loop.rw, loop.fd))
  /\ Signal(loop.left, loop.rw, loop.fd)
  /\ UNCHANGED <<open, orphans, count>>

Next ==
  \/ \E t \in Tasks : \/ \E rw \in Dirs, fd \in Fds : WaitFd(t, rw, fd)
                      \/ Resume(t) \/ TimeOut(t) \/ Kill(t)
  \/ \E rw \in Dirs, fd \in Fds :
       WhenFd(rw, fd) \/ WhenFdNil(rw, fd) \/ Notify(rw, fd) \/ Call(rw, fd)
  \/ \E fd \in Fds : Close(fd)
  \/ Select
  \/ \E again \in BOOLEAN : Return(again)

Spec == Init /\ [][Next]_vars

-----------------------------------------------------------------------------
TypeOK ==
  /\ list \in [Dirs -> Seq(Fds)]
  /\ index \in [Dirs -> [Fds -> 0 .. Cardinality(Fds)]]
  /\ func \in [Dirs -> [Fds -> BOOLEAN]]
  /\ \A t \in Tasks : task[t] = Idle \/ task[t] \in [st : {"waiting", "woken"}, rw : Dirs, fd : Fds]
  /\ open \subseteq Fds /\ orphans \subseteq Dirs \X Fds /\ count \in 0 .. MaxWatch

\* The two halves of a watch list agree, whatever is removed from its middle:
\* select() gets every watched descriptor once.
ListIsIndexed ==
  /\ TypeOK
  /\ \A rw \in Dirs, fd \in Fds, i \in 1 .. Cardinality(Fds) :
       (index[rw][fd] = i) <=> (i <= Len(list[rw]) /\ list[rw][i] = fd)

\* A task that waits is in the list given to select(), for a descriptor that is
\* open, so that it is woken: no other task's wait_fd, close or callback removes
\* it.  Conversely a watched descriptor has a task or a function, otherwise
\* select() returns again and again for nobody and nobody can wait for it any
\* more; only a task killed in wait_fd leaves such a descriptor behind.
WatchedIffWaited ==
  /\ \A t \in Tasks : task[t].st = "waiting" =>
       index[task[t].rw][task[t].fd] # 0 /\ task[t].fd \in open
  /\ \A rw \in Dirs, fd \in Fds :
       index[rw][fd] # 0 /\ <<rw, fd>> \notin orphans =>
         func[rw][fd] \/ \E t \in Tasks : WaitsFor(t, rw, fd)

\* Both: the watch lists are sound, and what is watched is what is waited for,
\* through every wait, timeout, kill, close and callback.
WatchedIsWaited == ListIsIndexed /\ WatchedIffWaited
=============================================================================
