SPECIFICATION MCSpec
CONSTANTS
  \* Exec: two tasks that execute commands, with a ring of two signals.
  Tasks = {t1, t2}
  Others = {"SIGTERM"}
  MaxSignals = 2
  MaxRuns = 2
  MaxOther = 3
  None = None
  \* Timer
  o1 = o1
  o2 = o2
  p1 = p1
  \* Lock: with two locks a thread can own one and wait for the other; with
  \* three threads one can barge in between a release and the resumption of
  \* the waiter that was signalled, while another still waits.
  Threads = {th1, th2, th3}
  Locks = {l1, l2}
  nil = nil
  Destroyed = Destroyed
CHECK_DEADLOCK FALSE
INVARIANTS TimersAreExact SignalsAreKept Bookkeeping WakeupPending
PROPERTIES DueIsTriggered ExecuteReturns WaitersServed
