\* Two threads that share one slot and send two commands over a connection that
\* may break, and a command of the agent, with the windows of the code and what
\* follows them.
SPECIFICATION FairSpec
CONSTANTS
  Callers = {c1, c2}
  N = 1
  MaxReq = 2
  MaxBreak = 1
  MaxEvents = 1
INVARIANTS AnswersAreOwn
PROPERTIES CallReturns
CHECK_DEADLOCK FALSE
