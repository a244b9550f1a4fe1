SPECIFICATION MCSpec
CONSTANTS
  \* Fd: three descriptors in two directions.
  Fds = {f1, f2, f3}
  Tasks = {p1, p2}
  Dirs = {"read", "write"}
  MaxWatch = 3
  o1 = o1
  s1 = s1
  s2 = s2
  t1 = t1
  h1 = h1
  p1 = p1
  p2 = p2
  nobody = nobody
SYMMETRY Symmetry
CHECK_DEADLOCK FALSE
INVARIANTS LeavesAreReturned
