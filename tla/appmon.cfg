\* One autostarted application and one that clients set up, which survives
\* SIGTERM.  Three pids: one for each application and one to restart with.
SPECIFICATION FairSpec
CONSTANTS
  NoPid = NoPid
  Apps = {a1, a2}
  Pids = {p1, p2, p3}
  Privileged = {a1}
  Stubborn = {a2}
  PidReuse = FALSE
  LastSecond = FALSE
  OwnEndings = {"ok", "error"}
CHECK_DEADLOCK FALSE
PROPERTIES BeliefsAreTrue DaemonProceeds
