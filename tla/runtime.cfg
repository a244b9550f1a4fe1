SPECIFICATION MCSpec
CONSTANTS
  Coroutines = {c1, c2}
  Gpios = {g1, g2}
  Hooks = {h1}
  \* SwiLog
  Threads = {t1, t2}
  Modules = {"AV", "AV1", "DT"}
  Levels = {1, 3}
  Within <- NamedInPart
  WithDigit <- NamedWithDigit
  Envs <- Verbosities
  MaxCalls = 4
INVARIANTS
  CollectedIsGarbage
  TableIsFaithful
  CallsAreBalanced
  StreamIsKept
  GpioIsTruthful
  LatestLogsAreKept
  DatabaseIsWhole
  
  LogIsOwn
CHECK_DEADLOCK FALSE
