SPECIFICATION Spec
CONSTANTS
  N = 2
  MaxRetries = 2
  Protos = {"m3da", "localupdate"}
  MayFail = {"download", "check", "asset", "ack"}
  Commands = {"pause", "resume", "abort"}
  MaxUpdates = 1
  MaxEvents = 3
CHECK_DEADLOCK FALSE
CONSTRAINT StillInTime
INVARIANT RetriesKept
