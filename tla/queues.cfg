SPECIFICATION MCSpec
CONSTANTS
  \* Pipe: two tasks at each end.
  Readers = {r1, r2}
  Writers = {w1, w2}
  Limits = {0, 1, 2}
  WasteAbs = 1
  WasteProp = 1
  MaxSend = 4
  MaxTune = 1
  Nothing = Nothing
  \* DataManager
  tbl = tbl
  rec = rec
  Tables <- TwoTables
  Records <- OneRecord
  MaxRows <- TwoRows
  RowBound = 2
  FailBound = 2
INVARIANTS PipeSafe DataIsKept
PROPERTIES FifoSpec SentIsReceived FlushedIsSent
