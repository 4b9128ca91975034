CONSTANTS
  Envoys = {e1, e2}
  Streams = {s1, s2}
  Buffers = {b1, b2}
  PoolSize = 1
  MaxEntries = 2
  MaxMessages = 3
  None = None
SPECIFICATION FairSpec
INVARIANTS TypeOK LinesWhole WrittenInOrder
PROPERTY ReceivedIsWritten
CHECK_DEADLOCK FALSE
