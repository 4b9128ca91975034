CONSTANTS
  Envoys = {e1, e2}
  Streams = {s1, s2}
  Buffers = {b1, b2}
  PoolSize = 1
  MaxEntries = 2
  MaxMessages = 2
  None = None
SPECIFICATION FairSpec
PROPERTY SentIsWritten
CHECK_DEADLOCK FALSE
