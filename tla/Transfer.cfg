SPECIFICATION Spec
CONSTANTS
  Clients = {c1, c2}
  Aborting = {c1}
  NoClient = NoClient
  FdLimit = 3
  InitBuf = 2
  SniffLen = 2
  ReqLen = 4
  HdrLen = 3
  FileLen = 4
  ChunkLen = 3
  DirectLen = 2
  SndCap = 2
  Shrinks = TRUE
CHECK_DEADLOCK FALSE
INVARIANTS TypeOK BufferHasRoom WireInOrder
PROPERTIES ClosedOnlyWhenAnswered ImplementsExchange
