SPECIFICATION FairSpec
CONSTANTS
  Clients = {c1, c2}
  Aborting = {}
  NoClient = NoClient
  FdLimit = 2
  InitBuf = 2
  SniffLen = 2
  ReqLen = 3
  HdrLen = 3
  FileLen = 4
  ChunkLen = 3
  DirectLen = 2
  SndCap = 2
  Shrinks = FALSE
CHECK_DEADLOCK FALSE
PROPERTIES EventuallyClosed BegunIsFinished
