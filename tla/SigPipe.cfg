SPECIFICATION Spec
CONSTANTS
  Clients = {c1}
  Aborting = {c1}
  NoClient = NoClient
  FdLimit = 2
  InitBuf = 2
  SniffLen = 2
  ReqLen = 2
  HdrLen = 2
  FileLen = 2
  ChunkLen = 2
  DirectLen = 2
  SndCap = 2
  Shrinks = FALSE
CHECK_DEADLOCK FALSE
INVARIANT ServerSurvives
