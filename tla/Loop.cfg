SPECIFICATION Spec
CONSTANTS
  Clients = {c1, c2, c3}
  Aborting = {c1, c2, c3}
  NoClient = NoClient
  FdLimit = 2
  InitBuf = 2
  SniffLen = 1
  ReqLen = 1
  HdrLen = 1
  FileLen = 1
  ChunkLen = 1
  DirectLen = 2
  SndCap = 2
  Shrinks = FALSE
CHECK_DEADLOCK FALSE
SYMMETRY Symmetry
INVARIANTS DescriptorsAccounted HandlerOnLiveConnection NoLostEdge
