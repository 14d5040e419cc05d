SPECIFICATION FairSpec
CONSTANTS
  Clients = {c1}
  Aborting = {c1}
  Upgraders = {c1}
  NoClient = NoClient
  FdLimit = 1
  InitBuf = 2
  SniffLen = 1
  ReqLen = 8
  PrefaceLen = 2
  FrameLen = 2
  UpgradeLen = 2
  BodyLen = 1
  FileLen = 0
  SndCap = 2
CHECK_DEADLOCK FALSE
INVARIANTS TypeOK BufferHasRoom DescriptorsAccounted RepliesInOrder
PROPERTIES KeptWhileClientStays RequestsAnswered
