SPECIFICATION Spec
CONSTANTS
  Clients = {c1, c2, c3}
  Http2Clients = {c3}
  Streams = {1, 3}
  FdLimit = 2
  Libraries = {a}
  MaxPlugins = 2
  Statuses = {500}
  MaxEvents = 1
  Habits = {}
  NoRequest = NoRequest
CHECK_DEADLOCK FALSE
INVARIANTS TypeOK UsableIsReady CallsReachTheirStream
PROPERTY ImplementsStreams
