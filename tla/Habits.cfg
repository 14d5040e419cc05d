SPECIFICATION Spec
CONSTANTS
  Clients = {c1, c2, c3}
  Http2Clients = {c3}
  Streams = {1}
  FdLimit = 2
  Libraries = {a}
  MaxPlugins = 1
  Statuses = {500}
  MaxEvents = 2
  Habits = {"late_send", "late_decline"}
  NoRequest = NoRequest
CHECK_DEADLOCK FALSE
INVARIANTS SecondAnswerIsLast
PROPERTY StrayOnlyByKeptDescriptor
