SPECIFICATION Spec
CONSTANTS
  Size = 200
  SizeT = 65536
  EventLens = {0, 9, 100, 180, 181, 190, 197, 199, 220}
  LineLens <- MCLineLens
  MaxLines = 4
CHECK_DEADLOCK FALSE
INVARIANTS TypeOK OverrunOnlyByName EventAsSent CutAtTheEnd
