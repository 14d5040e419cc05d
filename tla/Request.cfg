SPECIFICATION Spec
CONSTANTS
  Lines <- MCLines
  Bodies <- MCBodies
  MaxLines = 2
  MaxHeaders = 2
CHECK_DEADLOCK FALSE
INVARIANTS ParsedWhenWhole HeadersDelivered BodyDelivered
