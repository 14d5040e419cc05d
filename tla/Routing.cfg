SPECIFICATION Spec
CONSTANTS
  Plugins <- MCPlugins
  MaxPlugins = 2
  Requests <- MCRequests
  MaxParams = 2
CHECK_DEADLOCK FALSE
INVARIANTS OnlyEligibleServe FirstServes WrapperPicksSame QueryDelivered FormDelivered
