CONSTANTS
  MaxPages = 4
  PageSize = 4
  UserData = 1
  WordSize = 32
  Size <- MCSize
SPECIFICATION Spec
INVARIANTS TypeOK ListTilesHeap NothingLeaks BlocksHoldRequests
PROPERTIES ImplementsHeap AllocateReturns
