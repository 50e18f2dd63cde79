CONSTANTS
  MaxNumAssets = 2
  MaxNumParts = 2
  MaxNumSubAllocations = 2
  ParentBals <- MCParentBals
  VirtualBals <- MCVirtualBals
  Requests <- MCRequests
  MaxVersion = 2
  MaxSettles = 2
  Disputers = {1, 2}
  SendsFail = {1, 2}
SPECIFICATION Spec
INVARIANT RespondedOnce
CHECK_DEADLOCK FALSE
