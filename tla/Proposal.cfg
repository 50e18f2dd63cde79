SPECIFICATION Spec
CONSTANTS
  MaxNumAssets = 1
  MaxNumParts = 2
  MaxNumSubAllocations = 1
  NilAddr = NilAddr
  StateApps = {"noApp"}
  Tasks = {1, 2}
  Request <- MCRequest
  MaxEvents = 1
INVARIANTS
  FundedIsSigned

PROPERTIES
  NoUpdateLostWhileOpening

CHECK_DEADLOCK FALSE
