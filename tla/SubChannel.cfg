SPECIFICATION Spec
CONSTANTS
  MaxNumAssets = 1
  MaxNumParts = 2
  MaxNumSubAllocations = 1
  ParentBals <- MCParentBals
  SubBals <- MCSubBals
  Options <- MCOptions
  Calls <- MCCalls
  Registers = {1, 2}
INVARIANTS
  LockedIsBacked
  FundingNotDropped
  LocksReleased

  
CHECK_DEADLOCK FALSE
