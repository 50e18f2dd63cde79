SPECIFICATION Spec
CONSTANTS
  MaxNumAssets = 2
  MaxNumParts = 2
  MaxNumSubAllocations = 1
  MaxBigIntLength = 1
  SliceMod = 4
  StateApps = {"pay", "mock"}
  DataApps = {"mock"}
  c1 = c1
  c2 = c2
  Calls <- MCCalls
  NoCall = NoCall
  Envelopes <- MCEnvelopes
  MayFail = TRUE
INVARIANTS
    InSync
    
    
PROPERTIES
    SentIsReceived
