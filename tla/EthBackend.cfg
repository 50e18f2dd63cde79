SPECIFICATION Spec
CONSTANTS
  Parts = {1, 2}
  Depositor <- MCDepositor
  Agreement <- MCAgreement
  Outcome <- MCOutcome
  Registered <- MCRegistered
  MaxFunds <- MCMaxFunds
  Disputers = {2}
  MaxSendFailures = 1
  MaxCancels <- MCMaxCancels
INVARIANTS
  
  WithdrawnIsPaid
  SentCanBeMined
CHECK_DEADLOCK FALSE

  
