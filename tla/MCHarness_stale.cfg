CONSTANTS
  h1 = h1
  h2 = h2
  Tests <- MCTestsTransfer
  Hosts <- MCHosts
  Payloads <- MCPayloads
  NonZeroExitRaises = FALSE
  FaultKinds <- LostAndTimeout
  MaxFaults = 2
  MaxRuns = 2
  InitResidue <- NoResidue

SPECIFICATION Spec
INVARIANT NoFalsePass
CHECK_DEADLOCK FALSE
