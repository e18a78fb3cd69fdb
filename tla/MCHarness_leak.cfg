CONSTANTS
  h1 = h1
  h2 = h2
  Tests <- MCTestsUpdate
  Hosts <- MCHosts
  Payloads <- MCPayloads
  NonZeroExitRaises = FALSE
  FaultKinds <- AllFaults
  MaxFaults = 1
  MaxRuns = 1
  InitResidue <- NoResidue

SPECIFICATION Spec
INVARIANT SessionsReleased
CHECK_DEADLOCK FALSE
