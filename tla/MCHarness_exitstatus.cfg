CONSTANTS
  h1 = h1
  h2 = h2
  Tests <- MCTestsRemote
  Hosts <- MCHosts
  Payloads <- MCPayloads
  NonZeroExitRaises = TRUE
  FaultKinds <- AllFaults
  MaxFaults = 0
  MaxRuns = 1
  InitResidue <- NoResidue

SPECIFICATION Spec
INVARIANT CleanupCompletes
CHECK_DEADLOCK FALSE
