CONSTANTS
  h1 = h1
  h2 = h2
  Tests <- MCTestsAll
  Hosts <- MCHosts
  Payloads <- MCPayloads
  NonZeroExitRaises = FALSE
  FaultKinds <- AllFaults
  MaxFaults = 0
  MaxRuns = 2
  InitResidue <- NoResidue

SPECIFICATION Spec
INVARIANT HostsRestored
INVARIANT SessionsReleased
INVARIANT CleanupCompletes
\* The harness process exits after its last run.
CHECK_DEADLOCK FALSE
