\* Every test case, ssh exit statuses not raised, one fault of any kind, and
\* a second harness process against the hosts as the first one left them.
CONSTANTS
  h1 = h1
  h2 = h2
  Tests <- MCTestsAll
  Hosts <- MCHosts
  Payloads <- MCPayloads
  NonZeroExitRaises = FALSE
  FaultKinds <- AllFaults
  MaxFaults = 1
  MaxRuns = 2
  InitResidue <- NoResidue

SPECIFICATION Spec
PROPERTY LifecycleRefined
PROPERTY Terminates
\* The harness process exits after its last run.
CHECK_DEADLOCK FALSE
