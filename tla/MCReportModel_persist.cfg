\* Three harness processes, each of which may report or abort, over a
\* FakeTestSuccessful and a transfer of two files.
SPECIFICATION Spec
CONSTANTS
  Cases <- MCCases
  NFiles = 2
  MaxRuns = 3
INVARIANT TypeOK
INVARIANT DailyAverageDefined
PROPERTY GraphStoreRefined
\* The last process exits after its report or its abort.
CHECK_DEADLOCK FALSE
