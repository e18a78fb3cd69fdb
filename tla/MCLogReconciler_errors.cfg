CONSTANTS
  m1 = m1
  m2 = m2
  Counts <- MCCounts
  Messages <- MCMessages
  MaxLines = 2

SPECIFICATION Spec
INVARIANT ErrorsReported



\* The scan ends after the last pass over the file.
CHECK_DEADLOCK FALSE
