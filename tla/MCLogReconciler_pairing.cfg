CONSTANTS
  m1 = m1
  m2 = m2
  Counts <- MCCounts
  Messages <- MCMessages
  MaxLines = 5

SPECIFICATION Spec
INVARIANT TypeOK
INVARIANT PairingMatchesSpec
INVARIANT TalliesExact
\* The scan ends after the last pass over the file.
CHECK_DEADLOCK FALSE
