\* A detail line with a zero duration after a marker.
SPECIFICATION Spec
CONSTANTS
  Bundles = {1}
  Sizes <- MCExactSizes
  Durations = {0, 1}
  MaxLines = 3
INVARIANT ScanCompletes
\* The scan ends once every line is read.
CHECK_DEADLOCK FALSE
