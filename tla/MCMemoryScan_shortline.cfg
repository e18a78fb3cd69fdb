\* One log with a recording followed by a blank line.
SPECIFICATION Spec
CONSTANTS
  Used = {1}
  MaxLines = 2
INVARIANT ScanCompletes
\* The scan ends once every line is read.
CHECK_DEADLOCK FALSE
