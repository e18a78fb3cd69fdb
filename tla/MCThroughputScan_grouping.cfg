\* Every input of up to seven lines: marker, malformed, newlog and details
\* of two sizes, long enough for S1 S1 S2 in one log or a size shared by
\* the end of one log and the start of the next; durations 0 and 1, so
\* that a zero duration ends some scans early.
SPECIFICATION Spec
CONSTANTS
  Bundles = {1}
  Sizes <- MCExactSizes
  Durations = {0, 1}
  MaxLines = 7
INVARIANT TypeOK
INVARIANT SeriesGrouping
\* The scan ends once every line is read.
CHECK_DEADLOCK FALSE
