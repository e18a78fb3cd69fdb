\* Every input of one or two logs up to six lines after the first "newlog",
\* short lines included: a sender and a receiver recording with their
\* Mem: and Swap: lines fit in one log, or a recording in each of two.
SPECIFICATION Spec
CONSTANTS
  Used = {1}
  MaxLines = 6
INVARIANT TypeOK
INVARIANT MemoryAttributed
\* The scan ends once every line is read.
CHECK_DEADLOCK FALSE
