\* Programs of three operations, and of two that may spoil one another.  Two calls, and a handler
\* that refuses any machine: the end.
CONSTANTS
  Limit = 4
  QueueCap = 2
  Progs <- TheProgs
  Mach <- Machs
  Root = 1
  NoMach <- Nobody
  MaxCalls = 2
  Refusals = {FALSE, TRUE}
SPECIFICATION Spec
INVARIANTS Named CountsRan EntriesOwned 
PROPERTIES TraceIsRun
CHECK_DEADLOCK FALSE
