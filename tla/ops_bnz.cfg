\* One operation on stacks of up to two words.
CONSTANTS
  Bits = 8
  Size = 3
  Args = {0, 1, 3, 129, 252}
  Deep = 2
  MaxOps = 1
SPECIFICATION Spec
INVARIANTS BranchIfNonZero
