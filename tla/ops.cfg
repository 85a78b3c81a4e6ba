\* Words of eight bits, addresses of 256 bytes.  Operands: zero, a bit, misaligned, and the last
\* word below zero.
CONSTANTS
  Bits = 8
  Size = 3
  Args = {0, 1, 3, 252}
  Deep = 2
  MaxOps = 2
SPECIFICATION Spec
INVARIANTS   ZeroOrNot Computes
