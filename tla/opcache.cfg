\* Every program of two bytes, entered anywhere, with stores into its own code.
CONSTANTS
  Top = 6
  Cbp = 2
  Base = 4
  ProgLen = 2
  WordLen = 2
  MaxLen = 2
  Byte = {0, x, c}
  Cont = {c}
  Zero = 0
  Undefined = {}
  NoImm = {0}
  Array = {c0, c1, c2}
  QueueCap = 1
  MaxStores = 1
SYMMETRY ArraySymmetry
SPECIFICATION Spec
INVARIANTS TypeOK Coherent
