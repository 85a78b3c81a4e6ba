\* The documented overflow check.
CONSTANTS
  Words = 9
  Size = 4
  Val = {0, 1}
SPECIFICATION Spec
INVARIANTS NeverPassed
