\* Four words of stack and five beyond; every order of operations.
CONSTANTS
  Words = 9
  Size = 4
  Val = {0, 1}
SPECIFICATION Spec
INVARIANTS TypeOK StacksServed 
PROPERTIES AbsSpec
