CONSTANTS
  a = a
  b = b
  Letters = {a, b}
  START = START
  END = END
  EOF = EOF
  Chains <- UpToThree
  Others <- UpToThree
SPECIFICATION Spec
INVARIANT TypeOK
INVARIANT LoadsWholeBlocks
INVARIANT NothingInvented
CHECK_DEADLOCK FALSE
