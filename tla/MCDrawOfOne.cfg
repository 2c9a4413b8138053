CONSTANTS
  Scale = 2
  NumberOfQubits = 1
  NumberOfBits = 1
  ZERO_CYCLE_SIZE = 2
  Gates <- Flip
  DrawRange = 8
  Draws = {4, 8}
SPECIFICATION Spec
INVARIANTS Normalized
CHECK_DEADLOCK FALSE
