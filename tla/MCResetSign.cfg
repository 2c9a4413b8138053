CONSTANTS
  Scale = 2
  NumberOfQubits = 2
  NumberOfBits = 1
  ZERO_CYCLE_SIZE = 2
  Gates <- CliffordGates
  DrawRange = 8
  Draws = {4}
SPECIFICATION Spec
PROPERTIES ResetMovesAmplitude
CHECK_DEADLOCK FALSE
