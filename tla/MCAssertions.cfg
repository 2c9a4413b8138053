CONSTANTS
  Scale = 2
  NumberOfQubits = 1
  NumberOfBits = 1
  ZERO_CYCLE_SIZE = 2
  Gates <- Hadamard
  DrawRange = 8
  Draws = {1, 6}
  Jobs <- OneMeasure
  NDEBUG = FALSE
SPECIFICATION SimulationSpec
INVARIANTS AssertionsHold
