CONSTANTS
  Scale = 4
  NumberOfQubits = 3
  NumberOfBits = 2
  ZERO_CYCLE_SIZE = 3
  Gates <- EveryGate
  DrawRange = 8
  Draws = {1, 6}
  Jobs <- EveryInstruction
  NDEBUG = TRUE
SPECIFICATION SimulationSpec
PROPERTIES InstructionsAreIdeal
