CONSTANTS
  Scale = 0
  NumberOfQubits = 3
  NumberOfBits = 2
  ZERO_CYCLE_SIZE = 2
  Gates <- MCGates
  DrawRange = 8
  Draws = {1, 6}
  Jobs = {}
  NDEBUG = FALSE
  AnalyzedPrograms <- MCPrograms
  MAX_QUBIT_NUMBER = 4
  MAX_BIT_NUMBER = 3
SPECIFICATION ExecutionSpec
INVARIANTS ResultAnswersTheProgram
PROPERTIES Termination ImplementsSimulator
