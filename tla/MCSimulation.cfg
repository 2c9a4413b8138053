CONSTANTS
  Scale = 2
  NumberOfQubits = 2
  NumberOfBits = 2
  ZERO_CYCLE_SIZE = 2
  Gates <- SimulationGates
  DrawRange = 8
  Draws = {1, 6}
  Jobs <- SmallJobs
  NDEBUG = FALSE
SPECIFICATION SimulationSpec
INVARIANTS SimulationTypeOK CountsMatchShots ResultIsComplete ResultIsTheLastState
  RegistersTellLastMeasure IterationsAreIndependent
