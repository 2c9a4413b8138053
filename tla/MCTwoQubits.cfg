CONSTANTS
  Scale = 2
  NumberOfQubits = 2
  NumberOfBits = 2
  ZERO_CYCLE_SIZE = 2
  Gates <- CliffordGates
  DrawRange = 8
  Draws = {1, 6}
SPECIFICATION Spec
INVARIANTS TypeOK Normalized SettledAgree CleanupIsInvisible EntriesInAnyOrder
PROPERTIES MeasurementsRepeat RefinesIdeal
CHECK_DEADLOCK FALSE
