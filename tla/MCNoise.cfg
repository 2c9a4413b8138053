CONSTANTS
  Scale = 2
  NumberOfQubits = 2
  NumberOfBits = 1
  ZERO_CYCLE_SIZE = 2
  Gates <- NoisyGates
  DrawRange = 8
  Draws = {3}
  UINT_FAST64_MAX = 31
  MANTISSA = 16
  NoisyCircuits <- SmallCircuits
  Probabilities <- Quarters
  Words <- MCWords
SPECIFICATION NoisySpec
INVARIANTS NoisyTypeOK ExtremesAreCertain ErrorsAreEven QubitsAreEquallyLikely OutcomesTellErrors
PROPERTIES OperandIsFound
