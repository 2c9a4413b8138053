SPECIFICATION ProcessSpec
CONSTANTS
  Programs <- MCPrograms
  Requests <- AllRequests
  CommandLines <- MCCommandLines
  Files <- MCFiles
  Atoi <- MCAtoi
  SIZE_MAX = 7
  MAX_QUBIT_NUMBER = 2
  MAX_BIT_NUMBER = 1
  MaxCalls = 3
INVARIANTS
  SimulatorTypeOK
  ArgumentsDecideOutcome
  SeedDecidesNumbers
  NumbersAreUsedOnce
  RegistersBelongTogether
  DirtyTellsInstructions
  MainAnswersItsArguments
CHECK_DEADLOCK FALSE
