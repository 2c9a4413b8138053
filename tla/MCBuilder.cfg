SPECIFICATION Spec
CONSTANTS
  Scale = 2
  Programs <- SmallPrograms
INVARIANTS
  TypeOK
  GatesFit
  InstructionsAreTheProgram
  InitsComeFirst
  ModifiersMakeNamedGates
PROPERTY BuildingEnds
CHECK_DEADLOCK FALSE
