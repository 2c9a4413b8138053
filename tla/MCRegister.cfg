CONSTANTS
  Names = {"a", "b", "c"}
  Declarations <- MCDeclarations
  max_register_size = 4
SPECIFICATION Spec
INVARIANTS TypeOK NamesAndIndicesAgree
PROPERTIES ConstructionEnds
CHECK_DEADLOCK FALSE
