CONSTANT Inputs <- MCInputs
SPECIFICATION Spec
INVARIANTS
  TypeOK
  EveryBlockResolved
  TargetsInside
  AgreesWithStructure
PROPERTIES
  TargetsStable
  Terminates
