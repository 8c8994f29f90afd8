CONSTANT Inputs <- StoreInputs
SPECIFICATION Spec
INVARIANT
  ScansWhatRuns
