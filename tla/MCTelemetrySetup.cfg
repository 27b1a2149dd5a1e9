SPECIFICATION Spec
CONSTANT
  Setups = 2
INVARIANTS
  PartialSetupUnwound
  GlobalsAgree
  ShutdownStopsAll
  ShutdownIsObserved
