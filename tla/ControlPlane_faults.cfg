CONSTANTS
  Pipelines <- BuiltinPipelines
  Models <- SharedModels
  ModelsOf <- BuiltinModelsOf
  MaxConcurrentLoads = 1
  MaxActive = 1
  Unloaders = {"operator"}
  Faults <- AllFaults
  NoOne = NoOne
SPECIFICATION Spec
INVARIANTS
  TypeOK
  SingleLoader
  LoadBound
  RefNoLeak
PROPERTY UnloadSparesInference
