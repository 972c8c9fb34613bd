CONSTANTS
  Pipelines <- BuiltinPipelines
  Models <- SharedModels
  ModelsOf <- BuiltinModelsOf
  MaxConcurrentLoads = 1
  MaxActive = 0
  Unloaders = {}
  Faults <- Cancellation
  NoOne = NoOne
SPECIFICATION Spec
INVARIANT LockSerialisesLoads
