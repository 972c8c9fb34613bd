CONSTANTS
  Pipelines <- BuiltinPipelines
  Models <- DisjointModels
  ModelsOf <- DisjointModelsOf
  MaxConcurrentLoads = 1
  MaxActive = 1
  Unloaders = {}
  Faults <- ProcessFaults
  NoOne = NoOne
SPECIFICATION Spec
INVARIANT ServedIsLoaded
PROPERTY LeaseSpec
