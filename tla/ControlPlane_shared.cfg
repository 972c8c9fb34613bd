CONSTANTS
  Pipelines <- SharedPipelines
  Models <- SharedModels
  ModelsOf <- SharedModelsOf
  MaxConcurrentLoads = 1
  MaxActive = 1
  Unloaders = {}
  Faults <- NoFaults
  NoOne = NoOne
SPECIFICATION Spec
INVARIANT RefExact
PROPERTIES
  ReadyFollowsReferences
  LeaseSpec
