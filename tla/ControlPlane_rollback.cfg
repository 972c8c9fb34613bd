CONSTANTS
  Pipelines <- SharedPipelines
  Models <- SharedModels
  ModelsOf <- SharedModelsOf
  MaxConcurrentLoads = 1
  MaxActive = 0
  Unloaders = {}
  Faults <- LoadFailure
  NoOne = NoOne
SPECIFICATION Spec
PROPERTY RollbackExact
