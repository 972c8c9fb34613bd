CONSTANTS
  Pipelines <- BuiltinPipelines
  Models <- SharedModels
  ModelsOf <- BuiltinModelsOf
  MaxConcurrentLoads = 1
  MaxActive = 0
  Unloaders = {}
  Faults <- LoadFailure
  NoOne = NoOne
SPECIFICATION Spec
PROPERTY DeactivateOwnReferences
