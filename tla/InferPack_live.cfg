CONSTANTS
  Pipelines <- LivePipelines
  Models <- LiveModels
  ModelsOf <- LiveModelsOf
  MaxConcurrentLoads = 1
  MaxActive = 1
  Unloaders = {}
  Faults <- TritonFaults
  NoOne = NoOne
  Executions = {"e1", "e2"}
  StagesOf <- LiveStages
  Keys <- TheKeys
  Inputs <- OnlyImages
  MaxConcurrentExecutions = 1
  DefaultRetries <- NegativeRetries
  NoModel = NoModel
  Transport <- BothServers
  Routes <- DetectionRoute
SPECIFICATION SystemFairSpec
PROPERTIES
  RequestAnswered
  ReleasedUnloaded
