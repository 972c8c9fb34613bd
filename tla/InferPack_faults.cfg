CONSTANTS
  Pipelines <- TwoPipelines
  Models <- TwoModels
  ModelsOf <- TwoModelsOf
  MaxConcurrentLoads = 1
  MaxActive = 1
  Unloaders = {}
  Faults <- SystemFaults
  NoOne = NoOne
  Executions = {"e1", "e2"}
  StagesOf <- TwoStages
  Keys <- TheKeys
  Inputs <- OnlyImages
  MaxConcurrentExecutions = 1
  DefaultRetries = 1
  NoModel = NoModel
  Transport <- BothServers
  Routes <- DetectionRoute
SPECIFICATION SystemSpec
INVARIANTS
  ActiveServes
  StuckOnlyByGrpc
  StatusTruthful
PROPERTIES
  AdmittedServed
  PlanesKept
