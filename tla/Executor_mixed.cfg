CONSTANTS
  Executions = {"e1", "e2", "e3"}
  Pipelines = {"face_comparison", "custom", "report"}
  StagesOf <- MixedStages
  Models <- ExecModels
  Keys <- AllKeys
  Inputs <- SomeImages
  MaxConcurrentExecutions = 2
  DefaultRetries <- NegativeRetries
  NoModel = NoModel
SPECIFICATION Spec
INVARIANTS
  TypeOK
  InferenceBalance
  OutcomeShape
  DataFlow
  KeysFlow
PROPERTIES
  JobSpec
