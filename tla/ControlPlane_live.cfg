CONSTANTS
  Pipelines <- OppositePipelines
  Models <- SharedModels
  ModelsOf <- OppositeModelsOf
  MaxConcurrentLoads = 1
  MaxActive = 1
  Unloaders = {}
  Faults <- TritonFaults
  NoOne = NoOne
SPECIFICATION FairSpec
INVARIANT NoOrphan
PROPERTIES
  ActivationEnds
  IdleUnloaded
