CONSTANTS
  Boxes = {1, 2, 3}
  Num = 2
  Den = 5
  Shapes <- Squares
  Scores = {1, 2}
  Anchors <- TwoStrides
  Answers <- SomeAnswers
  Target = 4
  Sides = {1, 2, 3, 5, 7}
  Places <- SomePlaces
  MaxFaces = 3
  MaxDetections = 2
  Batching = TRUE
  BatchSize = 2
  Similarities <- Cosines
  Threshold = 6
  Outputs <- BuiltinOutputs
  MaxListItems = 20
SPECIFICATION DataSpec
INVARIANTS
  OwnTensors
  GreedyKept
  RegionCovers
  FailsForReason
  Aligned
  BestFirst
  OwnDetails
