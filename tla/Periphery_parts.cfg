CONSTANTS
  Models = {"scrfd", "arcface"}
  Protocols = {"http", "grpc"}
  MaxBacklog = 2
  Unhashable = Unhashable
  Builtins <- SomeBuiltins
  Customs <- UpToThree
  Files <- SomeFiles
  Environments <- SomeEnvironments
  Offers <- OtherStages
  EnvLists <- Lists
  ExtraLists <- Lists
  HttpRequests = {"h1", "h2"}
  GrpcRequests = {"g1", "g2"}
  Activations = {"h1"}
  StartFaults = {"config", "components", "discovery", "loop", "grpc"}
SPECIFICATION PeripheryFairSpec
INVARIANTS
  OneFileSparesOthers
  Priority
  BuiltinTypesServed
  ClientOutlivesUsers
  BelievedIsLoaded
PROPERTIES
  ShutdownCompletes
  CallReturns
