SPECIFICATION Spec
CONSTANTS
  Width = 4
  Plenty = 45
  Deep = TRUE
  Protos <- MCProtos
  Samples <- MCSamples
PROPERTIES
  FollowsBytecode
  DefinitionsDominate
  AnalysesExact
