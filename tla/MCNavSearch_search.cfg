\* Five areas, two searches that may be nested, or one search and a native inside it.
SPECIFICATION SearchSpec
CONSTANTS
  a1 = a1
  a2 = a2
  a3 = a3
  a4 = a4
  a5 = a5
  Areas = {a1, a2, a3, a4, a5}
  NoArea = NoArea
  Floor <- MeshFloor
  Climbs <- MeshClimbs
  Place <- MeshPlace
  Height <- MeshHeight
  Teams <- MeshTeams
  Requests <- SomeRequests
  Surveys <- SomeSurveys
  Costs <- AnyCosts
  StartCosts <- FirstCosts
  MaxDepth = 2
  MaxCalls = 2
  MaxNatives = 1
  Offers <- SomeOffers
INVARIANTS OpenListSound ParentsLeadHome
PROPERTIES SearchEnds
CHECK_DEADLOCK FALSE
