\* One follower, two subjects, callbacks that use the path as they like; and two maps.
SPECIFICATION BothSpec
CONSTANTS
  MaxSegs = 5
  MaxWait = 1
  Subjects = {s1, s2}
  Routes <- AllRoutes
  a1 = a1
  a2 = a2
  a3 = a3
  a4 = a4
  a5 = a5
  b1 = b1
  b2 = b2
  b3 = b3
  NoArea = NoArea
  Areas = {a1,a2,a3,a4,a5,b1,b2,b3}
  CellSize = 3
  Ranges = {0,2,5}
  Counters = {1}
  MaxCount = 3
  Step = 1
  Beneath = 3
SYMMETRY Symmetry
INVARIANTS PathConsistent CollectsAll NearestFound
PROPERTIES PathAsSearched
CHECK_DEADLOCK FALSE
