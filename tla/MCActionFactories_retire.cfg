\* Two factories, two bots, and callbacks that do whatever they like once.
SPECIFICATION Spec
CONSTANTS
  Factories = {f1, f2}
  Classes = {"c"}
  Bots = {b1, b2}
  MaxLoose = 2
  MaxDepth = 4
  MaxCalls = 1
  CallsBack <- Survivable
SYMMETRY Symmetry
INVARIANTS NothingDangles OneOwner
CHECK_DEADLOCK FALSE
