\* A plugin closes an action factory while it makes the INextBot of an entity.
SPECIFICATION Spec
CONSTANTS
  Factories = {f1}
  Classes = {"c"}
  Bots = {b1}
  MaxLoose = 0
  MaxDepth = 2
  MaxCalls = 1
  CallsBack <- ClosedMeanwhile
INVARIANT SeveredAtOnce
CHECK_DEADLOCK FALSE
