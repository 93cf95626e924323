CONSTANTS
  CallbackTypes = {"JumpAcrossGap", "IsAbleToClimb"}
  Leaping = {"JumpAcrossGap"}
  IdleTime = 1
  UnstickAfter = 1
  StillStuckAfter = 1
  EscapeTime = 2
  LongAgo = 3
  MaxDepth = 3
  MaxOverlays = 3
  LayerPriorities = {0, 1}
  Activities = {"wave"}
  Ids = {0, 1}
  Indexes = {33, 34, 2047}
  MaxPlayers = 32
  MaxIndex = 2048
  Serials = 2
  Settings = {1, 2}
  Kinds = {"locomotion", "intention"}
  MaxUpdates = 6
  Players = {p1, p2}
  TickRate = 1
  FrameLimit = 1
  MaxSlide = 1
  MaxCost = 2
  FramesAgo = 3
  StepHeight = 2
  MaxJump = 7
  Crouch = 2
  LookAhead = 2
  MinDepth = 1
  Fronts <- Bands
SPECIFICATION NpcsSpec
INVARIANTS BaseIsCallers LayersOrdered IdsResolve UpdatedOnce LowestLedge
PROPERTIES StuckIsLeft NoBotStarves
CHECK_DEADLOCK FALSE
