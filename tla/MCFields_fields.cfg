CONSTANTS
  ByteBits = 2
  Names = {"hp", "ammo"}
  Shapes <- FieldShapes
  Values <- FieldValues
  Pool <- FieldPool
  StockSize = 6
  MaxFields = 2
  MaxBegins = 2
  MaxSteps = 2
  ModelBits = 5
  EntryBits = 3
  EdictBits = 2
  SerialBits = 3
  Circle = 100
  DataNames = {"hp", "HP"}
  DataFolded <- FoldedNames
  DataShapes <- ActionShapes
  MaxElement = 2
  Actions = {"a1"}
SPECIFICATION FieldsSpec
INVARIANTS CacheFresh DataApart
PROPERTIES ImplementsStore
CHECK_DEADLOCK FALSE
