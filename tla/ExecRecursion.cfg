\* A procedure that calls itself and runs without screen refresh.
SPECIFICATION FairSpec
CONSTANTS
  MainSize = 1
  CallSize = 1
  SubSize = 2
  ControlOps = {}
  MainOps = {"call"}
  ProcOps = {"if", "call"}
  RecvOps = {}
  Recursive = TRUE
  Mixed = TRUE
  Programs <- SmallPrograms
  Blocks <- AllBlocks
  Chains <- AllChains
  Messages = {"m"}
  None <- NoBlock
  MaxTimes = 1
  MaxPresses = 1
CONSTRAINT Shallow
PROPERTY FrameEnds
