\* Scripts, procedures and receivers whose loops all end.
SPECIFICATION FairSpec
CONSTANTS
  MainSize = 3
  CallSize = 3
  SubSize = 1
  ControlOps = {}
  MainOps = {"call", "wait", "if", "repeat", "bwait"}
  ProcOps = {"wait"}
  RecvOps = {"wait"}
  Recursive = FALSE
  Mixed = TRUE
  Programs <- SmallPrograms
  Blocks <- AllBlocks
  Chains <- AllChains
  Messages = {"m"}
  None <- NoBlock
  MaxTimes = 1
  MaxPresses = 1
PROPERTY ScriptsEnd
