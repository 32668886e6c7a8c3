\* Every script of up to four control blocks, and every script of up to three
\* blocks that calls a procedure of up to two, or sends a message to a receiver
\* of up to two.
SPECIFICATION Spec
CONSTANTS
  MainSize = 4
  CallSize = 3
  SubSize = 2
  ControlOps = {"wait", "waituntil", "if", "repeat", "until", "forever", "stopthis"}
  MainOps = {"call", "bwait", "broadcast", "wait", "if", "repeat", "stopother", "stopall"}
  ProcOps = {"wait", "if", "repeat", "until", "stopthis"}
  RecvOps = {"wait", "repeat", "until", "stopall"}
  Recursive = FALSE
  Mixed = FALSE
  Programs <- SmallPrograms
  Blocks <- AllBlocks
  Chains <- AllChains
  Messages = {"m"}
  None <- NoBlock
  MaxTimes = 2
  MaxPresses = 2
INVARIANTS TypeOK WellNested NoOrphan
PROPERTIES ScriptsFollowed DropsItself BroadcastWaits
