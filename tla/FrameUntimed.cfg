\* The pipeline with every timed wait free to expire.
CONSTANTS
  GraceCovers = FALSE
  PpaTimely = FALSE
SPECIFICATION FairSpec
INVARIANTS
  TypeOK
  FrameExclusion
  SemaphoresLive
PROPERTIES
  FramesAreWhole
  FrameEnds
  QuitReachesMenu
