\* The 50 ms pause delay, without the assumption that it outlasts a frame.
CONSTANTS
  GraceCovers = FALSE
  PpaTimely = TRUE
SPECIFICATION Spec
INVARIANT OverlayOwnsPanel
