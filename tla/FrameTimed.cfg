\* The pipeline under the timing the code relies on.
CONSTANTS
  GraceCovers = TRUE
  PpaTimely = TRUE
SPECIFICATION Spec
INVARIANTS
  PpaSourceIntact
  PanelIntact
  OverlayOwnsPanel
