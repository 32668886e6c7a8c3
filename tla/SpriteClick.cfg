SPECIFICATION Spec
CONSTANTS
  Originals = {a}
  Stage = stage
  Clones = {c1, c2}
  None = none
  MaxClones = 2
  DeleteOnce = TRUE
SYMMETRY CloneSymmetry
INVARIANT ClickedScriptRunsOnOwner
