\* Two projects, each with a version of one and a version of two assets.
SPECIFICATION Spec
CONSTANTS
  first = first
  second = second
  old = old
  new = new
  Projects = {p1, p2}
  Assets = {first, second}
  Versions <- TwoVersions
  Needs <- NeedsOf
  None = None
INVARIANTS TypeOK GoodIsComplete OwnDirectory RunFindsAssets
