\* Both cores draw; one reads while the other decodes.
SPECIFICATION Spec
CONSTANTS
  a = a
  b = b
  c = c
  d = d
  core0 = core0
  core1 = core1
  p = p
  q = q
  r = r
  Costumes <- Four
  Size <- SizeOf
  Cores = {core0, core1}
  Addrs = {p, q, r}
  Null = Null
  Small <- Few
  Budget = 3
SYMMETRY Symmetry
INVARIANT PinnedWhileRead
