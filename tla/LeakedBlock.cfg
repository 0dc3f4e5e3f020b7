SPECIFICATION Spec
CONSTANTS
  Page = {p1, p2, p3}
  PageBlocks = 2
  PartialCompactionBound = 1
  Thread = {t1, t2}
  AA = {a1, a2, a3, a4, a5}
  Hoard = 1
  Increments = 2
  MaxLive = 4
  Null = Null
  Junk = Junk
SYMMETRY Symmetry
VIEW View
INVARIANTS
  AssertionsHold
