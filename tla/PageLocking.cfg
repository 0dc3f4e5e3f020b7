SPECIFICATION Spec
CONSTANTS
  Page = {p1, p2, p3}
  PageBlocks = 2
  PartialCompactionBound = 1
  Thread = {t1, t2}
  Class = {c1, c2}
  AA = {a1, a2, a3, a4, a5, a6, a7}
  MaxLive = 5
  Null = Null
SYMMETRY Symmetry
VIEW View
INVARIANTS
  TypeOK
  RightLock
  CopyUndisturbed
  ObjectsApart
  NoCircularWait
