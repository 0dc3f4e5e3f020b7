SPECIFICATION Spec
CONSTANTS
  Elem = {e1, e2, e3}
  Thread = {t1, t2, t3}
  TornReads = FALSE
  LowVersions = 4
  MaxVersion = 100
  Null = Null
SYMMETRY Symmetry
VIEW View
INVARIANTS
  TypeOK
  HandedOutOnce
PROPERTIES
  ImplementsStack
  LockFree
