SPECIFICATION Spec
CONSTANTS
  Elem = {e1, e2}
  Thread = {t1, t2}
  TornReads = TRUE
  LowVersions = 4
  MaxVersion = 12
  Null = Null
SYMMETRY Symmetry
CHECK_DEADLOCK FALSE
INVARIANTS
  GetsFreeElement
