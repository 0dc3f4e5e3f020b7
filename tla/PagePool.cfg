SPECIFICATION Spec
CONSTANTS
  Thread = {t1, t2}
  nr_pages = 6
  nr_local_pages = 2
  nr_local_pbuckets = 2
  Junk = Junk
  Null = Null
SYMMETRY Symmetry
INVARIANTS
  TypeOK
  EveryPageOnce
  HoardingBound
