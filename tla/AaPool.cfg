SPECIFICATION Spec
CONSTANTS
  Thread = {t1, t2}
  nr_aa_buckets = 7
  nr_local_aas = 2
  nr_local_abuckets = 4
  nr_local_free_abuckets = 2
  Block = Block
  Null = Null
SYMMETRY Symmetry
VIEW View
CHECK_DEADLOCK FALSE
INVARIANTS
  TypeOK
  EveryAddressOnce
  EveryBucketOnce
  HoardingBound
  SpareBucketFound
