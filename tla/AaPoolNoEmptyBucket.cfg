SPECIFICATION Spec
CONSTANTS
  Thread = {t1, t2, t3}
  nr_aa_buckets = 4
  nr_local_aas = 1
  nr_local_abuckets = 1
  nr_local_free_abuckets = 1
  Block = Block
  Null = Null
CHECK_DEADLOCK FALSE
INVARIANTS
  FreeBucketFound
