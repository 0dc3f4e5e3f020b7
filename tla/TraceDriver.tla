------------------------------ MODULE TraceDriver ------------------------------
(***************************************************************************)
(* The trace driver mdrv.c: it replays the calls of malloc, realloc and    *)
(* free of a recorded program on a pool of tlsf.c.  A key stands for an    *)
(* object; its record is in a block of the same pool and in a red-black    *)
(* tree.  A line that fails ends the driver.                               *)
(***************************************************************************)
EXTENDS Tlsf, RecordTree

CONSTANTS
  Keys,        \* bound: the keys of the trace
  TraceSizes,  \* bound: the sizes of its calls
  POOL_SIZE,
  RECORD_SIZE, \* sizeof(struct record)
  FIRST_SIZE   \* what main allocates before the first line

VARIABLES
  heap,     \* pool
  rectree,
  record,   \* every record of the tree: [at, ptr, size]
  stats,    \* mem_alloced, my_memory and nrecords; the others only count calls
  ended     \* has the driver returned?

vars == <<heap, rectree, record, stats, ended>>

no_stats == [mem_alloced |-> 0, my_memory |-> 0, nrecords |-> 0]

Init ==
  /\ heap = malloc_ex(init_memory_pool(0, POOL_SIZE), FIRST_SIZE).heap
  /\ rectree = empty_tree
  /\ record = <<>>
  /\ stats = no_stats
  /\ ended = FALSE

(* The driver returns, or realloc_ex has crashed: what the line has done   *)
(* to the heap and the tree ends with the process.                         *)
finish ==
  /\ ended' = TRUE
  /\ UNCHANGED <<heap, rectree, record, stats>>

found(key) == RB_FIND(rectree, key) # Nil

(* The record a line is about, and the heap that has it: my_malloc makes   *)
(* one when there is none.                                                 *)
my_malloc ==
  LET m == malloc_ex(heap, capped(RECORD_SIZE))
  IN  [heap |-> m.heap, record |-> [at |-> m.ptr, ptr |-> NULL, size |-> 0]]

record_of(key) == IF found(key) THEN [heap |-> heap, record |-> record[key]] ELSE my_malloc

(* The end of trace_alloc: the object of key is where m has it, if it has. *)
recorded(key, size, rec, m) ==
  IF m.ptr = NULL THEN finish
  ELSE /\ heap' = m.heap
       /\ rectree' = RB_INSERT(IF found(key) THEN RB_REMOVE(rectree, key) ELSE rectree, key)
       /\ record' = (key :> [rec EXCEPT !.ptr = m.ptr, !.size = size]) @@ record
       /\ stats' = [mem_alloced |-> stats.mem_alloced + size - rec.size,
                    my_memory |-> stats.my_memory + IF found(key) THEN 0 ELSE RECORD_SIZE,
                    nrecords  |-> stats.nrecords + IF found(key) THEN 0 ELSE 1]
       /\ UNCHANGED ended

trace_malloc(key, size) ==
  LET r == record_of(key)
  IN  IF found(key) \/ r.record.at = NULL THEN finish
      ELSE recorded(key, size, r.record, malloc_ex(r.heap, capped(size)))

trace_realloc(key, size) ==
  LET r == record_of(key)
  IN  IF r.record.at = NULL THEN finish
      ELSE recorded(key, size, r.record, realloc_ex(r.heap, r.record.ptr, size))

my_free(h, rec) == free_ex(h, rec.at)

trace_free(key) ==
  IF ~found(key) THEN finish
  ELSE /\ heap' = my_free(free_ex(heap, record[key].ptr), record[key])
       /\ rectree' = RB_REMOVE(rectree, key)
       /\ record' = Restrict(record, DOMAIN record \ {key})
       /\ stats' = [mem_alloced |-> stats.mem_alloced - record[key].size,
                    my_memory |-> stats.my_memory - RECORD_SIZE,
                    nrecords  |-> stats.nrecords - 1]
       /\ UNCHANGED ended

handle_line ==
  /\ ~ended
  /\ \E key \in Keys :
       \/ \E size \in TraceSizes : trace_malloc(key, size) \/ trace_realloc(key, size)
       \/ trace_free(key)

Next == handle_line

Spec == Init /\ [][Next]_vars
-----------------------------------------------------------------------------
used(b) == b \in DOMAIN heap.hdr /\ ~heap.hdr[b].free

(* The driver, the tree and the pool agree: the tree finds the records of  *)
(* the live objects, each record and object has a used block of its own of *)
(* the size asked for, there are no others, and the sums are right: that   *)
(* of the pool as long as it has not grown.                                *)
TraceAccounted ==
  LET keys    == DOMAIN record
      records == {record[k].at : k \in keys}
      objects == {record[k].ptr : k \in keys}
      blocks  == {b \in DOMAIN heap.hdr : used(b)}
      ends    == UNION {{area.ib, area.end} : area \in ToSet(heap.areas)}
      pool    == ends \cup {next_block(heap, Last(heap.areas).ib)}
      all     == POOL_SIZE - (ROUNDDOWN_SIZE(POOL_SIZE - 3 * BHDR_OVERHEAD - AREA_INFO_SIZE))
  IN  ~ended =>
        /\ keys_of(rectree) = keys
        /\ blocks = records \cup objects \cup pool
        /\ Cardinality(blocks) = 2 * Cardinality(keys) + 2 * Len(heap.areas) + 1
        /\ \A k \in keys : /\ heap.hdr[record[k].at].size >= RECORD_SIZE
                            /\ heap.hdr[record[k].ptr].size >= record[k].size
        /\ stats.nrecords = Cardinality(keys) /\ stats.my_memory = RECORD_SIZE * stats.nrecords
        /\ stats.mem_alloced = MapThenSumSet(LAMBDA k : record[k].size, keys)
        /\ Len(heap.areas) = 1 =>
             heap.used_size = all + MapThenSumSet(LAMBDA b : heap.hdr[b].size + BHDR_OVERHEAD, blocks \ ends)
=============================================================================
