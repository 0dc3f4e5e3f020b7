# A verification of Compact-Fit

Compact-Fit is an allocator for real-time programs.  `cf_malloc` returns an
*abstract address*, a word that points to the object; the object may move, and
`cf_free` moves one when it must to keep every size-class *k-compact*: at most
k of its pages are not full.  The heap is shared by threads, the copy of an
object can be split into increments between which the lock is free, and a copy
can be aborted by whoever frees its object or needs the block it fills.  The
repository also has TLSF, the allocator it is measured against, and a driver
that replays traces of allocations on it.

This directory has TLA+ modules that model the allocator (`cf.c`), its
lock-free stack (`nb_stack.c`), TLSF (`tlsf.c`) and the trace driver
(`mdrv.c`, `tree.h`), TLC configurations that check them on small instances,
and proofs for every size of the heap that TLAPS checks.  `PROJECT.json` lists
the runs, the theorems, the hazards each property is for and, for every
definition, the lines of the source it stands for.

## The system

| part | state | operations | hard because |
|---|---|---|---|
| **Size-class** (`struct size_class`, `struct page`) | four lists of pages (not-full, full, source, emptying), `nfullentries`, used bits and counters of a page | list operations, `get_free_page_block`, `get_source_page`, the `do_free_*_state` functions | a page changes lists in eight ways, some of them when a copy ends much later than it began |
| **Allocation, free, compaction** | the words of the abstract address space with two abort flags, the abstract address and partition fields of every block, the locals of half-done compactions | `cf_malloc`, `cf_free`, `do_compaction` | interleaving at every increment; aborts, take-overs, take-overs of take-overs; a failure of `cf_malloc` half-way |
| **Locks** | a mutex per class, per page, or one | `lock_sizeClass`, `lock_page` and the retry loop of `cf_free` | the class is read before it is locked; pages change class; an object is copied under page locks alone |
| **Pool of abstract addresses** | per thread a list, full and empty buckets; two global stacks | `get_free_aa`, `put_free_aa` | the links are in the words and buckets themselves; buckets travel between threads; a thread can run out of empty ones |
| **Pool of pages** | per thread a list and buckets; one global stack | `get_free_page`, `add_free_page` | the links are in the memory of the pages |
| **Lock-free stack** (`nb_stack.c`) | one 64-bit word: address and version | `nb_stack_put`, `nb_stack_get` | ABA, reads of elements that are in use, a word wider than the machine's |
| **Size map, layout of a block** | two tables; two words at the end of a block | `init_size_classes_mapping`, `get_size_class_index`, `set_abstract_address`, ... | boundaries; room is made by one rule and used by another |
| **Block bitmap** | two levels of 32-bit words in a page | `find_used_page_block`, `get_free_page_block`, ... | the levels must agree |
| **Thread data** | per thread, from a pthread key | `get_thread_data` | threads never give anything back |
| **TLSF** (`tlsf.c`) | headers in front of the blocks, free lists under a two-level bitmap, the areas | `malloc_ex`, `free_ex`, `realloc_ex`, `calloc_ex`, `add_new_area`, the `tlsf_` wrappers | every call relies on flags and links the calls before it have left in the headers |
| **Trace driver** (`mdrv.c`, `tree.h`) | a red-black tree of records, in the pool it tests | `handle_line` | records and objects share the pool; a line may fail half-way |

`cf_malloc` and `cf_free` take the lock of a size-class, work on its page
lists, take pages from and return them to the page pool and do the same with
addresses and the address pool; the two pools are shared by all classes and
take no lock but call the lock-free stack.  A program calls `cf_malloc`,
`cf_free` and, without any lock, `cf_dereference`.  TLSF is a library of its
own, and the driver its only client with a state.

What makes each part correct:

* Size-class: a page is on the list that its counters say; no assertion fails;
  no block is lost; fragmentation stays bounded.
* Allocation and compaction: an object keeps its contents while it is moved or
  half moved; a copy that was aborted writes nothing more; an address is never
  given out while a copy still watches it; copies end.
* Locks: who works on a page has the lock of the class it belongs to now; nobody
  touches the blocks of a copy that runs without that lock; no circle of waiting.
* Pools: every address, page and bucket is in exactly one place; a request is
  refused only when the others have what is left, and they have little.
* Stack: a stack, whatever slow calls have read; a call repeats only because
  another one succeeded.
* Map, layout and bitmap: an object fits its block with its fields, and a page's
  bitmap is the set of its used blocks.
* TLSF: blocks tile their areas, free neighbours are merged, the index has
  exactly the free blocks, a block is as large as was asked.
* Driver: tree, records and pool agree on what is allocated.

## The modules

| module | models | |
|---|---|---|
| `SizeClass` | size-class and pages | operators from one record to the next: everything in it happens inside one critical section.  `ok` drops when an assertion of the code fails or the C would be undefined |
| `CompactFit` | `cf_malloc`, `cf_free`, `do_compaction` | EXTENDS `SizeClass`; an action is one critical section of the class lock |
| `AbstractHeap` | what `cf.h` promises, and what is kept of it while objects are moved in parts | objects by address, and what the program finds in them; pages and blocks do not exist |
| `PageLocking` | several classes, the build with `LOCK_PAGE` | EXTENDS `SizeClass`; an action is a look at an address or a page, or what is done from the moment a lock is held |
| `SizeMap`, `PageBitmap` | the tables; the two-level bitmap and the bit scans | operators |
| `PageLayout` | a request, its block, its page | EXTENDS both; it justifies the sets of used blocks and the objects that fit of the other modules |
| `AaPool` | the address pool | an action is what a thread does between two calls of `nb_stack` |
| `PagePool` | the page pool | one action per operation: each calls `nb_stack` at most once |
| `NbStack` | `nb_stack.c` | an action is one access to shared memory |
| `LifoStack` | what `nb_stack.c` promises | an atomic stack; the pools are built on it, and the version with a mutex is just that |
| `Tlsf` | `tlsf.c` | an operator from a heap to a heap for every function |
| `TlsfProgram` | a client that calls all of it | as the examples of TLSF do |
| `RecordTree` | the red-black tree of `tree.h` | operators; the two mirror images of each macro are one |
| `TraceDriver` | `mdrv.c` | EXTENDS `Tlsf` and `RecordTree`; an action is a line of a trace |
| `SizeClassProofs` | | proofs about the operators of `SizeClass`: lengths of the lists; pages, lists and counters |
| `CompactFitProofs` | | types and fragmentation of `CompactFit`; what the parts of a critical section do to words, contents and half-done compactions; the inductive invariant and what follows from it; the step to `AbstractHeap` |
| `PageLockingProofs` | | the locks of classes and pages, and what they protect |
| `NbStackProofs` | | the stack: types, owners, lock-freedom, the step to `LifoStack` |
| `LinkedLists` | | lemmas about lists that are linked through their own elements, and about families of such lists |
| `PagePoolProofs` | | the page pool: types, every page once, what threads keep |
| `AaPoolProofs` | | the address pool: types, every address and bucket once, what threads keep, when there is an empty bucket |
| `PageLayoutProofs` | | the tables of the size-classes, the fields of a block, the bitmap |
| `CompactFitMC`, `PageLockingMC`, `PageLayoutMC`, `NbStackMC`, `AaPoolMC`, `PagePoolMC`, `TlsfMC` | | what TLC needs for the runs: symmetry, views, bounds, programs |

**CompactFit.**  `heap` is the size-class, `aa` the words of the abstract
address space (a block and the two abort flags), `mem` the memory of every
block in chunks of one increment, `part` the partition field, `pool` the free
addresses (`Hoard` of which each other thread may keep from one that asks),
`live` the addresses the program has, `op` the locals of
`do_compaction` and `cf_free` of the threads that have given the lock away
inside it.  A chunk holds the address of the object it belongs to, and the
last chunk stands for the abstract address field too, which `memcpy` copies
with it.  `cf_malloc(t)`, `cf_free(t, a)` and `resume_compaction(t)` are the
three kinds of critical section; `cf_free` has a disjunct for each branch of
the code: the object stays where it is, its copy is aborted, a compaction
starts, or both.  `do_compaction` includes the take-over of a source that is
itself a target.  `cf_dereference(a)` is what the program finds at `a` between
two critical sections: the word is taken as it is, and with a flag in it leads
to a place inside the object.

A definition marked as a fault, in any module (`copy_chunk_unchecked`, ...), is
not used: it is what a plausible bug would make of its neighbour, and each
property is known to notice one.

**PageLocking.**  `heap` has a size-class for every member of `Class`; they
share `Page`, and `page_sc` is the field `sc` of a page, which stays behind when
the page is freed.  `job` has the locals of a call and where it is.  `cf_free`
reads the word (`cf_free`, `retry`), the page (`get_size_class_of_page`), takes
the lock and reads the word again (`dereference`), and goes on or back
(`backtrack`).  `lock_target_page` and `lock_source_page` are the two waits of
`do_compaction`.  After the second the word of the object is flagged; `redirect`
overwrites it, flag and all, with the address of the target block and gives the
lock of the class away, `copy` moves the object, and `relock` ends the call.
`cf_dereference` takes no lock and may see the word in between.  `LOCK_PAGE`
switches `incremental_memcpy` off, so there are no partition fields here, and no
aborts.

**PageLayout.**  The tables have the sizes of `cf.h`; a word of the bitmap has
`Bits` bits and a page as many words, 4 in the run for the 32 of the code:
what is done with them depends on a word being full, empty or neither, and the
theorems are for any number up to 32.

**AaPool, PagePool.**  The links are modelled where they are: `aa_space`,
`next` and `local` are the words, and the properties follow them.  A page in
use has `Junk` in both fields, for the objects are there.

**NbStack.**  `call` has the locals of a call.  `use` is the owner of an
element that writes over its `next` field, as `add_free_page` does when it keeps
a list, and a program that uses the page.  `hand_over` is the program's: who
frees the last object of a page has the page, whoever took it from the stack.
With `TornReads` the load of the word is two loads, as the 32-bit build has it.

**Tlsf.**  A heap has the headers by address (`hdr`), both bitmaps, the heads
of the lists (`matrix`), the areas and the break of the process, from which a
pool grows as the makefiles build it (`USE_SBRK`).  A pointer is the address of
a header; the contents of blocks play no part.  `capped` is the line by which
this repository's copy differs from the release.

## The runs

Expected to pass:

| run | shows | instance |
|---|---|---|
| `CompactFit` | no assertion fails; types, contents of objects, protocol between copying, freeing and taking-over threads, addresses, page lists, source slots, used bits, fragmentation; and that the class implements `AbstractHeap`, with the objects that are being moved apart | 2 threads, 3 pages of 3 blocks, k = 1, 3 increments, 8 objects, 10 addresses of which each thread may keep one from the other |
| `CompactFitLiveness` | every compaction ends, also after a `cf_malloc` without an address | 2 threads, 3 pages of 2 blocks, k = 1, 2 increments, 3 objects, 4 addresses |
| `PageLocking` | `cf_free` ends up with the right lock, copies without the class lock are undisturbed, objects and classes stay apart, a word is flagged or ahead of its object only under the lock of a page, nobody waits in a circle | 2 threads, 2 classes, 3 pages of 2 blocks, 5 objects |
| `PageLayout` | a request gets the smallest block with room for it, fields do not overlap, both levels of the bitmap agree and act on a set | every size from 0 to a page, increments of 0, 32 and 1024 bytes; pages of 1, 6 and 11 blocks filled and emptied in every order |
| `NbStackAtomic` | no element is lost or with two owners, the stack implements `LifoStack`, and a call repeats only because another one succeeded | 3 threads, 3 elements, any number of calls |
| `AaPool` | every address and bucket once, bound on what threads keep, an empty bucket is always found where there are enough | 2 threads, 7 buckets of 2 addresses, up to three full and two empty ones kept |
| `PagePool` | every page once and rightly flagged, bound on what threads keep | 2 threads, 6 pages in lists of 2, one list kept |
| `TlsfMC` | blocks tile the areas and, unless an area filled a gap, are merged, the index has the free blocks, blocks are as large as asked, the driver's records are true, the tree is a red-black search tree | three programs: the driver with 2 keys, whose pool grows; a client of all of `tlsf.c` with 3 blocks and areas added on both sides of its pool, one of them next to the memory of `sbrk`; a tree of up to 7 records |

Expected to fail, each a disagreement between the code and what it says of itself:

| run | shows |
|---|---|
| `LeakedBlock` | `cf_malloc` without an abstract address keeps the block; a later compaction picks it and `assert(src_aa)` fails.  There is an address for every object and every `cf_free`, but the other thread keeps a free one |
| `NbStackTorn` | two loads of a 64-bit word can make up a word the stack will have later, version included, and `nb_stack_get` then returns an element that is in use |
| `AaPoolNoEmptyBucket` | two threads that only allocate keep the empty buckets; a third that frees finds none and `assert(data->free_abuckets != NULL)` fails |
| `TlsfGap` | areas added in the order of `examples/test3.c`: the last one fills a gap, and two free blocks that touch are not merged; the example then gets no block of two areas |

Noticed on the way, without a run of their own:

* While an object is copied in increments its word has `ABORT_COMPACT_FLAG` set
  (cf.c 1574) between critical sections, and `cf_dereference` returns the word as
  it is (2061): a pointer that is off by one, where `cf.h` (72-77) promises a
  reference to the object.  So a class with increments does not implement the
  heap of `cf.h`: with `ImplementsHeap` for `ImplementsMovingHeap` in
  `CompactFit.cfg` TLC has the first `cf_free` that begins a copy after five
  steps.  `ImplementsMovingHeap` is what remains of the promise.
* With incremental compaction a class may have k + 1 not-full pages, where the
  comments of `cf_free` and the unit tests have k: while a block is copied its
  page is on the source list and not counted, a free makes another page
  not-full, and when the copy ends the first one returns.  `FragmentationBound`
  is what holds: k + 1, with the source page counted.
* A padded size of exactly `LARGESTSC` reads one past the table of sizes, and
  one above `PAGEDATASIZE` gets a block that is too small: `BlockHoldsRequest`
  says so, and excepts both.  `FieldsApart` needs `incremental_memcpy` to be a
  multiple of 4, which `cf_init` does not check.
* `add_new_area` takes from `used_size` what it never added.

**Bounds.**  In `CompactFit` two threads are needed for an abort or a take-over,
and for two copies at once.  Pages of three blocks keep two copies in one source
page, and let a page be not-full in two ways.  Three increments give an
interruption in the middle, with a chunk copied before and one after it.
`MaxLive` bounds the objects the program has at a time and is, with the names of
addresses, the only bound; it is one below the number of blocks, so that pages
fill up and a compaction still begins.  k is 1: with a larger one a compaction
begins only when more pages are partly used, and the instance that shows as much
is many times larger; so is one with three threads, of which the third could
take over a take-over while the second is in it.  The theorems are for every k,
every number of threads and every size of a page.

`CompactFit` has an address for every object (8), one for the `cf_free` of the
other thread and one that the other thread may keep, which is just what
`EnoughAddresses` asks for; there no assertion fails.  `LeakedBlock` has one
fewer than that.  `CompactFitLiveness`, too, has one fewer than it takes, and
`cf_malloc` comes to the point where it has a block and no address; that the
other invariants of `CompactFit` hold after that, until an assertion fails, is
not checked but proved (`Safe`).  `Hoard` is 1 for what is
`nr_local_aas * nr_local_abuckets + 1` in the code (`HoardingBound` of `AaPool`):
a larger one only adds as many addresses to the pool.

In `PageLocking` a page changes class under a thread that is between its looks
with two threads, one of which frees the last object of the page and allocates
in the other class; with five objects in six blocks compactions occur in both
classes.  The address pool is large enough for every object and thread
(`AddressAssumption`).

No property depends on the views of the MC modules, which only save states; they
are exact: what they leave out is the name of an address, or of a
bucket of the address pool, which is renamed after what has it, and for the
stack the version, of which a call only ever asks if it is still the same; so
`MaxVersion` bounds nothing in `NbStackAtomic`.  In `NbStackTorn` it bounds the
number of calls.

`AaPool` and `PagePool` have no bound.  In `AaPool` two addresses in a bucket are
the fewest with a link between them.  A thread has a full bucket in hand, as many
empty ones as it may keep, and must give these back, only if it keeps more full
buckets than empty ones: three and two.  Seven buckets are enough for a thread
to return four full ones on top of others, where `last_abucket` must be the last,
and the empty ones travel in chains of two.  `HoardingBound` then says that at
most 8 of the 14 addresses are out of the reach of a thread, one more when the
other is in the middle of a put.  A thread can keep two empty buckets from the
other, whose put then fails while the program has one address or none: the
condition of `SpareBucketFound` excludes just that.

In `TlsfMC` a word has 2 bytes and the bitmap 4 rows of 4, so that a few dozen
bytes have small blocks, a row with rounding and several rows; sizes up to 34
bytes do not fit a pool until it has grown or been given an area.  sbrk gives 36
bytes, above the break at 46; the pool of the client is at 12 to 34, and the
areas it may add at 0 to 12 and 34 to 46.  The last fills the gap between the
pool and the memory of sbrk if the pool has grown before: there free blocks can
stay apart (`TlsfGap`), and `HeapTiled` keeps what it says of the tiling and of
the headers, and says that neighbours are merged as long as no area has filled a
gap (`filled`).  `TlsfGap` has a third area, at 46, and the break behind it.
`MaxLive` and `Keys` bound the blocks a program has.  Trees of up to seven
records are built and taken apart in every order: deep enough for the repair
after an insertion or a removal to go up.

**Fairness.**  `CompactionEnds` assumes weak fairness of `resume_compaction`
of every thread: the thread waits for a mutex with nothing else to do, and the
mutex is granted to it eventually.  In `CompactFit` the critical section is one
step and always enabled, so weak fairness says just that; it does say that the
mutex starves nobody, which `pthread_mutex_lock` does not promise in general.
Nothing is assumed of the program: it may stop calling.  `LockFree` needs no
fairness: it says that every step of a call brings it nearer to its end unless
another call succeeds, which bounds the steps of a call by the successes of
others.  `CompactFitLiveness` uses no symmetry; its action constraint only fixes
which of several free addresses and pages comes out of a pool.

**Deadlock** is checked except where the system really may stop: after a
failed assertion (`CompactFitLiveness`, `AaPool`: a thread can keep the empty
buckets from another), when the driver has ended
(`TlsfMC`), when a size above the pages of the run was asked for
(`PageLayout`), and when the bound on versions is reached.

## What is proved

Everything here holds for every set of threads, pages, addresses and elements,
every number of blocks of a page, of increments, every k > 0 and every length of
the lists of a pool.

**A size-class: types and fragmentation** (`CompactFitProofs`).

* `TypeCorrect`: `Spec => []TypeOK`.
* `FragmentationIsBounded`: `Spec => []FragmentationBound`: at most one page
  is a source, and with it at most k + 1 pages are neither full nor on their
  way to the pool.  It is the bound that the README of Compact-Fit speaks of
  ("keeping memory fragmentation bounded and fully predictable"), and the one
  that incremental compaction still keeps.

`FragmentationBound` speaks of states between critical sections, where it is
`Bounded(heap)`: lists of pages, at most one source, and lengths that add up to
k + 1 at most.  It is not preserved by the single list operation, for within a
critical section a page may be on no list.  So `SizeClassProofs` has two
measures besides it.  `Roomy` is `Bounded` with one page to spare, what a class
has when a test of `cf_free` says n < k, when no page is not-full, or after a
page left the lists.  `Shrinks` and `Moves` compare the lists before and after:
one page fewer, or one from the source to the not-full list.  Every operation
of `SizeClass` is shown to preserve, shrink or move, the tests of `cf_free` to
leave room, and every branch of `cf_malloc`, `cf_free` and `do_compaction` to be
a composition that ends `Bounded`.  A failed assertion leaves the record as it
is but for `ok`, so this proof covers the steps in which one fails.  `IInv` is
the conjunction of the types and `Bounded(heap)`; `InitInv`, `NextInv` and
`IInvImplies` are the three facts about it.

**A size-class: safety** (the third part of `CompactFitProofs`).

* `PagesAreListed`, `SourcesAreCounted`: the list of a page says what its
  counters say, and a source page counts the copies out of it.
* `CopiesFollowProtocol`, `NoCopyGoesStale`, `DataIsPreserved`: what a half-done
  copy has written and will write, and that objects keep their contents.
* `AddressesAreConserved`: an address is free, the program's, or kept by one
  `cf_free`.
* `NoAssertionFails`, `NoBlockIsLost`, under `EnoughAddresses`.

None of these invariants is inductive alone.  That an assertion of a list
operation holds depends on the lists; that a page is released from the list it
is on depends on its count of copies; that the count is right depends on which
of the suspended threads still copy, and so on the flags in the words of their
targets; that a word is not used by someone else depends on who has which
address; and an object keeps its contents because a page that goes back to the
pool has none of its blocks in a copy, which is the count again.  `Safe` is the
conjunction that is inductive:

* pages: `WellFormed` of `SizeClassProofs`: the lists have the pages whose flag
  says so, each once, and flag, used bits, `nr_used_page_blocks` and
  `sourceentries` fit together in one of five ways;
* `SlotsCounted`: `sourceentries` of a page is the number of threads that copy
  out of it and of those that have to release it;
* `Protocol`: addresses are apart (`AddressesApart`), words,
  contents and partition fields are those of objects that sit still or of the
  sources and targets of the copies, and used bits belong to them;
* the pool has the addresses without a word.

A critical section passes through states that are not between critical sections:
it detaches the freed object from its address, ends or takes over a copy, picks
a source, begins another copy, forgets what it gave up.  So `Protocol` is said
of parameters, among them the blocks and the addresses that the critical section
has detached, and `SlotsCounted` has room for two pages that are still to be
released.  `SizeClassProofs` and `CompactFitProofs` have a lemma for each such
part; `MallocSafe`, `FreeInPlaceSafe`, `FreeWhileCopiedSafe`, `CompactionSafe`,
`AbortSafe` and `CopyChunkSafe` put the branches of the code together from them,
and `NextSafe` the branches.

When `get_free_aa` has none, `cf_malloc` keeps the block without an object; the
page counters are then no longer those of the objects and, later, an assertion
may fail: the run `LeakedBlock`.  `Safe` therefore says nothing after a failed
assertion, nor do the properties it implies, and it has a second half: with
`EnoughAddresses` none fails.  That is, AA is finite and has an address for each
of `MaxLive` objects, one for every other thread, which a suspended `cf_free`
keeps, and as many as the other threads may keep from the one that asks:
`MaxLive + (Cardinality(Thread) - 1) + hoarded`, where `hoarded` is `Hoard` for
each of the others.  `get_free_aa` refuses a thread while there are free
addresses in the lists and buckets of others (cf.c 583-596), so the pool being
empty is not what `no_abstract_address` asks for; that no more are with the
others than `hoarded` is `HoardingBound` of `AaPool`, proved there.  The code
leaves the size of the address space to whoever calls `cf_init`, and asks for
nothing.

**A size-class: refinement** (the last part of `CompactFitProofs`).  The mapping
takes what `cf_dereference` returns, flags and all: an object whose word has a
flag is `Moving`, which is nothing its owner put there.  `Implements` is
`Spec => ImplementsMovingHeap`: every critical section is an allocation, a free,
the return of a suspended free, or one of these with an object that begins or
ends to move; after each there is a mover of its own, a `cf_free` that has not
returned, for every object that is moving (`MovesAccounted`).  So at any time a
program finds all its objects as they are but for as many as there are threads
in `do_compaction`.  It needs no condition on the addresses: the call in which an
assertion fails moves nothing, and there is none after it.  `ImplementsWhole` is
`Spec => ImplementsHeap`, the promise of `cf.h`, where objects are moved in one
piece (`Increments = 1`): the flag is then set and overwritten in one critical
section.  From `Safe` the contents at every live address are its owner's before
and after; what is left is which words have a flag: those of the sources of
copies, which a free, a take-over or an abort changes for one copy and no other
(`FreeMarks`, `CompactionMarks`), and which addresses come and go.

**The locks of classes and pages** (`PageLockingProofs`).

* `RightLockHeld`: after its retry loop `cf_free` has the lock of the class its
  object is in, and has looked at the right block.
* `CopiesUndisturbed`, `ObjectsStayApart`: two page locks are enough for a copy
  without the lock of the class; pages belong to one class; what `cf_dereference`
  returns without a lock is right, unless the object is moved by a thread that has
  the lock of the page: then it may be off by a flag, for a moment, or lead to a
  block that is not filled yet.
* `NobodyWaitsInACircle`, `MallocWaitsForNoPage`.
* `TypeCorrect`, and `Invariant`, from which all follow.

`Inv` says which locks a call holds at each of its places and that nobody else
holds them (`LocksHeld`); that a page with blocks in use or being moved is named
after its class (`PagesApart`, with `WellFormed` of every class); that
`sourceentries` counts the calls that still have to release the page (`Counted`);
that the used blocks of all classes are those of the addresses that are live or
about to be freed, one each, with their contents (`Objects`); and two clauses
for what a thread remembers between its steps.  `Looked`: the block that
`cf_free` read first may be anybody's by now, but its page has a class; if at
the second look, under the lock of class c, the page is c's, then so is the
object, for all blocks of c's pages are in place while the lock is held; and
once the target page is locked it stays full, and the block to move stays the one
`do_compaction` chooses.  `Copied`: the blocks of a copy,
and that no two calls release the same one.  That the two looks suffice is not
obvious, for a page can leave its class and come back between them; the proof
shows that nothing of the first look is used except that the page has a class.
A step changes one page of one class (`ChangedAt`), and the others that hold the
lock of some class hold that of another (`OthersLook`).

The order of the locks is not a rank of the locks themselves, for pages are
taken under a class and a class again after the pages.  `WhoIsWaitedFor` ranks
the places instead: a call that waits for a class holds nothing; one that waits
for its target page holds a class; one that waits for its source page holds a
class and a page, and that page is held by a call that has all its locks and waits
for nothing: who holds one page only has locked a full one, and a source page is
not full.

**The stack** (`NbStackProofs`).

* `TypeCorrect`: `Spec => []TypeOK`, with torn reads or without.
* `OneOwner`, `GivenFreeElement`: an element is in the stack once or with one
  thread, and `nb_stack_get` gives one that was in the stack.
* `CallsAreLockFree`: the action property `LockFree`.
* `Implements`: `Spec => ImplementsStack`, the atomic stack of `LifoStack`.

All but the first are under `TornReads = FALSE`, the build that loads the word
with one instruction; `NbStackTorn` is the counterexample for the other.  The
invariant says that some sequence s is spelled by the `next` fields from the
top on (`Spells`), that s and the threads share no element (`Owners`), and what
every call in progress may rely on (`CallInv`): the word it has read is the
current one or has a smaller version, so that a compare-and-swap that succeeds
finds the stack as it was read; the chain it puts is its own and ends where its
last read says; the `next` that a get has read is that of the top if the word
has not changed, and anything at all if it has: the owner of an element writes
to it.  Without the clause on versions the last two would not be preserved.
The contents that the refinement speaks of are a recursive function; that it is
well defined, and that it is s, is shown by induction over the sets of numbers
for which it is so (`NatSet`, through a least element, for the induction
theorems themselves take an operator).

**The page pool** (`PagePoolProofs`).

* `TypeCorrect`: `Spec => []TypeOK`; with it no list is longer than a full one,
  and `add_free_page` leaves no thread with `nr_local_pbuckets` of them.
* `PagesApart`: `Spec => []EveryPageOnce`.
* `FewPagesHoarded`: `Spec => []HoardingBound`.

`EveryPageOnce` follows links: from a thread's `pages` and `pbuckets` and from
the top of the stack, and from the first page of every full list that is found
so.  That is no basis for an induction over steps, for a step that changes one
link says nothing about where all the others lead.  The invariant instead gives
every page a place: `in` is the list it is in and `at` how many pages there are
from it to the end (`IsList` of `LinkedLists`), and a full list, by its first
page, has a place in the same way among the lists a thread keeps or those on
the stack (`PagesPlaced`, `HeadsPlaced`).  Counted from the end a place does not
change when others come and go in front, so a step gives new places only to the
lists it works on: a page is put in front or taken (`PutFirst`, `TakeFirst`), a
thread's list becomes a full one without any of its links being touched, and all
that a thread keeps goes on the stack at once (`JoinLists`, where
`last_pbucket` must be the last one: the clause of `HeadsPlaced` that says so is
what a release through a stale `last_pbucket` would break).  Apart from `Init`,
where the arithmetic of the initial links is (`Row`, `Column`), every action is
two or three such lemmas, one after the other.

What the links say is then read off the places by walking (`WalkList`,
`WalkEnds`): a walk of n links from the first page of a list meets its pages in
order, and one of `nr_pages` links from the top of the stack meets all its lists
and after them nothing.  Lists of different names have no page in common because
a page has one place.  `HoardingBound` is a count: when one thread has nothing
and the stack is empty, every free page has a slot of another thread, given by
the thread, the full list or the open one, and the place in it, and no two pages
have the same (`SlotOnce`).

**The address pool** (`AaPoolProofs`).

* `TypeCorrect`: `Spec => []TypeOK`.
* `AddressesApart`, `BucketsApart`: `Spec => []EveryAddressOnce` and
  `Spec => []EveryBucketOnce`.
* `FewAddressesHoarded`: `Spec => []HoardingBound`.
* `BucketForEveryAddress`: `Spec => []SpareBucketFound`, the condition under
  which the assertion of `put_free_aa` holds.

The argument is that of the page pool with more kinds of lists: families of
lists in which every element has one place, counted from the end.  There are
three.  `AddressesPlaced` has the open list of every thread and a list for every
full bucket, linked by `aa_space`; `BucketsPlaced` the full buckets of every
thread, those on the stack, and the chains on the other stack, by their first
bucket, linked by `next`; `EmptiesPlaced` the empty buckets of every thread and
those of every chain, linked by `local`.  The first bucket of a chain has a
place in both of the last two, for it uses both of its fields.  An open list
that is closed becomes the list of a bucket, the empty buckets that a thread
returns become a chain, and in each case no link of the list is touched: it gets
another name (`RenameList`).  `Pool` puts the three together, with the clauses
that tie them: the full buckets are those with a list of addresses, the chains
those on the stack.  `PoolAt` and `PendingApart` say what is outside of them: the
addresses of the program (`live`), that of a thread that waits for an empty
bucket, and the bucket a thread has installed and not yet kept.  The two calls
of `nb_stack` in one operation make the intermediate states visible, so a lemma
for an assignment (`StepTake`, `StepFill`, ...) is about the pool with any
addresses and buckets outside, and what the thread has between the calls is
added last (`TakeEnds`, `FillEnds`, `UseEnds`).  Besides, a thread that waits has
a full list and, unless the assertion failed, an empty bucket (`Fits`).

`HoardingBound` is a count of slots, as for pages.  `SpareBucketFound` is one of
buckets and of lists.  When a thread t waits and finds no empty bucket, there is
no chain on the stack and t keeps none (`NoBucketLeft`); the empty ones are with
the other threads, `nr_local_free_abuckets` each at most (`FewEmptyBuckets`).
The other buckets are full or have just been installed by a thread that gives
its chain back.  To every full one belongs its list of `nr_local_aas` addresses,
to an installed one the open list of its thread, which is full, for nothing has
been taken from it yet; and the open list of t is full, too (`ManyLists`).  The
addresses in these lists, those of the program and the one that t is putting are
different ones, so the program has too few for the hypothesis (`Counted`).

**Sizes and bitmaps** (`PageLayoutProofs`), under `ClassesFit`.

* `BitmapIsRight`: `Spec => []LevelsAgree`.
* `BitmapActsOnASet`: `Spec => ActsOnASet`, an action property.
* `RequestsFit`: `Spec => []BlockHoldsRequest`.
* `FieldsDoNotOverlap`: `Spec => []FieldsApart`.

The invariant has two parts.  `Chosen` says that the class is one
`get_size_class_index` gives for the padded size; `Filled` that the bitmap is
right and counts its bits, all of them blocks of the page.  A block is a bit of
a word (`BlockAt`), in the order of words and then of bits, by the arithmetic of
quotients and remainders (`BlockPlace`, `PlaceOrder`); so the lowest bit of the
lowest word that is not full is the lowest free block of all, which is inside
the page when the page is not full (`FreeInPage`).  That a set of bits has a
lowest one, and that the five shifts of `_ffs` find it, is one argument: after
each, what is left to look at holds it (`Narrowed`, `Skip`).

The tables come from a loop, `base`, a recursive function.  That it is well
defined, that it grows with every round and that it is never above `LARGESTSC`
are inductions by `NatSet`; from the last two an entry is the number of the
block sizes up to it (`Entry`), and so the first class that is large enough
(`ClassOf`).  `ClassesFit` asks that the loop ends after `SIZECLASSES - 3`
rounds, that is that the number of classes in `cf.h` goes with the sizes there:
after more rounds the assertion at the end of `init_size_classes_mapping` fails,
and after fewer the last class, which sizes above `LARGESTSC` get, has no size.
The constants of `cf.h` satisfy it, as TLC confirms (`PageLayoutMC`).
`FieldsApart` needs that all sizes and the increment are multiples of 4: a
block larger than the increment is then larger by a whole word.

**Assumptions.**  `PageBlocks`, `Increments` and k are positive (`cf_init`
asserts the last), as are the lengths of the pools' lists; the pages of the page
pool are a number of full lists, to which `cf_init` rounds them; the sets of
threads and of elements are finite; the sizes of `cf.h` and the increments are
multiples of 4, and a word of the bitmap has 32 bits at most; `PageLocking` has
an address for every object and every thread; `Null` and `Junk` are no
addresses, blocks, pages or elements, and `Null` is no record of the kind of a
word, a job or a call, which TLC's models are not either.  Further conditions
stand in the theorems that need them.

## What is not modelled, and why

* `LOCK_NONE`, which is one thread.  `LOCK_GLOBAL` is `Increments = 1`: there
  `unlock_sizeClass` does nothing, and a critical section is the whole of
  `cf_free`; no run is made of it.  Several classes with incremental copies at
  once: `CompactFit` has one class, for classes share the pools only, and
  `PageLocking`, where they meet, has no increments.
* `cf_dereference` in the middle of a critical section of `CompactFit`, where it
  may see a flag before it is taken back, also in the build without increments;
  `PageLocking` has that moment, under `LOCK_PAGE`.  In a class with increments a
  program cannot rely on what it gets at all: see `ImplementsMovingHeap`.
* Writes of the program to an object while it is copied: `cf_dereference`
  takes no lock, and a write to a part that is copied already is lost.  The
  contents of an object are what its owner wrote first.
* `memcpy_multiplicator` above 1, a device of the benchmarks; the bound -1,
  with which there is no compaction and no abstract address.
* What threads hoard of pages and addresses is in the pools' modules.  In
  `CompactFit` the pool of addresses is a set, and a thread may be refused while
  no more are in it than `Hoard` for each other thread, whichever thread has them;
  a refused page is an empty set, for `cf_malloc` has done nothing by then.
  `PageLocking` refuses no address (`AddressAssumption`).
* The words of freed addresses are `Null` in `CompactFit`; in the code they are
  links of the pool (`AaPool`), which no compaction looks at.
* The end of a thread, which takes its pages and addresses with it; private
  size-classes; statistics and printing.
* TLSF: growth by mmap after sbrk has failed, a pool that is initialised twice
  or destroyed, `max_size`, its lock (one, around every call).  Sizes above
  16384, where `capped` bites, are far beyond the run.  `realloc_ex` without a
  block for the copy writes to NULL: the model ends the program there.
* The driver's options, the text of a trace and its reports.  The splay tree of
  `tree.h` has no user.
* Unit tests, the mutator example and the benchmarks: programs over the
  allocators, whose calls the models make in every order.

**What TLC alone shows.**  `CompactionEnds` is a liveness property under
fairness, which TLAPS cannot prove.  The invariants of `TlsfMC` (`HeapTiled`,
`FreeBlocksIndexed`, `TreeBalanced`, `ObjectsHeld`) have no proofs.  The driver
cannot have any with the installed provers: `TraceDriver` reaches the RECURSIVE
operators of `RecordTree`, and what these compute, the shape of the tree, would
need an induction over data.

## Plan

Done, in this order: `SizeClass` and `CompactFit` with its runs, the
refinement to `AbstractHeap`, the proofs of types and fragmentation, the stack
with `LifoStack`, the two pools; `PageLocking`, the size map and the bitmap,
lock-freedom as an action property, TLSF with its driver and tree; the proofs
of the safety of `CompactFit` and of its refinement, those of `NbStack`, of
`PageLocking`, `PagePool`, `PageLayout` and `AaPool`.

Left: proofs about TLSF.  `Tlsf` and `TlsfProgram` reach no RECURSIVE operator,
so `heap_tiled` and `free_blocks_indexed` can be proved of the client program: a
tiling by the order of the headers, with the free lists of the index as a family
of lists (`Lists` of `LinkedLists`).
