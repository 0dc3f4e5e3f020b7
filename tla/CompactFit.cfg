SPECIFICATION Spec
CONSTANTS
  Page = {p1, p2, p3}
  PageBlocks = 3
  PartialCompactionBound = 1
  Thread = {t1, t2}
  AA = {a1, a2, a3, a4, a5, a6, a7, a8, a9, a10}
  Hoard = 1
  Increments = 3
  MaxLive = 8
  Null = Null
  Junk = Junk
SYMMETRY Symmetry
VIEW View
INVARIANTS
  TypeOK
  AssertionsHold
  DataPreserved
  CopyProtocol
  NoStaleCopy
  AddressesConserved
  PageStates
  SourceSlots
  NoBlockLost
  FragmentationBound
PROPERTIES
  ImplementsMovingHeap
