CONSTANTS
  e1 = e1
  e2 = e2
  e3 = e3
  e4 = e4
  Elem = {e1, e2, e3, e4}
  List = {A, B}
  NULL = NULL
  Key <- KeyOf
  Item = {1, 2, 3, 4, 11}
  Id <- IdOf
  MinBuckets = 1
  BEST_ELEMS_PER_BUCKET = 1
  Width = 8
  FNV_PRIME = 19
  FNV_BASIS = 97
  Nothing = Nothing
  W = 4
  IntBits = 8
  PGSIZE = 4
  PHYS_BASE = 96
  AddrBits = 7
  SP = 1
  ArgMax = 2
  ELEM_BITS = 3
  PageBytes = 2
  ElemBytes = 1
  HeaderBytes = 2
  F = 256
  IntWidth = 24
  PRI_MIN = 0
  PRI_MAX = 63
  Loads <- SomeLoads
  Recents <- SomeRecents
  Nices <- SomeNices
  Digits = {0, 1, 2, 7, 8, 9}
  MaxDigits = 3
  Values = {1, 2, 3}
  MaxArray = 6
  Addresses <- AllAddresses
  Characters = {0, 1, 2}
  MaxBits = 6
  FreeStart = 10
  FreeEnds <- AllEnds
  Limits <- AllLimits
  Words <- AllWords
  MaxWords = 4
  Headers <- AllHeaders
  SomeHeaders <- OtherHeaders
  FileLength = 5
SPECIFICATION Spec
SYMMETRY Alike
INVARIANT ListsRight
INVARIANT NumbersRight
INVARIANT FeedbackRight
INVARIANT MemoryRight
PROPERTY ImplementsTable
