CONSTANTS
  p1 = p1
  p2 = p2
  Proc = {p1, p2}
  Frame = {1, 2}
  Slot = {1, 2}
  UserPage = {"st", "mm", "ex"}
  Owner <- MCOwner
  Kind <- Kinds
  Names = {"ex"}
  Token <- Tokens
  Nobody = Nobody
  NULL = NULL
SPECIFICATION FairSpec
CHECK_DEADLOCK FALSE
INVARIANT Illusion
INVARIANT FramesOwned
INVARIANT BufferStays
PROPERTY KernelReturns
