CONSTANTS
  Thread = {t1, t2}
  Main = t1
  Nobody = Nobody
  Value = {v0, v1}
  Zero = v0
  Attached <- MCAttached
  Capacity = 2
  MaxSpurious = 1
  NoData = NoData
SPECIFICATION FairSpec
INVARIANT DetectedRight
PROPERTY ImplementsSectors
PROPERTY EveryTransferEnds
CHECK_DEADLOCK FALSE
