CONSTANTS
  t1 = t1
  t2 = t2
  t3 = t3
  l1 = l1
  l2 = l2
  c1 = c1
  c2 = c2
  w1 = w1
  w2 = w2
  w3 = w3
  NoThread = NoThread
  NoLock = NoLock
  NoCond = NoCond
  Thread <- MCThread
  Sema <- MCSema
  Lock <- MCLock
  Cond <- MCCond
  LockOf <- MCLockOf
  WaiterSema <- MCWaiterSema
  InitValue <- MCInitValue
  MaxValue = 2
SPECIFICATION FairSynchSpec
CHECK_DEADLOCK FALSE
INVARIANT NoLostWakeup
INVARIANT SignalConserved
PROPERTY ImplementsMonitor
PROPERTY WaitersGoOn
