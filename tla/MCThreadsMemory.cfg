CONSTANTS
  tm = tm
  ti = ti
  t1 = t1
  t2 = t2
  s0 = s0
  s1 = s1
  NoThread = NoThread
  NoSema = NoSema
  Thread <- MCThread
  Main = tm
  Idle = ti
  Sema <- MCSema
  IdleStarted = s0
  IntrSema <- MCIntrSema
  InitValue <- MCInitValue
  PriMax = 1
  PriDefault = 1
  TimeSlice = 2
  MaxSleep = 2
  MaxValue = 2
  Caller = {c1, c2}
  Nobody = Nobody
  PageCnt = 3
  PageSize = 3
  HeaderSize = 1
  MinBlock = 1
  Size = {1, 3}
  MaxOwn = 2
SPECIFICATION MCFairSpec
INVARIANT ElemExclusive
INVARIANT NoThreadLost
INVARIANT NoOversleep
INVARIANT BlocksKept
INVARIANT PagesReturned
PROPERTY DispatchesHighest
PROPERTY RoundRobin
PROPERTY ImplementsSemaphore
PROPERTY HighestRuns
PROPERTY SleeperWakes
PROPERTY EveryCallReturns
