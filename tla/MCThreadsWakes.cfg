CONSTANTS
  tm = tm
  ti = ti
  t1 = t1
  t2 = t2
  s0 = s0
  s1 = s1
  NoThread = NoThread
  NoSema = NoSema
  Thread <- MCThread
  Main = tm
  Idle = ti
  Sema <- MCSema
  IdleStarted = s0
  IntrSema <- MCIntrSema
  InitValue <- MCInitValue
  PriMax = 1
  PriDefault = 1
  TimeSlice = 2
  MaxSleep = 2
  MaxValue = 2
SPECIFICATION Spec
PROPERTY WakesHighest
