CONSTANTS
  Reader = {r}
  Writer = {w}
  Byte = {b1, b2}
  BufSize = 3
  Handler = Handler
  NoThread = NoThread
  NoByte = NoByte
  Thread = {t1, t2, t3}
  Main = main
  Proc = {main, a, b}
  NoProc = NoProc
  Status <- MCStatus
SPECIFICATION MCFairSpec
INVARIANT SleepersMustWait
INVARIANT InterruptsEnabled
INVARIANT ReapedIsOver
INVARIANT InUseIsAlive
PROPERTY ImplementsFifo
PROPERTY SentInOrder
PROPERTY NothingStuck
PROPERTY HandshakesEnd
