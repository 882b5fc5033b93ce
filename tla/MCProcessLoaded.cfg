CONSTANTS
  Main = main
  Proc = {main, a, b}
  NoProc = NoProc
  Status <- MCStatus
SPECIFICATION Spec
CHECK_DEADLOCK FALSE
INVARIANT LoadedIsReturned
