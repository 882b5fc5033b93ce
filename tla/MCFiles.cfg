SPECIFICATION Spec
CONSTANTS
  SectorCnt = 13
  Direct = 1
  Indirect = 1
  SectorSize = 3
  DirEntries = 3
  Proc = {p1, p2}
  FdCnt = 1
  Program <- Sh
  Path <- Paths
  DirPath <- DirPaths
  Byte = {1}
  InitialSize = {1}
  WriteSize = {0, 1, 4}
  SeekTo = {0, 6}
  NoFile = NoFile
  MaxLength = 7
  MaxOpen = 3
  MaxBoot = 1
  MaxCalls = 7
SYMMETRY Symmetry
VIEW NoCalls
INVARIANT SectorsSound
INVARIANT RefsCounted
INVARIANT CrashSafe
 
PROPERTY NothingLeft
CHECK_DEADLOCK FALSE
