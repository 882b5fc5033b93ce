SPECIFICATION Spec
CONSTANTS
  SectorCnt = 13
  Direct = 1
  Indirect = 1
  SectorSize = 3
  DirEntries = 3
  Proc = {p1, p2}
  FdCnt = 1
  Program <- Sh
  Path <- Paths
  DirPath <- DirPaths
  Byte = {1}
  InitialSize = {1}
  WriteSize = {1}
  SeekTo = {0, 6}
  NoFile = NoFile
  MaxLength = 7
  MaxOpen = 3
  MaxBoot = 1
  MaxCalls = 7
VIEW NoCalls
CHECK_DEADLOCK FALSE
INVARIANT OpenStaysOpen
