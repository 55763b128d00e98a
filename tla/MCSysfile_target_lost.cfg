CONSTANTS
  p1 = p1
  p2 = p2
  a = a
  b = b
  Procs = {p1}
  Names = {a, b}
  Slots <- MCSlotsSmall
  Inums <- MCInums
  ROOTINO = 1
  NoProc = NoProc
  NoSlot = NoSlot
  NoName = NoName
  RootPath = RootPath
  NoFile = NoFile
  Unset = Unset
  MaxCalls = 3
  Program <- MCProgramTargetLost

SPECIFICATION Spec

INVARIANTS
  SymlinkTargetKept
