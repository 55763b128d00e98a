CONSTANTS
  p1 = p1
  p2 = p2
  a = a
  b = b
  Procs = {p1, p2}
  Names = {a, b}
  Slots <- MCSlots
  Inums <- MCInums
  ROOTINO = 1
  NoProc = NoProc
  NoSlot = NoSlot
  NoName = NoName
  RootPath = RootPath
  NoFile = NoFile
  Unset = Unset
  MaxCalls = 2
  Program <- MCProgramOrphan

SPECIFICATION Spec

INVARIANTS
  NoOrphanAtRest
