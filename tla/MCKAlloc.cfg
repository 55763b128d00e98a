CONSTANTS
  pg1 = pg1
  pg2 = pg2
  CPUs = {0, 1}
  Pages <- MCPages
  BootOrder <- MCBootOrder
  Program <- MCProgram
  NoCPU = NoCPU
  NoPage = NoPage

SPECIFICATION Spec

INVARIANTS
  TypeOK
  PageExclusive
  NoDeadlyEmbrace

PROPERTIES
  CallsReturn
  ImplementsAbsPageAlloc
