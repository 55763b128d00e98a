CONSTANTS
  pg1 = pg1
  pg2 = pg2
  CPUs = {0, 1}
  Pages <- MCPagesOne
  BootOrder <- MCBootOrderOne
  Program <- MCProgramExhaust
  NoCPU = NoCPU
  NoPage = NoPage

SPECIFICATION Spec

INVARIANT
  NoDeadlyEmbrace
