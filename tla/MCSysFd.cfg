CONSTANTS
  pg1 = pg1
  pg2 = pg2
  pg3 = pg3
  pg4 = pg4
  pg5 = pg5
  garbage = garbage
  Pages <- MCPages
  Garbage <- garbage
  Names <- MCNames
  Scripts <- MCScripts
  NPROC = 4
  NOFILE = 5
  NFILE = 5
  PIPESIZE = 1
  MaxCalls = 5
  MAXLINE = 100
  MAXARGS = 10
  MAXARG = 4
  Scenarios = {"pingpong1", "pingpong2", "driver", "nsh"}

SPECIFICATION Spec

INVARIANTS
  TypeOK
  FileRefsExact
  StagesWired
  PagesAccounted

PROPERTIES
  PipeFailLeavesNoTrace
  PingPongExchanges
  PipelineDrains
