CONSTANTS
  XactListLen = 3
  QueueMax = 2
  MaxTxn = 3
  MaxRows = 2
  MaxRestarts = 2
  r1 = r1
  Rels <- MCRels
  NoEnv = NoEnv
  ErrorPolicy = "exit"
  Faults <- MCAllFaults
SPECIFICATION RSpec
INVARIANTS TypeOK
PROPERTIES RestartReplaysUnfinished
