CONSTANTS
  XactListLen = 3
  QueueMax = 1
  MaxTxn = 3
  MaxRows = 2
  r1 = r1
  Rels <- MCRels
  NoEnv = NoEnv
  ErrorPolicy = "exit"
  Faults <- MCDeliverFault
SPECIFICATION Spec
INVARIANTS OpenTxnInRing
