CONSTANTS
  XactListLen = 3
  QueueMax = 2
  MaxTxn = 3
  MaxRows = 2
  r1 = r1
  Rels <- MCRels
  NoEnv = NoEnv
  ErrorPolicy = "log"
  Faults <- MCAllFaults
SPECIFICATION Spec
INVARIANTS TypeOK DurableCheckpoint InflightSlotLive SnapshotFlagSound SlotAccounting
PROPERTIES ImplementsCheckpoint FsyncMonotone
