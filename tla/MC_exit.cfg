CONSTANTS
  XactListLen = 3
  QueueMax = 2
  MaxTxn = 3
  MaxRows = 2
  r1 = r1
  Rels <- MCRels
  ErrorPolicy = "exit"
  Faults <- MCAllFaults
  NoEnv = NoEnv
SPECIFICATION Spec
INVARIANTS TypeOK DurableCheckpoint InflightSlotLive SnapshotFlagSound CheckpointOrder
PROPERTIES ImplementsCheckpoint FsyncMonotone CommittedEventuallyCheckpointed
