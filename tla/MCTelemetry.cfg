\* With and without a database; batches of two, five events of all three types.
SPECIFICATION FairSpec
CONSTANTS
    BatchSize = 2
    MaxEvents = 5
    Kind <- MCKind
INVARIANTS LossIsOneCancelledBatch OneWayThrough  MemoryIsComplete IndInv
PROPERTIES AcloseTerminates QueueIsDrained ImplementsEventFates
CHECK_DEADLOCK FALSE
