\* aclose while the worker writes.
SPECIFICATION Spec
CONSTANTS
    BatchSize = 2
    MaxEvents = 2
    Kind <- MCKind
INVARIANTS CloseLosesNothing
CHECK_DEADLOCK FALSE
