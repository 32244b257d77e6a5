SPECIFICATION Spec
CONSTANTS
    search = search
    shell = shell
    Agents = {a1}
    Tools <- OnlySearch
    AllowedTools <- OnlySearch
    DefaultTools <- OnlySearch
    QuarantineThreshold = 20
    RecoveryRate = 1
    FailureThreshold = 2
    RecoveryTime = 1
    MaxPending = 1
    MaxStrikes = 1
    MaxSuccesses = 1
INVARIANTS RestrictedCannotDispatch
