\* One agent at the program's own numbers (threshold 20, one point a turn):
\* every score is possible.  The breaker is reduced to its smallest form.
SPECIFICATION Spec
CONSTANTS
    search = search
    shell = shell
    Agents = {a1}
    Tools <- BothTools
    AllowedTools <- OnlySearch
    DefaultTools <- OnlySearch
    QuarantineThreshold = 20
    RecoveryRate = 1
    FailureThreshold = 1
    RecoveryTime = 0
    MaxPending = 1
    MaxStrikes = 6
    MaxSuccesses = 22
INVARIANTS CriticalScoreIsQuarantined StrikeBudget IndInv
PROPERTIES QuarantineIsSticky
