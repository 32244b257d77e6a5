\* One tool, two failures to trip it, a recovery time of two ticks, up to
\* three reports to come: late failures restart the recovery time of a tripped
\* breaker twice, late successes close it.
SPECIFICATION FairSpec
CONSTANTS
    search = search
    shell = shell
    Agents = {a1}
    Tools <- OnlySearch
    AllowedTools <- NoTools
    DefaultTools <- OnlySearch
    QuarantineThreshold = 20
    RecoveryRate = 1
    FailureThreshold = 2
    RecoveryTime = 2
    MaxPending = 3
    MaxStrikes = 0
    MaxSuccesses = 0
INVARIANTS ClosedIffBelowThreshold
PROPERTIES QuietPeriod OpenIsProbed
