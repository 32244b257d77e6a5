\* One workflow, one reviewer.
SPECIFICATION Spec
CONSTANTS
    x1 = x1
    x2 = x2
    x3 = x3
    ExecStates <- MCExecStates
    Digest <- MCDigest
    Checkpoints = {c1}
    Reviewers = {r1}
    Keys = {k1, k2}
    MinDwell = 1
    MaxReviews = 2
    NoKey = NoKey
    BadSignature = BadSignature
    NotHex = NotHex
PROPERTIES ResolvedIsFinal
