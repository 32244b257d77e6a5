\* Two workflows, two reviewers with one review each, two keys, three states
\* of which two share a digest.
SPECIFICATION Spec
CONSTANTS
    x1 = x1
    x2 = x2
    x3 = x3
    ExecStates <- MCExecStates
    Digest <- MCDigest
    Checkpoints = {c1, c2}
    Reviewers = {r1, r2}
    Keys = {k1, k2}
    MinDwell = 1
    MaxReviews = 1
    NoKey = NoKey
    BadSignature = BadSignature
    NotHex = NotHex
SYMMETRY MCSymmetry
INVARIANTS ApprovedWasSigned AbortedWasMutated OutcomesAreCounted IndInv
PROPERTIES ApprovalIsCurrent
