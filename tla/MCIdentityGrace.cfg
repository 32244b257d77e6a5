\* A key rotated later than one grace period after it was made.
SPECIFICATION Spec
CONSTANTS
    Agents = {a1}
    Keys = {k1, k2}
    Ttl = 1
    Capacity = 2
    MaxDrift = 1
    Grace = 1
    Slip = 0
    Skew = 0
    MaxEnvelopes = 1
    MaxTime = 3
INVARIANTS PreviousKeyHasGrace
