\* Nonces are kept as long as envelopes stay fresh, as in the defaults, and the
\* clock advances between the two readings of one verification.
SPECIFICATION Spec
CONSTANTS
    Agents = {a1}
    Keys = {k1}
    Ttl = 1
    Capacity = 2
    MaxDrift = 1
    Grace = 1
    Slip = 1
    Skew = 0
    MaxEnvelopes = 1
    MaxTime = 3
INVARIANTS AcceptedOnce
