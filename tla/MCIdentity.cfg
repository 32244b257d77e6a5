\* Three envelopes, a store for two, senders' clocks off by one tick, a second
\* clock reading up to one tick later, and nonces kept one tick longer than
\* envelopes stay fresh.
SPECIFICATION Spec
CONSTANTS
    Agents = {a1}
    Keys = {k1}
    Ttl = 2
    Capacity = 2
    MaxDrift = 1
    Grace = 1
    Slip = 1
    Skew = 1
    MaxEnvelopes = 3
    MaxTime = 4
INVARIANTS AcceptedOnce StoreIsBounded MemoryIsPerfect IndInv
PROPERTIES RetentionIsBounded ImplementsReplayGuard
