-------------------------- MODULE IdentityChannel --------------------------
(***************************************************************************)
(* Signed envelopes between agents (core/identity.py): the key versions of *)
(* AgentIdentityRegistry, sign_envelope, and verify_envelope with its      *)
(* nonce store.  Between signing and verifying is the host's transport,    *)
(* which may lose, delay, reorder and repeat envelopes, and damage their   *)
(* body, hash or signature.  Nonce and timestamp, which the signature does *)
(* not cover, arrive as they were sent.                                    *)
(*                                                                         *)
(* Every envelope gets a nonce of its own when it is made: envelopes are   *)
(* numbered, and the number is the nonce.  The clock moves by ticks;       *)
(* verify_envelope reads it once for the freshness of the timestamp, and   *)
(* again, up to Slip ticks later, in the nonce store and the registry.     *)
(*                                                                         *)
(* seen, accepted and dropped are history variables.                       *)
(***************************************************************************)
EXTENDS NonceReplayStore

CONSTANTS
    Agents, Keys,
    MaxDrift,        \* max_drift_ms
    Grace,           \* grace_period_seconds
    Slip,            \* how late the second clock reading may be
    Skew,            \* how far a sender's clock may be off
    MaxEnvelopes,    \* bound: envelopes signed
    MaxTime          \* bound: ticks

ASSUME ChannelAssumption ==
    \A n \in {MaxDrift, Grace, Slip, Skew, MaxEnvelopes, MaxTime} : n \in Nat

VARIABLES
    now,
    store,       \* _store of the receiver's NonceReplayStore
    keys,        \* _keys: the key versions of each agent, oldest first
    sent,        \* the envelopes signed so far
    seen,        \* the nonces that check_and_add was ever called with
    accepted,    \* how often each was found valid; 2 is more than once
    dropped      \* the nonces lost to a full store within their lifetime

history == <<seen, accepted, dropped>>
vars == <<now, store, keys, sent, history>>

Ids == 1 .. MaxEnvelopes
Times == 0 .. MaxTime
KeyVersion == [key : Keys, created_at : Times]
Envelope == [agent : Agents, key : Keys, ts : -Skew .. MaxTime + Skew]

TypeOK ==
    /\ now \in Times
    /\ store \in Seq([nonce : Ids, ts : -Skew .. MaxTime + Skew])
    /\ keys \in [Agents -> Seq(KeyVersion)]
    /\ sent \in Seq(Envelope)
    /\ seen \subseteq Ids
    /\ accepted \in [Ids -> 0 .. 2]
    /\ dropped \subseteq Ids

Init ==
    /\ now = 0
    /\ store = <<>>
    /\ keys = [a \in Agents |-> <<>>]
    /\ sent = <<>>
    /\ seen = {}
    /\ accepted = [e \in Ids |-> 0]
    /\ dropped = {}

-----------------------------------------------------------------------------
(* The registry *)

\* register_agent and rotate_key both append a version made now; the first
\* also when the agent is new.
AddKey(a, k) ==
    /\ \A b \in Agents : \A i \in DOMAIN keys[b] : keys[b][i].key # k
    /\ keys' = [keys EXCEPT ![a] = Append(@, [key |-> k, created_at |-> now])]
    /\ UNCHANGED <<now, store, sent, history>>

\* get_active_public_keys: the latest version and those made within the
\* grace period.
ActiveKeys(a, clock) ==
    {keys[a][i].key : i \in {j \in DOMAIN keys[a] :
        \/ clock - keys[a][j].created_at <= Grace
        \/ j = Len(keys[a])}}

-----------------------------------------------------------------------------
(* Envelopes *)

Sign(a, k, skew) ==
    /\ Len(sent) < MaxEnvelopes
    /\ sent' = Append(sent, [agent |-> a, key |-> k, ts |-> now + skew])
    /\ UNCHANGED <<now, store, keys, history>>

\* The drift is an absolute value: envelopes from the future are recent too.
IsRecent(e) == now - sent[e].ts \in -MaxDrift .. MaxDrift

\* The nonces that a full store drops although their envelopes may come again.
DroppedBy(e, clock) ==
    LET s == Evict(store, clock)
    IN  IF IsFresh(store, e, clock) /\ Overflows(s) /\ s[1].ts >= clock - Ttl
        THEN {s[1].nonce} ELSE {}

\* Nothing is registered for an envelope that is too old or too new.
VerifyDrifted(e) == ~IsRecent(e) /\ UNCHANGED vars

\* What every verification of a recent envelope does to the store.
Register(e, clock) ==
    /\ IsRecent(e)
    /\ now' = clock
    /\ store' = CheckAndAdd(store, e, sent[e].ts, clock)
    /\ dropped' = dropped \cup DroppedBy(e, clock)
    /\ seen' = seen \cup {e}
    /\ UNCHANGED <<keys, sent>>

VerifyReplayed(e, clock) ==
    /\ Register(e, clock)
    /\ ~IsFresh(store, e, clock)
    /\ UNCHANGED accepted

\* The nonce is registered before the payload hash and the signature are
\* looked at, and stays registered when they are wrong.
SignatureHolds(e, clock) == sent[e].key \in ActiveKeys(sent[e].agent, clock)

\* Mutated form of VerifyInvalid: the nonce is taken out again.
VerifyInvalidForgets(e, clock, damaged) ==
    /\ IsRecent(e)
    /\ IsFresh(store, e, clock)
    /\ damaged \/ ~SignatureHolds(e, clock)
    /\ seen' = seen \cup {e}
    /\ UNCHANGED <<now, store, keys, sent, accepted, dropped>>

VerifyInvalid(e, clock, damaged) ==
    /\ Register(e, clock)
    /\ IsFresh(store, e, clock)
    /\ damaged \/ ~SignatureHolds(e, clock)
    /\ UNCHANGED accepted

VerifyValid(e, clock) ==
    /\ Register(e, clock)
    /\ IsFresh(store, e, clock)
    /\ SignatureHolds(e, clock)
    /\ accepted' = [accepted EXCEPT ![e] = IF @ < 2 THEN @ + 1 ELSE @]

VerifyEnvelope(e, clock, damaged) ==
    \/ VerifyDrifted(e)
    \/ VerifyReplayed(e, clock)
    \/ VerifyInvalid(e, clock, damaged)
    \/ ~damaged /\ VerifyValid(e, clock)

TimePasses ==
    /\ now < MaxTime
    /\ now' = now + 1
    /\ UNCHANGED <<store, keys, sent, history>>

LaterReadings == {t \in now .. now + Slip : t <= MaxTime}

Next ==
    \/ \E a \in Agents, k \in Keys : AddKey(a, k)
    \/ \E a \in Agents, k \in Keys, skew \in -Skew .. Skew : Sign(a, k, skew)
    \/ \E e \in DOMAIN sent, clock \in LaterReadings, damaged \in BOOLEAN :
          VerifyEnvelope(e, clock, damaged)
    \/ TimePasses

Spec == Init /\ [][Next]_vars

-----------------------------------------------------------------------------
(* Properties *)

\* verify_envelope accepts an envelope at most once, however often and late
\* the transport repeats it, unless a full store dropped its nonce early:
\* a nonce outlives the freshness of its envelope, also when the sender's
\* clock is ahead and expired nonces queue behind (identity.py:43,190,201).
AcceptedOnce == \A e \in Ids : accepted[e] > 1 => e \in dropped

\* With its bounded store the receiver tells envelopes as one that remembers
\* everything would: a recent envelope is refused as a replay if its nonce
\* has been seen and only then, unless a full store dropped it.  It makes no
\* difference that the store forgets, in what order it does, what the earlier
\* verification found, or how far the clocks are apart (identity.py:43,51,
\* 190,207).
MemoryIsPerfect ==
    \A e \in DOMAIN sent \ dropped : IsRecent(e) =>
        \A clock \in LaterReadings : IsFresh(store, e, clock) <=> e \notin seen

\* The channel is a ReplayGuard with room for Capacity nonces.
Guard == INSTANCE ReplayGuard WITH forgotten <- dropped
ImplementsReplayGuard == Guard!Spec

\* The store holds each nonce once and never more than Capacity
\* (identity.py:52).
StoreIsBounded ==
    /\ Len(store) <= Capacity
    /\ Cardinality(Nonces(store)) = Len(store)

\* A nonce does not outstay its use for long: after a verification has
\* changed the store, no entry is older than its lifetime and twice the
\* allowed drift, although only the head of the store is ever examined
\* (identity.py:43-46).
RetentionIsBounded ==
    [][store' # store =>
         \A i \in DOMAIN store' : now' - store'[i].ts <= Ttl + 2 * MaxDrift]_vars

\* What the proofs need besides.  The store holds what was sent, each nonce
\* in one place, nothing from further ahead than the allowed drift and nothing
\* further behind an older entry than twice that; an envelope that was seen is
\* in the store, or dropped by a full one, until it is no longer fresh.
StoredAsSent ==
    \A i \in DOMAIN store :
        /\ store[i].nonce \in DOMAIN sent
        /\ store[i].ts = sent[store[i].nonce].ts
StoredOnce ==
    /\ Len(store) <= Capacity
    /\ \A i, j \in DOMAIN store : store[i].nonce = store[j].nonce => i = j
StoreInOrder ==
    \A i \in DOMAIN store :
        /\ store[i].ts <= now + MaxDrift
        /\ \A j \in i .. Len(store) : store[j].ts >= store[i].ts - 2 * MaxDrift
StoreInv ==
    /\ TypeOK
    /\ Len(sent) <= MaxEnvelopes
    /\ StoredAsSent
    /\ StoredOnce
    /\ StoreInOrder
SeenInv ==
    /\ seen \subseteq DOMAIN sent
    /\ Nonces(store) \cup dropped \subseteq seen
    /\ \A e \in Ids : accepted[e] > 0 => e \in seen
Remembered ==
    \A e \in seen : \/ e \in dropped
                     \/ e \in Nonces(store)
                     \/ now - sent[e].ts > MaxDrift
IndInv == StoreInv /\ SeenInv /\ Remembered /\ AcceptedOnce

\* identity.py:100: "Rotates agent key while keeping previous key active
\* during grace period."
PreviousKeyHasGrace ==
    \A a \in Agents : \A i \in 1 .. Len(keys[a]) - 1 :
        now - keys[a][i + 1].created_at <= Grace
            => keys[a][i].key \in ActiveKeys(a, now)
=============================================================================
