-------------------------- MODULE NonceReplayStore --------------------------
(***************************************************************************)
(* NonceReplayStore (core/identity.py): the nonces seen, in the order of   *)
(* insertion, each with the timestamp its envelope claims.  These are      *)
(* operators on the value of the OrderedDict, a sequence of entries; the   *)
(* channel keeps it and passes the clock the store reads for itself.       *)
(***************************************************************************)
EXTENDS Integers, FiniteSetsExt, SequencesExt

CONSTANTS
    Ttl,        \* ttl_seconds
    Capacity    \* max_capacity

ASSUME StoreAssumption == Ttl \in Nat /\ Capacity \in Nat \ {0}

Nonces(s) == {s[i].nonce : i \in DOMAIN s}

\* Mutated forms of Evict: an entry whose age is Ttl leaves too; only one
\* expired entry leaves.
EvictEarly(s, clock) ==
    LET live == {i \in DOMAIN s : s[i].ts > clock - Ttl}
    IN  IF live = {} THEN <<>> ELSE SubSeq(s, Min(live), Len(s))
EvictOne(s, clock) ==
    IF s # <<>> /\ s[1].ts < clock - Ttl THEN Tail(s) ELSE s

\* Entries older than Ttl leave from the left, up to the first that is not:
\* timestamps are the senders', so expired ones may stay behind it.
Evict(s, clock) ==
    LET live == {i \in DOMAIN s : s[i].ts >= clock - Ttl}
    IN  IF live = {} THEN <<>> ELSE SubSeq(s, Min(live), Len(s))

\* Mutated forms of Overflows: the store may exceed its capacity by one; one
\* place of it is never used.
OverflowsLate(s) == Len(s) > Capacity
OverflowsEarly(s) == Len(s) >= Capacity - 1

\* A full store drops its oldest insertion, expired or not.
Overflows(s) == Len(s) >= Capacity
\* Mutated form of Add: the time of expiry is stored for the timestamp.
AddExpiry(s, nonce, ts) ==
    Append(IF Overflows(s) THEN Tail(s) ELSE s, [nonce |-> nonce, ts |-> ts + Ttl])

Add(s, nonce, ts) ==
    Append(IF Overflows(s) THEN Tail(s) ELSE s, [nonce |-> nonce, ts |-> ts])

\* check_and_add: what it answers and what it leaves.
IsFresh(s, nonce, clock) == nonce \notin Nonces(Evict(s, clock))
CheckAndAdd(s, nonce, ts, clock) ==
    IF IsFresh(s, nonce, clock)
    THEN Add(Evict(s, clock), nonce, ts) ELSE Evict(s, clock)
=============================================================================
