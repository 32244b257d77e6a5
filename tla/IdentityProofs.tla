--------------------------- MODULE IdentityProofs ---------------------------
(* Proofs about IdentityChannel, for any agents, keys, lifetimes, drifts   *)
(* and capacity.  That the channel is a ReplayGuard, and so accepts an     *)
(* envelope once, needs one hypothesis about the parameters, which the     *)
(* program's defaults do not satisfy: a nonce must live as long as its     *)
(* envelope is fresh, and as long again as the clock moves between the two *)
(* readings of a verification.                                             *)
EXTENDS IdentityChannel, FunctionTheorems, SequenceTheorems,
        FiniteSetTheorems, TLAPS

LongEnough == Ttl >= MaxDrift + Slip

Entry == [nonce : Ids, ts : -Skew .. MaxTime + Skew]

LEMMA Constants ==
  /\ Ttl \in Nat /\ Capacity \in Nat \ {0} /\ MaxDrift \in Nat /\ Grace \in Nat
  /\ Slip \in Nat /\ Skew \in Nat /\ MaxEnvelopes \in Nat /\ MaxTime \in Nat
BY StoreAssumption, ChannelAssumption

-----------------------------------------------------------------------------
(* The store *)

\* A set of numbers that is not empty has a least member.
LEMMA LeastMember ==
  ASSUME NEW S \in SUBSET Nat, S # {}
  PROVE  Min(S) \in S /\ \A j \in S : Min(S) <= j
<1> DEFINE R == OpToRel(<, Nat)
<1>1. IsWellFoundedOn(R, Nat)
  BY NatLessThanWellFounded
<1>2. \A i, j \in Nat : i < j => <<i, j>> \in R
  BY DEF OpToRel
<1> HIDE DEF R
<1>3. PICK m \in S : \A j \in S : <<j, m>> \notin R
  BY <1>1, WFMin
<1>4. \A j \in S : ~(j < m)
  BY <1>2, <1>3, Zenon
<1>5. \A j \in S : m <= j
  BY <1>4
<1> QED  BY <1>5 DEF Min

\* Eviction takes expired entries from the left and stops at a live one.
LEMMA EvictTakes ==
  ASSUME NEW s \in Seq(Entry), NEW clock \in Int
  PROVE  \E k \in 0 .. Len(s) :
            /\ Evict(s, clock) = SubSeq(s, k + 1, Len(s))
            /\ \A i \in 1 .. k : s[i].ts < clock - Ttl
            /\ k < Len(s) => s[k + 1].ts >= clock - Ttl
<1> DEFINE live == {i \in DOMAIN s : s[i].ts >= clock - Ttl}
<1>1. DOMAIN s = 1 .. Len(s) /\ Len(s) \in Nat
  BY LenProperties
<1>2. \A i \in 1 .. Len(s) : s[i] \in Entry /\ s[i].ts \in Int
  <2>1. \A i \in 1 .. Len(s) : s[i] \in Entry
    BY ElementOfSeq
  <2> QED  BY <2>1, Constants DEF Entry
<1>3. CASE live = {}
  <2>1. Evict(s, clock) = SubSeq(s, Len(s) + 1, Len(s))
    BY <1>1, <1>3, SubSeqEmpty DEF Evict
  <2>2. \A i \in 1 .. Len(s) : s[i].ts < clock - Ttl
    BY <1>1, <1>2, <1>3, Constants
  <2> QED  BY <1>1, <2>1, <2>2
<1>4. CASE live # {}
  <2>1. live \in SUBSET Nat
    BY <1>1
  <2>2. Min(live) \in live /\ \A j \in live : Min(live) <= j
    BY <1>4, <2>1, LeastMember
  <2>3. Evict(s, clock) = SubSeq(s, Min(live), Len(s))
    BY <1>4 DEF Evict
  <2> DEFINE k == Min(live) - 1
  <2>4. k \in 0 .. Len(s) /\ k + 1 = Min(live)
    BY <1>1, <2>2
  <2>5. \A i \in 1 .. k : s[i].ts < clock - Ttl
    <3>1. \A i \in 1 .. k : i \in 1 .. Len(s) /\ ~(Min(live) <= i)
      BY <1>1, <2>2, <2>4
    <3>2. ASSUME NEW i \in 1 .. k PROVE s[i].ts < clock - Ttl
      <4>1. i \in DOMAIN s /\ i \notin live
        BY <1>1, <2>2, <3>1
      <4>2. ~(s[i].ts >= clock - Ttl)
        BY <4>1
      <4>3. s[i].ts \in Int /\ clock - Ttl \in Int
        BY <1>1, <1>2, <4>1, Constants
      <4> QED  BY <4>2, <4>3
    <3> QED  BY <3>2
  <2> QED  BY <2>2, <2>3, <2>4, <2>5
<1> QED  BY <1>3, <1>4

\* A sequence that lost its first k entries.
LEMMA Suffix ==
  ASSUME NEW s \in Seq(Entry), NEW k \in 0 .. Len(s)
  PROVE  LET t == SubSeq(s, k + 1, Len(s))
         IN  /\ t \in Seq(Entry)
             /\ Len(t) = Len(s) - k
             /\ DOMAIN t = 1 .. Len(s) - k
             /\ \A i \in 1 .. Len(s) - k : t[i] = s[k + i]
<1>1. Len(s) \in Nat /\ \A i \in k + 1 .. Len(s) : s[i] \in Entry
  BY LenProperties, ElementOfSeq
<1>2. /\ SubSeq(s, k + 1, Len(s)) \in Seq(Entry)
      /\ Len(SubSeq(s, k + 1, Len(s))) = IF k + 1 <= Len(s) THEN Len(s) - (k + 1) + 1 ELSE 0
      /\ \A i \in 1 .. Len(s) - (k + 1) + 1 : SubSeq(s, k + 1, Len(s))[i] = s[(k + 1) + i - 1]
  BY <1>1, SubSeqProperties
<1> QED  BY <1>1, <1>2, LenProperties

\* What a verification leaves of the store, whose first k entries leave it:
\* all of these have expired, but for the one that a full store drops, and
\* the first that stays is not far behind a live one.
Remains(e, clock, k) ==
    LET rest == SubSeq(store, k + 1, Len(store))
        new == [nonce |-> e, ts |-> sent[e].ts]
        kept == {store[i].nonce : i \in k + 1 .. Len(store)}
    IN  /\ CheckAndAdd(store, e, sent[e].ts, clock)
              = IF IsFresh(store, e, clock) THEN Append(rest, new) ELSE rest
        /\ \A i \in 1 .. k :
              store[i].ts < clock - Ttl \/ store[i].nonce \in DroppedBy(e, clock)
        /\ IsFresh(store, e, clock) =>
              \A i \in DOMAIN store : store[i].nonce = e => store[i].ts < clock - Ttl
        /\ IsFresh(store, e, clock) => e \notin kept
        /\ IsFresh(store, e, clock) /\ Len(store) <= Capacity => Len(store) - k < Capacity
        /\ k < Len(store) => \E h \in 1 .. k + 1 : store[h].ts >= clock - Ttl

\* A later reading of the clock is an integer, and a recent envelope is within
\* the allowed drift of the first.
LEMMA Readings ==
  ASSUME TypeOK, NEW clock \in now .. now + Slip
  PROVE  /\ now \in Int /\ clock \in Int
         /\ now <= clock /\ clock <= now + Slip
<1>1. now \in Int /\ now + Slip \in Int
  BY Constants DEF TypeOK, Times
<1> QED  BY <1>1

LEMMA StoreAfter ==
  ASSUME store \in Seq(Entry), NEW e \in Ids, NEW clock \in Int
  PROVE  \E k \in 0 .. Len(store) : Remains(e, clock, k)
<1> DEFINE n == Len(store)
           S(k) == SubSeq(store, k + 1, n)
           new == [nonce |-> e, ts |-> sent[e].ts]
<1>1. PICK j \in 0 .. n :
            /\ Evict(store, clock) = S(j)
            /\ \A i \in 1 .. j : store[i].ts < clock - Ttl
            /\ j < n => store[j + 1].ts >= clock - Ttl
  BY EvictTakes
<1>2. n \in Nat /\ DOMAIN store = 1 .. n
  BY LenProperties
<1>3. \A k \in 0 .. n : /\ S(k) \in Seq(Entry) /\ Len(S(k)) = n - k
                        /\ DOMAIN S(k) = 1 .. n - k
                        /\ \A i \in 1 .. n - k : S(k)[i] = store[k + i]
  BY Suffix
<1> DEFINE t == S(j)
<1>0. /\ Evict(store, clock) = t /\ Len(t) = n - j /\ DOMAIN t = 1 .. n - j
      /\ \A i \in 1 .. n - j : t[i] = store[j + i]
  BY <1>1, <1>3
<1>4. Nonces(Evict(store, clock)) = {store[i].nonce : i \in j + 1 .. n}
  <2> HIDE DEF t
  <2>1. \A i \in 1 .. n - j : j + i \in j + 1 .. n
    BY <1>2
  <2>2. \A i \in j + 1 .. n : i - j \in 1 .. n - j /\ i = j + (i - j)
    BY <1>2
  <2>3. \A i \in j + 1 .. n : t[i - j] = store[i]
    BY <1>0, <2>2
  <2>4. Nonces(t) = {t[i].nonce : i \in 1 .. n - j}
    BY <1>0 DEF Nonces
  <2>5. \A i \in 1 .. n - j : t[i].nonce = store[j + i].nonce
    BY <1>0
  <2>6. Nonces(t) \subseteq {store[i].nonce : i \in j + 1 .. n}
    BY <2>1, <2>4, <2>5
  <2>7. {store[i].nonce : i \in j + 1 .. n} \subseteq Nonces(t)
    BY <2>2, <2>3, <2>4
  <2> QED  BY <1>0, <2>6, <2>7
<1>5. IsFresh(store, e, clock) <=> \A i \in j + 1 .. n : store[i].nonce # e
  BY <1>4 DEF IsFresh
<1>6. IsFresh(store, e, clock) =>
         \A i \in DOMAIN store : store[i].nonce = e => store[i].ts < clock - Ttl
  <2>1. \A i \in 1 .. n : i \in 1 .. j \/ i \in j + 1 .. n
    BY <1>2
  <2> QED  BY <1>1, <1>2, <1>5, <2>1
<1>7. j < n => j + 1 \in 1 .. j + 1
  BY <1>2
<1>8. CASE ~IsFresh(store, e, clock)
  <2>1. CheckAndAdd(store, e, sent[e].ts, clock) = S(j)
    BY <1>1, <1>8 DEF CheckAndAdd
  <2>2. Remains(e, clock, j)
    BY <1>1, <1>7, <1>8, <2>1 DEF Remains
  <2> QED  BY <2>2
<1>9. CASE IsFresh(store, e, clock) /\ ~Overflows(S(j))
  <2>1. CheckAndAdd(store, e, sent[e].ts, clock) = Append(S(j), new)
    BY <1>1, <1>9 DEF CheckAndAdd, Add
  <2>2. n - j < Capacity
    <3> HIDE DEF t
    <3>1. ~(Len(t) >= Capacity)
      BY <1>9 DEF t, Overflows
    <3> QED  BY <1>0, <1>2, <3>1, Constants
  <2>3. Remains(e, clock, j)
    BY <1>1, <1>5, <1>6, <1>7, <1>9, <2>1, <2>2 DEF Remains
  <2> QED  BY <2>3
<1>10. CASE IsFresh(store, e, clock) /\ Overflows(S(j))
  <2>1. j < n
    <3> HIDE DEF t
    <3>1. Len(t) >= Capacity
      BY <1>10 DEF t, Overflows
    <3> QED  BY <1>0, <1>2, <3>1, Constants
  <2>2. S(j) # <<>> /\ S(j)[1] = store[j + 1]
    <3> HIDE DEF t
    <3>1. Len(t) > 0 /\ 1 \in 1 .. n - j
      BY <1>0, <1>2, <2>1
    <3>2. Len(<<>>) = 0
      BY EmptySeq
    <3>3. t # <<>> /\ t[1] = store[j + 1]
      BY <1>0, <3>1, <3>2
    <3> QED  BY <3>3 DEF t
  <2>3. Tail(S(j)) = S(j + 1)
    <3>1. Tail(S(j)) = SubSeq(store, (j + 1) + 1, n)
      BY <1>2, <2>1, HeadTailOfSubSeq
    <3> QED  BY <3>1
  <2>4. CheckAndAdd(store, e, sent[e].ts, clock) = Append(S(j + 1), new)
    BY <1>1, <1>10, <2>3 DEF CheckAndAdd, Add
  <2>5. store[j + 1].nonce \in DroppedBy(e, clock)
    BY <1>1, <1>10, <2>1, <2>2 DEF DroppedBy
  <2>6. \A i \in 1 .. j + 1 : i \in 1 .. j \/ i = j + 1
    BY <1>2
  <2>7. \A i \in (j + 1) + 1 .. n : i \in j + 1 .. n
    BY <1>2
  <2>8. n <= Capacity => n - (j + 1) < Capacity
    BY <1>2, Constants
  <2>9. j + 1 \in 1 .. (j + 1) + 1 /\ j + 1 \in 0 .. n
    BY <1>2, <2>1
  <2>10. e \notin {store[i].nonce : i \in (j + 1) + 1 .. n}
    BY <1>5, <1>10, <2>7
  <2>11. Remains(e, clock, j + 1)
    BY <1>1, <1>6, <1>10, <2>1, <2>4, <2>5, <2>6, <2>8, <2>9, <2>10 DEF Remains
  <2> QED  BY <2>9, <2>11
<1> QED  BY <1>8, <1>9, <1>10

\* The same, entry by entry: a verification of a recent envelope moves the
\* entries k places to the left and appends the new one if its nonce is fresh.
Moved(e, clock, k) ==
    LET rest == Len(store) - k
        fresh == IsFresh(store, e, clock)
    IN  /\ store' \in Seq(Entry)
        /\ Len(store') = IF fresh THEN rest + 1 ELSE rest
        /\ DOMAIN store' = 1 .. Len(store')
        /\ \A i \in 1 .. rest : store'[i] = store[k + i]
        /\ fresh => store'[rest + 1] = [nonce |-> e, ts |-> sent[e].ts]

LEMMA SentEntry ==
  ASSUME TypeOK, Len(sent) <= MaxEnvelopes, NEW e \in DOMAIN sent
  PROVE  /\ e \in Ids /\ sent[e].ts \in -Skew .. MaxTime + Skew
         /\ sent[e].ts \in Int
         /\ [nonce |-> e, ts |-> sent[e].ts] \in Entry
<1>1. DOMAIN sent = 1 .. Len(sent) /\ Len(sent) \in Nat /\ sent[e] \in Envelope
  BY LenProperties, ElementOfSeq DEF TypeOK
<1>2. e \in Ids /\ sent[e].ts \in -Skew .. MaxTime + Skew
  BY <1>1, Constants DEF Ids, Envelope
<1> QED  BY <1>2, Constants DEF Entry

LEMMA StoreMoves ==
  ASSUME StoreInv, NEW e \in DOMAIN sent, NEW clock \in Int, Register(e, clock)
  PROVE  \E k \in 0 .. Len(store) : Remains(e, clock, k) /\ Moved(e, clock, k)
<1>1. store \in Seq(Entry) /\ e \in Ids
  BY SentEntry DEF StoreInv, TypeOK, Entry
<1>2. PICK k \in 0 .. Len(store) : Remains(e, clock, k)
  BY <1>1, StoreAfter
<1> DEFINE r == SubSeq(store, k + 1, Len(store))
           new == [nonce |-> e, ts |-> sent[e].ts]
<1>3. /\ r \in Seq(Entry) /\ Len(r) = Len(store) - k
      /\ \A i \in 1 .. Len(store) - k : r[i] = store[k + i]
  BY <1>1, Suffix
<1>4. store' = IF IsFresh(store, e, clock) THEN Append(r, new) ELSE r
  BY <1>2 DEF Remains, Register
<1>5. new \in Entry
  BY SentEntry DEF StoreInv
<1> HIDE DEF r, new
<1>6. /\ Append(r, new) \in Seq(Entry) /\ Len(Append(r, new)) = Len(r) + 1
      /\ \A i \in 1 .. Len(r) : Append(r, new)[i] = r[i]
      /\ Append(r, new)[Len(r) + 1] = new
  <2>1. r \in Seq(Entry)
    BY <1>3
  <2> QED  BY <1>5, <2>1, AppendProperties
<1>7. Moved(e, clock, k)
  <2>1. CASE IsFresh(store, e, clock)
    BY <1>3, <1>4, <1>6, <2>1, LenProperties DEF Moved, new
  <2>2. CASE ~IsFresh(store, e, clock)
    BY <1>3, <1>4, <2>2, LenProperties DEF Moved
  <2> QED  BY <2>1, <2>2
<1> QED  BY <1>2, <1>7

\* A verification of a recent envelope preserves what is known of the store.
LEMMA StoreStep ==
  ASSUME StoreInv, NEW e \in DOMAIN sent, NEW clock \in now .. now + Slip,
         clock <= MaxTime, Register(e, clock),
         accepted' \in [Ids -> 0 .. 2]
  PROVE  StoreInv'
<1>1. /\ now \in Nat /\ clock \in Int /\ now <= clock /\ clock \in Times
  BY Constants DEF StoreInv, TypeOK, Times
<1>2. PICK k \in 0 .. Len(store) : Remains(e, clock, k) /\ Moved(e, clock, k)
  BY <1>1, StoreMoves
<1> DEFINE n == Len(store)
           rest == n - k
           m == Len(store')
           fresh == IsFresh(store, e, clock)
<1>3. /\ store \in Seq(Entry) /\ n \in Nat /\ DOMAIN store = 1 .. n /\ rest \in Nat
      /\ \A i \in 1 .. n : store[i].ts \in Int
  <2>1. store \in Seq(Entry)
    BY DEF StoreInv, TypeOK, Entry
  <2>2. \A i \in 1 .. n : store[i] \in Entry
    BY <2>1, ElementOfSeq
  <2> QED  BY <2>1, <2>2, LenProperties, Constants DEF Entry
<1>4. /\ store' \in Seq(Entry) /\ m \in Nat /\ DOMAIN store' = 1 .. m
      /\ \A i \in 1 .. rest : store'[i] = store[k + i] /\ k + i \in 1 .. n
      /\ (fresh => m = rest + 1) /\ (~fresh => m = rest)
      /\ fresh => store'[m] = [nonce |-> e, ts |-> sent[e].ts]
  <2>1. store' \in Seq(Entry) /\ m \in Nat /\ DOMAIN store' = 1 .. m
    BY <1>2, LenProperties DEF Moved
  <2>2. \A i \in 1 .. rest : k + i \in 1 .. n
    BY <1>3
  <2> QED  BY <1>2, <2>1, <2>2 DEF Moved
<1>5. /\ sent' = sent /\ keys' = keys /\ now' = clock /\ e \in Ids
      /\ sent[e].ts \in Int /\ sent[e].ts <= now + MaxDrift
      /\ now - MaxDrift <= sent[e].ts
  <2>1. sent[e].ts \in Int /\ e \in Ids
    BY SentEntry DEF StoreInv
  <2>2. now - sent[e].ts \in -MaxDrift .. MaxDrift
    BY DEF Register, IsRecent
  <2>3. \A t \in Int : now - t \in -MaxDrift .. MaxDrift
                          => t <= now + MaxDrift /\ now - MaxDrift <= t
    BY <1>1, Constants
  <2> QED  BY <2>1, <2>2, <2>3 DEF Register
<1>r. /\ fresh => (n <= Capacity => rest < Capacity)
      /\ fresh => \A h \in k + 1 .. n : store[h].nonce # e
      /\ n <= Capacity
      /\ \A i, j \in 1 .. n : store[i].nonce = store[j].nonce => i = j
      /\ \A i \in 1 .. n : /\ store[i].ts <= now + MaxDrift
                           /\ \A j \in i .. n : store[j].ts >= store[i].ts - 2 * MaxDrift
                           /\ store[i].nonce \in DOMAIN sent
                           /\ store[i].ts = sent[store[i].nonce].ts
  BY <1>2, <1>3 DEF Remains, StoreInv, StoredOnce, StoreInOrder, StoredAsSent
<1>t. TypeOK /\ Len(sent) <= MaxEnvelopes
  BY DEF StoreInv
<1>6. TypeOK'
  <2>1. DroppedBy(e, clock) \subseteq Ids
    <3>1. Evict(store, clock) \in Seq(Entry)
      <4>1. PICK h \in 0 .. Len(store) : Evict(store, clock) = SubSeq(store, h + 1, Len(store))
        BY <1>1, <1>3, EvictTakes
      <4> QED  BY <1>3, <4>1, Suffix
    <3>2. Overflows(Evict(store, clock)) => 1 \in 1 .. Len(Evict(store, clock))
      BY <3>1, Constants, LenProperties DEF Overflows
    <3>3. Overflows(Evict(store, clock)) => Evict(store, clock)[1] \in Entry
      BY <3>1, <3>2, ElementOfSeq
    <3> QED  BY <3>3 DEF DroppedBy, Entry
  <2> QED
    BY <1>1, <1>4, <1>5, <1>t, <2>1 DEF TypeOK, Register, Entry
<1> DEFINE D == MaxDrift
<1>d. D \in Nat /\ D = MaxDrift
  BY Constants
<1>k. k \in Nat /\ rest = n - k /\ DOMAIN store' = 1 .. m /\ m = Len(store')
  <2>1. k \in Nat
    OBVIOUS
  <2>2. rest = n - k /\ m = Len(store')
    OBVIOUS
  <2>3. DOMAIN store' = 1 .. m
    BY <1>4
  <2> QED  BY <2>1, <2>2, <2>3
<1> HIDE DEF n, rest, m, fresh, D
<1>7. \A i \in 1 .. m : i \in 1 .. rest \/ (fresh /\ i = m)
  BY <1>3, <1>4
<1>8. StoredAsSent'
  <2>1. \A i \in 1 .. m : /\ store'[i].nonce \in DOMAIN sent
                          /\ store'[i].ts = sent[store'[i].nonce].ts
    <3>1. \A i \in 1 .. rest : /\ store'[i].nonce \in DOMAIN sent
                               /\ store'[i].ts = sent[store'[i].nonce].ts
      BY <1>4, <1>r
    <3>2. fresh => store'[m].nonce = e /\ store'[m].ts = sent[e].ts
      BY <1>4
    <3> QED  BY <1>7, <3>1, <3>2
  <2> QED  BY <1>5, <1>k, <2>1 DEF StoredAsSent
<1>9. StoredOnce'
  <2>1. m <= Capacity
    BY <1>3, <1>4, <1>r, Constants
  <2>2. ASSUME NEW i \in 1 .. m, NEW j \in 1 .. m, store'[i].nonce = store'[j].nonce
        PROVE  i = j
    <3>1. CASE i \in 1 .. rest /\ j \in 1 .. rest
      <4>1. k + i = k + j
        BY SMTT(30), <1>4, <1>r, <2>2, <3>1
      <4> QED  BY <1>k, <3>1, <4>1
    <3>2. fresh => \A h \in 1 .. rest : store'[h].nonce # e
      <4>1. \A h \in 1 .. rest : k + h \in k + 1 .. n
        BY <1>3, <1>k
      <4> QED  BY <1>4, <1>r, <4>1
    <3> QED  BY <1>4, <1>7, <2>2, <3>1, <3>2
  <2> QED  BY <1>k, <2>1, <2>2 DEF StoredOnce
<1>10. StoreInOrder'
  <2>1. \A i \in 1 .. m : store'[i].ts \in Int /\ store'[i].ts <= now + D
    BY <1>3, <1>4, <1>5, <1>7, <1>d, <1>r
  <2>2. ASSUME NEW i \in 1 .. m, NEW j \in i .. m
        PROVE  store'[j].ts >= store'[i].ts - 2 * D
    <3>1. CASE j \in 1 .. rest
      <4>1. i \in 1 .. rest /\ k + j \in k + i .. n /\ k + i \in 1 .. n
        BY <1>3, <1>4, <1>k, <2>2, <3>1
      <4> QED  BY <1>4, <1>d, <1>r, <3>1, <4>1
    <3>2. CASE fresh /\ j = m
      <4>1. store'[j].ts = sent[e].ts
        BY <1>4, <3>2
      <4> QED  BY SMTT(30), <1>1, <1>5, <1>d, <2>1, <2>2, <4>1
    <3> QED  BY <1>4, <1>7, <2>2, <3>1, <3>2
  <2>3. \A i \in 1 .. m : store'[i].ts <= now' + D
    BY <1>1, <1>5, <1>d, <2>1
  <2> QED  BY <1>d, <1>k, <2>2, <2>3 DEF StoreInOrder
<1> QED  BY <1>5, <1>6, <1>t, <1>8, <1>9, <1>10 DEF StoreInv
-----------------------------------------------------------------------------
(* The channel *)

\* A verification either changes nothing or registers the nonce; an envelope
\* is accepted only with a fresh one.
LEMMA VerifyOutcomes ==
  ASSUME StoreInv, NEW e \in DOMAIN sent, NEW clock \in LaterReadings,
         NEW damaged \in BOOLEAN, VerifyEnvelope(e, clock, damaged)
  PROVE  \/ UNCHANGED vars
         \/ /\ Register(e, clock)
            /\ clock \in now .. now + Slip /\ clock <= MaxTime
            /\ \/ accepted' = accepted
               \/ /\ IsFresh(store, e, clock)
                  /\ accepted' = [accepted EXCEPT ![e] = IF @ < 2 THEN @ + 1 ELSE @]
            /\ accepted' \in [Ids -> 0 .. 2]
<1>1. clock \in now .. now + Slip /\ clock <= MaxTime
  BY DEF LaterReadings
<1>2. accepted \in [Ids -> 0 .. 2]
  BY DEF StoreInv, TypeOK
<1> QED
  BY <1>1, <1>2
  DEF VerifyEnvelope, VerifyDrifted, VerifyReplayed, VerifyInvalid, VerifyValid

\* Signing leaves the earlier envelopes as they were.
LEMMA SentGrows ==
  ASSUME TypeOK, NEW a \in Agents, NEW c \in Keys, NEW skew \in -Skew .. Skew,
         Sign(a, c, skew)
  PROVE  /\ sent' \in Seq(Envelope) /\ Len(sent') = Len(sent) + 1
         /\ DOMAIN sent = 1 .. Len(sent) /\ Len(sent) \in Nat
         /\ DOMAIN sent' = 1 .. Len(sent')
         /\ \A i \in DOMAIN sent : i \in DOMAIN sent' /\ sent'[i] = sent[i]
         /\ DOMAIN sent \subseteq DOMAIN sent'
<1> DEFINE env == [agent |-> a, key |-> c, ts |-> now + skew]
<1>1. env \in Envelope
  BY Constants DEF TypeOK, Times, Envelope
<1>2. sent \in Seq(Envelope) /\ sent' = Append(sent, env)
  BY DEF TypeOK, Sign
<1> HIDE DEF env
<1>3. /\ sent' \in Seq(Envelope) /\ Len(sent') = Len(sent) + 1
      /\ \A i \in 1 .. Len(sent) : sent'[i] = sent[i]
  BY <1>1, <1>2, AppendProperties
<1>4. /\ DOMAIN sent = 1 .. Len(sent) /\ Len(sent) \in Nat
      /\ DOMAIN sent' = 1 .. Len(sent')
  BY <1>2, <1>3, LenProperties
<1>5. DOMAIN sent \subseteq DOMAIN sent'
  BY <1>3, <1>4
<1> QED  BY <1>3, <1>4, <1>5

\* What is known of the store holds in every reachable state, whatever the
\* lifetimes are.
LEMMA StoreInvariance == Spec => []StoreInv
<1>1. Init => StoreInv
  <2> SUFFICES ASSUME Init PROVE StoreInv
    OBVIOUS
  <2>1. Len(store) = 0 /\ Len(sent) = 0 /\ DOMAIN store = {}
    BY EmptySeq DEF Init
  <2>2. TypeOK
    BY Constants, EmptySeq DEF Init, TypeOK, Times
  <2> QED
    BY <2>1, <2>2, Constants
    DEF StoreInv, StoredAsSent, StoredOnce, StoreInOrder
<1>2. StoreInv /\ [Next]_vars => StoreInv'
  <2> SUFFICES ASSUME StoreInv, [Next]_vars PROVE StoreInv'
    OBVIOUS
  <2>1. ASSUME NEW a \in Agents, NEW c \in Keys, AddKey(a, c) PROVE StoreInv'
    <3>1. keys' \in [Agents -> Seq(KeyVersion)]
      <4>1. [key |-> c, created_at |-> now] \in KeyVersion
        BY DEF StoreInv, TypeOK, KeyVersion
      <4>2. keys[a] \in Seq(KeyVersion)
        BY DEF StoreInv, TypeOK
      <4>3. Append(keys[a], [key |-> c, created_at |-> now]) \in Seq(KeyVersion)
        BY <4>1, <4>2, AppendProperties
      <4> QED  BY <2>1, <4>3 DEF AddKey, StoreInv, TypeOK
    <3> QED
      BY <2>1, <3>1
      DEF AddKey, history, StoreInv, TypeOK, StoredAsSent, StoredOnce, StoreInOrder
  <2>2. ASSUME NEW a \in Agents, NEW c \in Keys, NEW skew \in -Skew .. Skew,
               Sign(a, c, skew)
        PROVE  StoreInv'
    <3>1. /\ sent' \in Seq(Envelope) /\ Len(sent') = Len(sent) + 1
          /\ Len(sent) \in Nat
          /\ \A i \in DOMAIN sent : i \in DOMAIN sent' /\ sent'[i] = sent[i]
      BY <2>2, SentGrows DEF StoreInv
    <3>2. Len(sent') <= MaxEnvelopes
      BY <2>2, <3>1, Constants DEF Sign
    <3>3. StoredAsSent'
      BY <2>2, <3>1 DEF Sign, StoreInv, StoredAsSent
    <3> QED
      BY <2>2, <3>1, <3>2, <3>3
      DEF Sign, history, StoreInv, TypeOK, StoredOnce, StoreInOrder
  <2>3. ASSUME NEW e \in DOMAIN sent, NEW clock \in LaterReadings,
               NEW damaged \in BOOLEAN, VerifyEnvelope(e, clock, damaged)
        PROVE  StoreInv'
    <3>1. CASE UNCHANGED vars
      BY <3>1 DEF vars, history, StoreInv, TypeOK, StoredAsSent, StoredOnce, StoreInOrder
    <3>2. CASE /\ Register(e, clock) /\ clock \in now .. now + Slip
               /\ clock <= MaxTime /\ accepted' \in [Ids -> 0 .. 2]
      BY <3>2, StoreStep
    <3> QED  BY <2>3, <3>1, <3>2, VerifyOutcomes
  <2>4. CASE TimePasses
    <3>1. now \in Times /\ now' = now + 1 /\ now' \in Times
      BY <2>4, Constants DEF TimePasses, StoreInv, TypeOK, Times
    <3>2. \A i \in DOMAIN store : store[i].ts \in Int
      <4>1. store \in Seq(Entry)
        BY DEF StoreInv, TypeOK, Entry
      <4>2. \A i \in 1 .. Len(store) : store[i] \in Entry
        BY <4>1, ElementOfSeq
      <4> QED  BY <4>1, <4>2, LenProperties, Constants DEF Entry
    <3>3. StoreInOrder'
      <4>1. now \in Int /\ store' = store
        BY <2>4, Constants DEF TimePasses, StoreInv, TypeOK, Times
      <4>2. StoreInOrder
        BY DEF StoreInv
      <4>3. \A i \in DOMAIN store : store[i].ts <= now' + MaxDrift
        BY <3>1, <3>2, <4>1, <4>2, Constants DEF StoreInOrder
      <4> QED  BY <4>1, <4>2, <4>3 DEF StoreInOrder
    <3> QED
      BY <2>4, <3>1, <3>3
      DEF TimePasses, history, StoreInv, TypeOK, StoredAsSent, StoredOnce
  <2>5. CASE UNCHANGED vars
    BY <2>5 DEF vars, history, StoreInv, TypeOK, StoredAsSent, StoredOnce, StoreInOrder
  <2> QED  BY <2>1, <2>2, <2>3, <2>4, <2>5 DEF Next
<1> QED  BY <1>1, <1>2, PTL DEF Spec

\* Clocks, stores, keys and envelopes stay in their sets.
THEOREM TypeCorrect == Spec => []TypeOK
<1>1. StoreInv => TypeOK
  BY DEF StoreInv
<1> QED  BY <1>1, StoreInvariance, PTL

\* As many nonces as entries.
LEMMA StoreHoldsEachOnce == StoreInv => StoreIsBounded
<1> SUFFICES ASSUME StoreInv PROVE StoreIsBounded
  OBVIOUS
<1>1. Len(store) \in Nat /\ DOMAIN store = 1 .. Len(store)
  BY LenProperties DEF StoreInv, TypeOK
<1> DEFINE f == [i \in 1 .. Len(store) |-> store[i].nonce]
<1>2. Nonces(store) = {store[i].nonce : i \in 1 .. Len(store)}
  BY <1>1 DEF Nonces
<1>3. f \in [1 .. Len(store) -> Nonces(store)]
  BY <1>2
<1>4. \A x \in Nonces(store) : \E i \in 1 .. Len(store) : f[i] = x
  BY <1>2
<1>5. \A i, j \in 1 .. Len(store) : f[i] = f[j] => i = j
  BY <1>1 DEF StoreInv, StoredOnce
<1>6. f \in Bijection(1 .. Len(store), Nonces(store))
  BY <1>3, <1>4, <1>5 DEF Bijection, Injection, Surjection, IsInjective
<1>7. Cardinality(Nonces(store)) = Len(store)
  BY <1>1, <1>6, FS_CountingElements DEF ExistsBijection
<1> QED  BY <1>7 DEF StoreInv, StoredOnce, StoreIsBounded

\* The store never exceeds its capacity and holds each nonce once.
THEOREM StoreBounded == Spec => []StoreIsBounded
  BY StoreHoldsEachOnce, StoreInvariance, PTL

-----------------------------------------------------------------------------
(* What was seen *)

\* Eviction adds nothing.
LEMMA EvictedWasStored ==
  ASSUME store \in Seq(Entry), NEW clock \in Int
  PROVE  /\ Evict(store, clock) \in Seq(Entry)
         /\ Len(Evict(store, clock)) <= Len(store)
         /\ Nonces(Evict(store, clock)) \subseteq Nonces(store)
<1>1. PICK k \in 0 .. Len(store) : Evict(store, clock) = SubSeq(store, k + 1, Len(store))
  BY EvictTakes
<1> DEFINE t == SubSeq(store, k + 1, Len(store))
<1>2. /\ t \in Seq(Entry) /\ Len(t) = Len(store) - k
      /\ DOMAIN t = 1 .. Len(store) - k
      /\ \A i \in 1 .. Len(store) - k : t[i] = store[k + i]
  BY Suffix
<1> HIDE DEF t
<1>3. DOMAIN store = 1 .. Len(store) /\ Len(store) \in Nat
  BY LenProperties
<1>4. \A i \in 1 .. Len(store) - k : k + i \in 1 .. Len(store)
  BY <1>3
<1>5. Nonces(t) \subseteq Nonces(store)
  BY <1>2, <1>3, <1>4 DEF Nonces
<1>6. Len(t) <= Len(store)
  BY <1>2, <1>3
<1>7. Evict(store, clock) = t
  BY <1>1 DEF t
<1> QED  BY <1>2, <1>5, <1>6, <1>7

\* What a full store drops was in it, with as many others as it has room for.
LEMMA DroppedWasStored ==
  ASSUME StoreInv, NEW e \in Ids, NEW clock \in Int
  PROVE  /\ DroppedBy(e, clock) \subseteq Nonces(store)
         /\ DroppedBy(e, clock) # {} =>
               IsFresh(store, e, clock) /\ Len(store) >= Capacity
<1> DEFINE t == Evict(store, clock)
<1>1. store \in Seq(Entry)
  BY DEF StoreInv, TypeOK, Entry
<1>2. t \in Seq(Entry) /\ Len(t) <= Len(store) /\ Nonces(t) \subseteq Nonces(store)
  BY <1>1, EvictedWasStored
<1>3. DOMAIN t = 1 .. Len(t) /\ Len(t) \in Nat /\ Len(store) \in Nat
  BY <1>1, <1>2, LenProperties
<1>4. Overflows(t) => 1 \in DOMAIN t /\ Len(store) >= Capacity
  BY <1>2, <1>3, Constants DEF Overflows
<1>5. Overflows(t) => t[1].nonce \in Nonces(store)
  BY <1>2, <1>4 DEF Nonces
<1> QED  BY <1>4, <1>5 DEF DroppedBy

\* Whatever is in the store, was dropped or was accepted was seen, and was
\* sent before.
LEMMA SeenInvariance == Spec => []SeenInv
<1>1. Init => SeenInv
  BY DEF Init, SeenInv, Nonces
<1>2. StoreInv /\ SeenInv /\ [Next]_vars => SeenInv'
  <2> SUFFICES ASSUME StoreInv, SeenInv, [Next]_vars PROVE SeenInv'
    OBVIOUS
  <2>1. ASSUME UNCHANGED <<store, sent, seen, accepted, dropped>> PROVE SeenInv'
    BY <2>1 DEF SeenInv, Nonces
  <2>2. ASSUME NEW a \in Agents, NEW c \in Keys, NEW skew \in -Skew .. Skew,
               Sign(a, c, skew)
        PROVE  SeenInv'
    <3>1. DOMAIN sent \subseteq DOMAIN sent'
      BY <2>2, SentGrows DEF StoreInv
    <3> QED  BY <2>2, <3>1 DEF Sign, history, SeenInv, Nonces
  <2>3. ASSUME NEW e \in DOMAIN sent, NEW clock \in now .. now + Slip,
               Register(e, clock),
               \/ accepted' = accepted
               \/ accepted' = [accepted EXCEPT ![e] = IF @ < 2 THEN @ + 1 ELSE @]
        PROVE  SeenInv'
    <3>1. /\ e \in Ids /\ clock \in Int /\ accepted \in [Ids -> 0 .. 2]
          /\ DOMAIN store = 1 .. Len(store) /\ Len(store) \in Nat
      <4>1. e \in Ids
        BY SentEntry DEF StoreInv
      <4>2. clock \in Int
        BY Constants DEF StoreInv, TypeOK, Times
      <4>3. store \in Seq(Entry) /\ accepted \in [Ids -> 0 .. 2]
        BY DEF StoreInv, TypeOK, Entry
      <4> QED  BY <4>1, <4>2, <4>3, LenProperties
    <3>2. PICK k \in 0 .. Len(store) : Moved(e, clock, k)
      BY <2>3, <3>1, StoreMoves
    <3>3. Nonces(store') \subseteq Nonces(store) \cup {e}
      <4> SUFFICES ASSUME NEW i \in DOMAIN store'
                   PROVE  store'[i].nonce \in Nonces(store) \cup {e}
        BY DEF Nonces
      <4>1. CASE i \in 1 .. Len(store) - k
        <5>1. k + i \in DOMAIN store
          BY <3>1, <4>1
        <5>2. store'[i] = store[k + i]
          BY <3>2, <4>1 DEF Moved
        <5> QED  BY <5>1, <5>2 DEF Nonces
      <4>2. CASE i \notin 1 .. Len(store) - k
        <5>1. /\ i \in 1 .. Len(store')
              /\ IsFresh(store, e, clock) \/ Len(store') = Len(store) - k
              /\ IsFresh(store, e, clock) => Len(store') = Len(store) - k + 1
          BY <3>2 DEF Moved
        <5>2. IsFresh(store, e, clock)
          BY <4>2, <5>1
        <5>3. i = Len(store) - k + 1
          <6>1. i \in 1 .. Len(store) - k + 1
            BY <5>1, <5>2
          <6> QED  BY <3>1, <4>2, <6>1
        <5> QED  BY <3>2, <5>2, <5>3 DEF Moved
      <4> QED  BY <4>1, <4>2
    <3>4. DroppedBy(e, clock) \subseteq Nonces(store)
      BY <3>1, DroppedWasStored
    <3>5. seen' = seen \cup {e} /\ sent' = sent
          /\ dropped' = dropped \cup DroppedBy(e, clock)
      BY <2>3 DEF Register
    <3>6. \A x \in Ids : accepted'[x] > 0 => x = e \/ accepted[x] > 0
      BY <2>3, <3>1
    <3> QED  BY <3>3, <3>4, <3>5, <3>6 DEF SeenInv
  <2>4. ASSUME NEW e \in DOMAIN sent, NEW clock \in LaterReadings,
               NEW damaged \in BOOLEAN, VerifyEnvelope(e, clock, damaged)
        PROVE  SeenInv'
    BY <2>1, <2>3, <2>4, VerifyOutcomes DEF vars, history
  <2> QED
    BY <2>1, <2>2, <2>4 DEF Next, AddKey, TimePasses, vars, history
<1> QED  BY <1>1, <1>2, StoreInvariance, PTL DEF Spec

-----------------------------------------------------------------------------
(* Nonces that live long enough *)

\* A recent envelope whose nonce is found fresh is nowhere in the store: an
\* entry of a recent envelope has not expired.
LEMMA FreshIsNew ==
  ASSUME LongEnough, StoreInv, NEW e \in DOMAIN sent,
         NEW clock \in now .. now + Slip, IsRecent(e),
         IsFresh(store, e, clock)
  PROVE  e \notin Nonces(store)
<1>1. now \in Int /\ clock \in Int /\ clock <= now + Slip
  BY Constants DEF StoreInv, TypeOK, Times
<1>2. PICK k \in 0 .. Len(store) : Remains(e, clock, k)
  <2>1. store \in Seq(Entry) /\ e \in Ids
    BY SentEntry DEF StoreInv, TypeOK, Entry
  <2> QED  BY <1>1, <2>1, StoreAfter
<1>3. \A i \in DOMAIN store : store[i].nonce = e => sent[e].ts < clock - Ttl
  BY <1>2 DEF Remains, StoreInv, StoredAsSent
<1>4. sent[e].ts \in Int /\ now - sent[e].ts \in -MaxDrift .. MaxDrift
  BY SentEntry DEF StoreInv, IsRecent
<1>5. ~(sent[e].ts < clock - Ttl)
  BY <1>1, <1>4, Constants DEF LongEnough
<1> QED  BY <1>3, <1>5 DEF Nonces

\* What is found fresh was never seen, or a full store dropped it.
LEMMA FreshIsUnseen ==
  ASSUME LongEnough, StoreInv, Remembered, NEW e \in DOMAIN sent,
         NEW clock \in now .. now + Slip, IsRecent(e),
         IsFresh(store, e, clock)
  PROVE  e \notin seen \/ e \in dropped
<1>1. e \notin Nonces(store)
  BY FreshIsNew
<1>2. ~(now - sent[e].ts > MaxDrift)
  <2>1. now - sent[e].ts \in -MaxDrift .. MaxDrift
    BY DEF IsRecent
  <2>2. now \in Int /\ MaxDrift \in Int
    BY Readings, Constants DEF StoreInv
  <2>3. sent[e].ts \in Int
    BY SentEntry DEF StoreInv
  <2> QED  BY <2>1, <2>2, <2>3
<1> QED  BY <1>1, <1>2 DEF Remembered

\* What is found stale was seen.
LEMMA StaleIsSeen ==
  ASSUME StoreInv, SeenInv, NEW e \in Ids, NEW clock \in Int,
         ~IsFresh(store, e, clock)
  PROVE  e \in seen
<1>1. store \in Seq(Entry)
  BY DEF StoreInv, TypeOK, Entry
<1>2. Nonces(Evict(store, clock)) \subseteq Nonces(store)
  BY <1>1, EvictedWasStored
<1> QED  BY <1>2 DEF IsFresh, SeenInv

\* A verification forgets no nonce of a fresh envelope but by dropping it.
LEMMA MemoryStep ==
  ASSUME LongEnough, IndInv, NEW e \in DOMAIN sent,
         NEW clock \in now .. now + Slip, Register(e, clock),
         \/ accepted' = accepted
         \/ /\ IsFresh(store, e, clock)
            /\ accepted' = [accepted EXCEPT ![e] = IF @ < 2 THEN @ + 1 ELSE @]
  PROVE  Remembered' /\ AcceptedOnce'
<1>1. /\ now \in Int /\ clock \in Int /\ now <= clock /\ now' = clock
      /\ sent' = sent /\ dropped' = dropped \cup DroppedBy(e, clock)
      /\ StoreInv /\ accepted \in [Ids -> 0 .. 2]
  BY Constants DEF IndInv, StoreInv, TypeOK, Times, Register
<1>2. PICK k \in 0 .. Len(store) : Remains(e, clock, k) /\ Moved(e, clock, k)
  BY <1>1, StoreMoves
<1>3. DOMAIN store = 1 .. Len(store) /\ Len(store) \in Nat /\ e \in Ids
  BY <1>1, LenProperties, SentEntry DEF StoreInv, TypeOK
<1>4. \A x \in DOMAIN sent : sent[x].ts \in Int
  BY <1>1, SentEntry DEF StoreInv
<1>5. ASSUME NEW x \in seen
      PROVE  x \in dropped' \/ x \in Nonces(store') \/ clock - sent[x].ts > MaxDrift
  <2>1. /\ x \in DOMAIN sent
        /\ x \in dropped \/ x \in Nonces(store) \/ now - sent[x].ts > MaxDrift
    BY DEF IndInv, SeenInv, Remembered
  <2>2. CASE x \in dropped
    BY <1>1, <2>1, <2>2
  <2>3. CASE now - sent[x].ts > MaxDrift
    BY <1>1, <1>4, <2>1, <2>3, Constants
  <2>4. CASE x \in Nonces(store)
    <3>1. PICK i \in 1 .. Len(store) : store[i].nonce = x
      BY <1>3, <2>4 DEF Nonces
    <3>2. store[i].ts = sent[x].ts
      BY <1>1, <1>3, <3>1 DEF StoreInv, StoredAsSent
    <3>3. CASE i \in 1 .. k
      <4>1. sent[x].ts < clock - Ttl \/ x \in DroppedBy(e, clock)
        BY <1>2, <3>1, <3>2, <3>3 DEF Remains
      <4>2. sent[x].ts < clock - Ttl => clock - sent[x].ts > MaxDrift
        <5> DEFINE ts == sent[x].ts
        <5>1. ts \in Int
          BY <1>4, <2>1
        <5>2. clock \in Int /\ Ttl \in Int /\ MaxDrift \in Int /\ Ttl >= MaxDrift
          BY <1>1, Constants DEF LongEnough
        <5> HIDE DEF ts
        <5>3. ts < clock - Ttl => clock - ts > MaxDrift
          BY <5>1, <5>2
        <5> QED  BY <5>3 DEF ts
      <4> QED  BY <1>1, <2>1, <4>1, <4>2
    <3>4. CASE i \notin 1 .. k
      <4>1. i - k \in 1 .. Len(store) - k /\ k + (i - k) = i
        BY <1>2, <1>3, <3>1, <3>4
      <4>2. /\ store'[i - k] = store[k + (i - k)]
            /\ DOMAIN store' = 1 .. Len(store')
            /\ Len(store') = Len(store) - k \/ Len(store') = Len(store) - k + 1
        BY <1>2, <4>1 DEF Moved
      <4>3. i - k \in 1 .. Len(store')
        <5> DEFINE n == Len(store)
                   m == Len(store')
        <5>1. n \in Nat /\ k \in Nat /\ i - k \in 1 .. n - k
          BY <1>3, <4>1
        <5>2. m = n - k \/ m = n - k + 1
          BY <4>2
        <5> HIDE DEF n, m
        <5>3. i - k \in 1 .. m
          BY <5>1, <5>2
        <5> QED  BY <5>3 DEF m
      <4>4. store'[i - k] = store[i] /\ i - k \in DOMAIN store'
        BY <4>1, <4>2, <4>3
      <4> QED  BY <2>1, <3>1, <4>4 DEF Nonces
    <3> QED  BY <3>3, <3>4
  <2> QED  BY <2>1, <2>2, <2>3, <2>4
<1>6. IsFresh(store, e, clock) => e \in Nonces(store')
  <2>1. IsFresh(store, e, clock) =>
           /\ Len(store) - k + 1 \in DOMAIN store'
           /\ store'[Len(store) - k + 1].nonce = e
    BY <1>2, <1>3 DEF Moved
  <2> QED  BY <2>1 DEF Nonces
<1>7. e \in seen \/ e \in Nonces(store')
  <2>1. ~IsFresh(store, e, clock) => e \in seen
    BY <1>1, <1>3, StaleIsSeen DEF IndInv
  <2> QED  BY <1>6, <2>1
<1>8. Remembered'
  <2>1. seen' = seen \cup {e}
    BY DEF Register
  <2>2. \A x \in seen' :
           x \in dropped' \/ x \in Nonces(store') \/ clock - sent[x].ts > MaxDrift
    BY <1>5, <1>7, <2>1
  <2> QED  BY <1>1, <2>2 DEF Remembered
<1>9. AcceptedOnce'
  <2>1. CASE accepted' = accepted
    BY <1>1, <2>1 DEF IndInv, AcceptedOnce
  <2>2. CASE /\ IsFresh(store, e, clock)
             /\ accepted' = [accepted EXCEPT ![e] = IF @ < 2 THEN @ + 1 ELSE @]
    <3>1. \A x \in Ids \ {e} : accepted'[x] = accepted[x]
      BY <1>1, <2>2
    <3>2. accepted[e] > 0 => e \in dropped
      <4>1. accepted[e] > 0 => e \in seen
        BY <1>3 DEF IndInv, SeenInv
      <4>2. IsRecent(e)
        BY DEF Register
      <4> QED  BY <2>2, <4>1, <4>2, FreshIsUnseen DEF IndInv
    <3>3. accepted'[e] > 1 => accepted[e] > 0
      BY <1>1, <1>3, <2>2
    <3> QED  BY <1>1, <3>1, <3>2, <3>3 DEF IndInv, AcceptedOnce
  <2> QED  BY <2>1, <2>2
<1> QED  BY <1>8, <1>9

\* When nonces live long enough, a nonce that was seen is remembered for as
\* long as its envelope could be accepted.
THEOREM Invariance ==
  ASSUME LongEnough
  PROVE  Spec => []IndInv
<1>1. Init => Remembered /\ AcceptedOnce
  BY DEF Init, Remembered, AcceptedOnce
<1>2. StoreInv /\ SeenInv /\ Remembered /\ AcceptedOnce /\ [Next]_vars
         => Remembered' /\ AcceptedOnce'
  <2> SUFFICES ASSUME StoreInv, SeenInv, Remembered, AcceptedOnce, [Next]_vars
               PROVE  Remembered' /\ AcceptedOnce'
    OBVIOUS
  <2> USE DEF history
  <2>1. ASSUME NEW a \in Agents, NEW c \in Keys, AddKey(a, c)
        PROVE  Remembered' /\ AcceptedOnce'
    BY <2>1 DEF AddKey, Remembered, AcceptedOnce, Nonces
  <2>2. ASSUME NEW a \in Agents, NEW c \in Keys, NEW skew \in -Skew .. Skew,
               Sign(a, c, skew)
        PROVE  Remembered' /\ AcceptedOnce'
    <3>1. \A i \in DOMAIN sent : sent'[i] = sent[i]
      BY <2>2, SentGrows DEF StoreInv
    <3>2. \A i \in seen : sent'[i] = sent[i]
      BY <3>1 DEF SeenInv
    <3> QED  BY <2>2, <3>2 DEF Sign, Remembered, AcceptedOnce, Nonces
  <2>3. ASSUME NEW e \in DOMAIN sent, NEW clock \in LaterReadings,
               NEW damaged \in BOOLEAN, VerifyEnvelope(e, clock, damaged)
        PROVE  Remembered' /\ AcceptedOnce'
    <3>1. CASE UNCHANGED vars
      BY <3>1 DEF vars, Remembered, AcceptedOnce, Nonces
    <3>2. CASE ~UNCHANGED vars
      BY <2>3, <3>2, VerifyOutcomes, MemoryStep DEF IndInv
    <3> QED  BY <3>1, <3>2
  <2>4. CASE TimePasses
    <3>1. \A x \in DOMAIN sent : sent[x].ts \in Int
      BY SentEntry DEF StoreInv
    <3>2. now \in Int /\ now' = now + 1
      BY <2>4 DEF TimePasses, StoreInv, TypeOK, Times
    <3>3. \A x \in DOMAIN sent : now - sent[x].ts > MaxDrift => now' - sent[x].ts > MaxDrift
      BY <3>1, <3>2, Constants
    <3>4. \A x \in seen : now - sent[x].ts > MaxDrift => now' - sent[x].ts > MaxDrift
      BY <3>3 DEF SeenInv
    <3> QED  BY <2>4, <3>4 DEF TimePasses, Remembered, AcceptedOnce, Nonces
  <2>5. CASE UNCHANGED vars
    BY <2>5 DEF vars, Remembered, AcceptedOnce, Nonces
  <2> QED  BY <2>1, <2>2, <2>3, <2>4, <2>5 DEF Next
<1> QED  BY <1>1, <1>2, StoreInvariance, SeenInvariance, PTL DEF Spec, IndInv

\* No envelope is accepted twice, however late and often it comes again,
\* unless a full store dropped its nonce.
THEOREM AcceptedOnlyOnce ==
  ASSUME LongEnough
  PROVE  Spec => []AcceptedOnce
<1>1. IndInv => AcceptedOnce
  BY DEF IndInv
<1> QED  BY <1>1, Invariance, PTL

\* With a bounded store the receiver tells envelopes as one with a perfect
\* memory would, but for those that a full store dropped.
THEOREM MemoryPerfect ==
  ASSUME LongEnough
  PROVE  Spec => []MemoryIsPerfect
<1>1. IndInv => MemoryIsPerfect
  <2> SUFFICES ASSUME IndInv, NEW e \in DOMAIN sent \ dropped, IsRecent(e),
                      NEW clock \in LaterReadings
               PROVE  IsFresh(store, e, clock) <=> e \notin seen
    BY DEF MemoryIsPerfect
  <2>1. clock \in now .. now + Slip /\ clock \in Int /\ e \in Ids
    <3>1. clock \in now .. now + Slip
      BY DEF LaterReadings
    <3> QED  BY <3>1, Readings, SentEntry DEF IndInv, StoreInv
  <2>2. IsFresh(store, e, clock) => e \notin seen
    BY <2>1, FreshIsUnseen DEF IndInv
  <2>3. ~IsFresh(store, e, clock) => e \in seen
    BY <2>1, StaleIsSeen DEF IndInv
  <2> QED  BY <2>2, <2>3
<1> QED  BY <1>1, Invariance, PTL

\* The channel implements the guard that remembers everything it was shown
\* and forgets only when it was shown as much as it has room for.
THEOREM GuardImplemented ==
  ASSUME LongEnough
  PROVE  Spec => ImplementsReplayGuard
<1>1. Init => Guard!Init
  BY DEF Init, Guard!Init
<1>2. ASSUME IndInv, NEW e \in DOMAIN sent, NEW clock \in now .. now + Slip,
             Register(e, clock),
             \/ accepted' = accepted
             \/ /\ IsFresh(store, e, clock)
                /\ accepted' = [accepted EXCEPT ![e] = IF @ < 2 THEN @ + 1 ELSE @]
      PROVE  Guard!Next \/ UNCHANGED history
  <2>1. /\ e \in Ids /\ clock \in Int /\ StoreInv /\ SeenInv /\ Remembered
        /\ IsRecent(e)
        /\ seen' = seen \cup {e} /\ dropped' = dropped \cup DroppedBy(e, clock)
    BY <1>2, Readings, SentEntry DEF Register, IndInv, StoreInv
  <2>2. /\ DroppedBy(e, clock) \subseteq Nonces(store)
        /\ DroppedBy(e, clock) # {} =>
              IsFresh(store, e, clock) /\ Len(store) >= Capacity
    BY <2>1, DroppedWasStored
  <2>3. CASE ~IsFresh(store, e, clock)
    <3>1. e \in seen
      BY <2>1, <2>3, StaleIsSeen
    <3> QED  BY <1>2, <2>1, <2>2, <2>3, <3>1 DEF history
  <2>4. CASE IsFresh(store, e, clock)
    <3>1. e \notin seen \/ e \in dropped
      BY <1>2, <2>1, <2>4, FreshIsUnseen
    <3>2. accepted' \in {accepted, [accepted EXCEPT ![e] = Guard!More(@)]}
      BY <1>2 DEF Guard!More
    <3>3. DroppedBy(e, clock) # {} => Cardinality(seen) >= Capacity
      <4> SUFFICES ASSUME DroppedBy(e, clock) # {}
                   PROVE  Cardinality(seen) >= Capacity
        OBVIOUS
      <4>1. Cardinality(Nonces(store)) = Len(store) /\ Len(store) \in Nat
        BY <2>1, StoreHoldsEachOnce, LenProperties DEF StoreIsBounded, StoreInv, TypeOK
      <4>2. IsFiniteSet(seen)
        <5>1. IsFiniteSet(Ids)
          BY Constants, FS_Interval DEF Ids
        <5> QED  BY <2>1, <5>1, FS_Subset DEF StoreInv, TypeOK
      <4>3. Nonces(store) \subseteq seen
        BY <2>1 DEF SeenInv
      <4>4. /\ Cardinality(Nonces(store)) <= Cardinality(seen)
            /\ Cardinality(seen) \in Nat
        BY <4>2, <4>3, FS_Subset, FS_CardinalityType
      <4> QED  BY <2>2, <4>1, <4>4, Constants
    <3>4. \/ dropped' = dropped
          \/ /\ Cardinality(seen) >= Capacity
             /\ dropped \subseteq dropped' /\ dropped' \subseteq seen
      BY <2>1, <2>2, <3>3 DEF SeenInv
    <3>5. Cardinality(seen) = Guard!Cardinality(seen)
      BY Zenon DEF Cardinality, Guard!Cardinality
    <3>6. Guard!Show(e)
      BY <2>1, <3>1, <3>2, <3>4, <3>5 DEF Guard!Show
    <3> QED  BY <2>1, <3>6 DEF Guard!Next
  <2> QED  BY <2>3, <2>4
<1>3. IndInv /\ [Next]_vars => [Guard!Next]_(Guard!guardVars)
  <2> SUFFICES ASSUME IndInv, [Next]_vars PROVE Guard!Next \/ UNCHANGED history
    BY DEF history, Guard!guardVars
  <2>1. ASSUME NEW e \in DOMAIN sent, NEW clock \in LaterReadings,
               NEW damaged \in BOOLEAN, VerifyEnvelope(e, clock, damaged)
        PROVE  Guard!Next \/ UNCHANGED history
    <3>1. CASE UNCHANGED vars
      BY <3>1 DEF vars
    <3>2. CASE ~UNCHANGED vars
      BY <1>2, <2>1, <3>2, VerifyOutcomes DEF IndInv
    <3> QED  BY <3>1, <3>2
  <2> QED  BY <2>1 DEF Next, AddKey, Sign, TimePasses, vars
<1> QED
  BY <1>1, <1>3, Invariance, PTL DEF Spec, ImplementsReplayGuard, Guard!Spec

\* Only the head of the store is ever examined, and yet no entry outstays its
\* lifetime and twice the allowed drift.  The two clock readings must not lie
\* further apart than that: the program's defaults will do.
THEOREM RetentionBounded ==
  ASSUME Slip <= Ttl + MaxDrift
  PROVE  Spec => RetentionIsBounded
<1> DEFINE Bounded == \A i \in DOMAIN store' : now' - store'[i].ts <= Ttl + 2 * MaxDrift
<1>1. ASSUME StoreInv, NEW e \in DOMAIN sent, NEW clock \in now .. now + Slip,
             Register(e, clock)
      PROVE  Bounded
  <2>1. /\ now \in Int /\ clock \in Int /\ clock <= now + Slip /\ now' = clock
        /\ store \in Seq(Entry) /\ DOMAIN store = 1 .. Len(store)
        /\ Len(store) \in Nat
    BY <1>1, Constants, LenProperties DEF StoreInv, TypeOK, Times, Register, Entry
  <2>2. \A i \in 1 .. Len(store) : store[i].ts \in Int
    <3>1. \A i \in 1 .. Len(store) : store[i] \in Entry
      BY <2>1, ElementOfSeq
    <3> QED  BY <3>1, Constants DEF Entry
  <2>3. PICK k \in 0 .. Len(store) : Remains(e, clock, k) /\ Moved(e, clock, k)
    BY <1>1, <2>1, StoreMoves
  <2>4. \A i \in k + 1 .. Len(store) : clock - store[i].ts <= Ttl + 2 * MaxDrift
    <3> SUFFICES ASSUME NEW i \in k + 1 .. Len(store)
                 PROVE  clock - store[i].ts <= Ttl + 2 * MaxDrift
      OBVIOUS
    <3>1. k < Len(store)
      BY <2>1
    <3>2. PICK h \in 1 .. k + 1 : store[h].ts >= clock - Ttl
      BY <2>3, <3>1 DEF Remains
    <3>3. h \in 1 .. Len(store) /\ i \in h .. Len(store) /\ i \in 1 .. Len(store)
      BY <2>1, <3>1
    <3>4. store[i].ts >= store[h].ts - 2 * MaxDrift
      BY <1>1, <2>1, <3>3 DEF StoreInv, StoreInOrder
    <3> QED  BY <2>1, <2>2, <3>2, <3>3, <3>4, Constants
  <2>5. clock - sent[e].ts <= Ttl + 2 * MaxDrift
    <3>1. sent[e].ts \in Int /\ now - sent[e].ts \in -MaxDrift .. MaxDrift
      BY <1>1, SentEntry DEF StoreInv, Register, IsRecent
    <3>2. now - sent[e].ts <= MaxDrift
      BY <2>1, <3>1, Constants
    <3> DEFINE ts == sent[e].ts
    <3>3. ts \in Int /\ now - ts <= MaxDrift
      BY <3>1, <3>2
    <3> HIDE DEF ts
    <3>4. clock - ts <= Ttl + 2 * MaxDrift
      BY <2>1, <3>3, Constants
    <3> QED  BY <3>4 DEF ts
  <2>6. ASSUME NEW i \in DOMAIN store'
        PROVE  \/ \E j \in k + 1 .. Len(store) : store'[i] = store[j]
               \/ store'[i].ts = sent[e].ts
    <3>1. CASE i \in 1 .. Len(store) - k
      <4>1. k + i \in k + 1 .. Len(store)
        BY <2>1, <3>1
      <4>2. store'[i] = store[k + i]
        BY <2>3, <3>1 DEF Moved
      <4> QED  BY <4>1, <4>2
    <3>2. CASE i \notin 1 .. Len(store) - k
      <4>1. /\ i \in 1 .. Len(store')
            /\ Len(store') = IF IsFresh(store, e, clock)
                             THEN Len(store) - k + 1 ELSE Len(store) - k
        BY <2>3, <2>6 DEF Moved
      <4>2. IsFresh(store, e, clock)
        BY <3>2, <4>1
      <4>3. i = Len(store) - k + 1
        BY <2>1, <3>2, <4>1, <4>2
      <4> QED  BY <2>3, <4>2, <4>3 DEF Moved
    <3> QED  BY <3>1, <3>2
  <2> QED  BY <2>1, <2>4, <2>5, <2>6
<1>2. StoreInv /\ [Next]_vars => [store' # store => Bounded]_vars
  <2> SUFFICES ASSUME StoreInv, [Next]_vars, store' # store PROVE Bounded
    OBVIOUS
  <2>1. PICK e \in DOMAIN sent, clock \in LaterReadings, damaged \in BOOLEAN :
           VerifyEnvelope(e, clock, damaged)
    BY DEF Next, AddKey, Sign, TimePasses, vars
  <2>2. ~UNCHANGED vars
    BY DEF vars
  <2> HIDE DEF Bounded
  <2> QED  BY <1>1, <2>1, <2>2, VerifyOutcomes
<1> QED  BY <1>2, StoreInvariance, PTL DEF Spec, RetentionIsBounded
=============================================================================
