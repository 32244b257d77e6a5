----------------------------- MODULE SinkProofs -----------------------------
(* Proofs about TelemetrySink, for any size of the batches, any number of  *)
(* events and any kinds of them.                                           *)
EXTENDS TelemetrySink, SequenceTheorems, FiniteSetTheorems, TLAPS

-----------------------------------------------------------------------------
(* Sequences *)

LEMMA ConcatSets ==
  ASSUME NEW S, NEW s \in Seq(S), NEW t \in Seq(S)
  PROVE  /\ s \o t \in Seq(S)
         /\ ToSet(s \o t) = ToSet(s) \cup ToSet(t)
         /\ IsInjective(s \o t) <=>
               /\ IsInjective(s) /\ IsInjective(t)
               /\ ToSet(s) \cap ToSet(t) = {}
<1> DEFINE u == s \o t
<1>1. /\ Len(s) \in Nat /\ DOMAIN s = 1 .. Len(s)
      /\ Len(t) \in Nat /\ DOMAIN t = 1 .. Len(t)
  BY LenProperties
<1>2. u \in Seq(S) /\ DOMAIN u = 1 .. Len(s) + Len(t)
  BY ConcatProperties, LenProperties
<1>3. \A i \in 1 .. Len(s) : i \in DOMAIN u /\ u[i] = s[i]
  BY <1>1, <1>2, ConcatProperties
<1>4. \A i \in 1 .. Len(t) : Len(s) + i \in DOMAIN u /\ u[Len(s) + i] = t[i]
  <2>1. \A i \in 1 .. Len(t) : /\ Len(s) + i \in 1 .. Len(s) + Len(t)
                               /\ ~(Len(s) + i <= Len(s)) /\ Len(s) + i - Len(s) = i
    BY <1>1
  <2> QED  BY <1>2, <2>1, ConcatProperties
<1> HIDE DEF u
<1>5. \A i \in DOMAIN u : i \in 1 .. Len(s) \/ \E j \in 1 .. Len(t) : i = Len(s) + j
  <2>1. \A i \in 1 .. Len(s) + Len(t) :
           \/ i \in 1 .. Len(s)
           \/ i - Len(s) \in 1 .. Len(t) /\ i = Len(s) + (i - Len(s))
    BY <1>1
  <2> QED  BY <1>2, <2>1
<1>6. ToSet(u) = ToSet(s) \cup ToSet(t)
  BY SMTT(30), <1>1, <1>3, <1>4, <1>5 DEF ToSet
<1>7. ASSUME IsInjective(u)
      PROVE  IsInjective(s) /\ IsInjective(t) /\ ToSet(s) \cap ToSet(t) = {}
  <2>1. IsInjective(s)
    BY <1>1, <1>3, <1>7 DEF IsInjective
  <2>2. IsInjective(t)
    <3>1. ASSUME NEW i \in 1 .. Len(t), NEW j \in 1 .. Len(t), t[i] = t[j] PROVE i = j
      <4>1. Len(s) + i = Len(s) + j
        BY <1>4, <1>7, <3>1 DEF IsInjective
      <4> QED  BY <1>1, <4>1
    <3> QED  BY <1>1, <3>1 DEF IsInjective
  <2>3. ASSUME NEW i \in 1 .. Len(s), NEW j \in 1 .. Len(t), s[i] = t[j] PROVE FALSE
    <3>1. i = Len(s) + j
      BY <1>3, <1>4, <1>7, <2>3 DEF IsInjective
    <3> QED  BY <1>1, <3>1
  <2> QED  BY <1>1, <2>1, <2>2, <2>3 DEF ToSet
<1>8. ASSUME IsInjective(s), IsInjective(t), ToSet(s) \cap ToSet(t) = {}
      PROVE  IsInjective(u)
  <2>1. \A i \in 1 .. Len(s), j \in 1 .. Len(t) : s[i] # t[j]
    BY <1>1, <1>8 DEF ToSet
  <2>2. \A i, j \in 1 .. Len(s) : s[i] = s[j] => i = j
    BY <1>1, <1>8 DEF IsInjective
  <2>3. \A i, j \in 1 .. Len(t) : t[i] = t[j] => i = j
    BY <1>1, <1>8 DEF IsInjective
  <2>4. \A a, b \in DOMAIN u : u[a] = u[b] => a = b
    BY <1>3, <1>4, <1>5, <2>1, <2>2, <2>3
  <2> QED  BY <2>4 DEF IsInjective
<1> QED  BY <1>2, <1>6, <1>7, <1>8 DEF u

LEMMA EmptyFacts ==
  /\ ToSet(<<>>) = {} /\ DOMAIN <<>> = {} /\ IsInjective(<<>>) /\ InOrder(<<>>)
  /\ Len(<<>>) = 0 /\ \A S : <<>> \in Seq(S)
<1>1. Len(<<>>) = 0 /\ \A S : <<>> \in Seq(S)
  BY EmptySeq
<1>2. DOMAIN <<>> = {}
  OBVIOUS
<1> QED  BY <1>1, <1>2 DEF ToSet, IsInjective, InOrder

\* Appending a value that is not there.
LEMMA AppendSets ==
  ASSUME NEW S, NEW s \in Seq(S), NEW x \in S
  PROVE  /\ Append(s, x) \in Seq(S)
         /\ ToSet(Append(s, x)) = ToSet(s) \cup {x}
         /\ IsInjective(s) /\ x \notin ToSet(s) => IsInjective(Append(s, x))
<1> DEFINE u == Append(s, x)
<1>1. Len(s) \in Nat /\ DOMAIN s = 1 .. Len(s)
  BY LenProperties
<1>2. /\ u \in Seq(S) /\ DOMAIN u = 1 .. Len(s) + 1
      /\ \A i \in 1 .. Len(s) : u[i] = s[i]
      /\ u[Len(s) + 1] = x
  BY AppendProperties, LenProperties
<1> HIDE DEF u
<1>3. \A i \in DOMAIN u : i \in 1 .. Len(s) \/ i = Len(s) + 1
  BY <1>1, <1>2
<1>4. Len(s) + 1 \in DOMAIN u /\ \A i \in 1 .. Len(s) : i \in DOMAIN u
  BY <1>1, <1>2
<1>5. ToSet(u) = ToSet(s) \cup {x}
  BY <1>1, <1>2, <1>3, <1>4 DEF ToSet
<1>6. IsInjective(s) /\ x \notin ToSet(s) => IsInjective(u)
  BY <1>1, <1>2, <1>3 DEF ToSet, IsInjective
<1> QED  BY <1>2, <1>5, <1>6 DEF u

LEMMA OrderIsInjective ==
  ASSUME NEW s \in Seq(Int), InOrder(s)
  PROVE  IsInjective(s)
<1>1. DOMAIN s = 1 .. Len(s) /\ Len(s) \in Nat /\ \A i \in DOMAIN s : s[i] \in Int
  BY LenProperties, ElementOfSeq
<1> QED  BY <1>1 DEF InOrder, IsInjective
-----------------------------------------------------------------------------
(* The sink *)

LEMMA Constants ==
  /\ BatchSize \in Nat \ {0} /\ MaxEvents \in Nat
  /\ Events = 1 .. MaxEvents /\ Writers = {"worker", "closer"}
BY SinkAssumption DEF Events, Writers

\* What a task takes off the queue, and what it leaves there.
LEMMA TakeOff ==
  ASSUME TypeOK, QueueIsTail, NEW k \in 0 .. Len(queue)
  PROVE  LET items == SubSeq(queue, 1, k)
             left == SubSeq(queue, k + 1, Len(queue))
         IN  /\ items \in Seq(Events) /\ Len(items) = k
             /\ \A i \in 1 .. k : items[i] = Taken + i
             /\ ToSet(items) = Taken + 1 .. Taken + k
             /\ InOrder(items) /\ IsInjective(items)
             /\ left \in Seq(Events) /\ Len(left) = Len(queue) - k
             /\ \A i \in DOMAIN left : left[i] = Taken + k + i
             /\ ToSet(left) = Taken + k + 1 .. enqueued
<1> DEFINE items == SubSeq(queue, 1, k)
           left == SubSeq(queue, k + 1, Len(queue))
<1>1. queue \in Seq(Events) /\ enqueued \in Nat /\ Events \in SUBSET Int
  BY Constants DEF TypeOK
<1>2. /\ Len(queue) \in Nat /\ DOMAIN queue = 1 .. Len(queue) /\ k \in Nat
      /\ Taken \in Nat /\ Taken + Len(queue) = enqueued
      /\ \A i \in 1 .. Len(queue) : queue[i] = Taken + i /\ queue[i] \in Events
  BY <1>1, LenProperties, ElementOfSeq DEF QueueIsTail, Taken
<1>3. /\ items \in Seq(Events) /\ Len(items) = k
      /\ \A i \in 1 .. k : items[i] = queue[i]
  <2>1. \A i \in 1 .. k : queue[i] \in Events
    BY <1>2
  <2>2. /\ items \in Seq(Events) /\ Len(items) = IF 1 <= k THEN k - 1 + 1 ELSE 0
        /\ \A i \in 1 .. k - 1 + 1 : items[i] = queue[1 + i - 1]
    BY <1>2, <2>1, SubSeqProperties
  <2> QED  BY <1>2, <2>2
<1>4. /\ left \in Seq(Events) /\ Len(left) = Len(queue) - k
      /\ \A i \in 1 .. Len(queue) - k : left[i] = queue[k + i]
  <2>1. \A i \in k + 1 .. Len(queue) : queue[i] \in Events
    BY <1>2
  <2>2. /\ left \in Seq(Events)
        /\ Len(left) = IF k + 1 <= Len(queue) THEN Len(queue) - (k + 1) + 1 ELSE 0
        /\ \A i \in 1 .. Len(queue) - (k + 1) + 1 : left[i] = queue[(k + 1) + i - 1]
    BY <1>2, <2>1, SubSeqProperties
  <2> HIDE DEF left
  <2>3. \A n \in Nat : k \in 0 .. n =>
           /\ n - (k + 1) + 1 = n - k
           /\ ~(k + 1 <= n) => n - k = 0
           /\ \A i \in 1 .. n - k : (k + 1) + i - 1 = k + i
    OBVIOUS
  <2>4. /\ Len(queue) - (k + 1) + 1 = Len(queue) - k
        /\ ~(k + 1 <= Len(queue)) => Len(queue) - k = 0
        /\ \A i \in 1 .. Len(queue) - k : (k + 1) + i - 1 = k + i
    BY <1>2, <2>3
  <2> QED  BY <2>2, <2>4
<1>5. DOMAIN items = 1 .. k /\ DOMAIN left = 1 .. Len(queue) - k
  BY <1>3, <1>4, LenProperties
<1> HIDE DEF items, left
<1> DEFINE q == Len(queue)
           T == Taken
<1> HIDE DEF q, T
<1>6. /\ q \in Nat /\ k \in 0 .. q /\ T \in Nat /\ q = Len(queue) /\ T = Taken
      /\ enqueued = T + q
  BY <1>2 DEF q, T
<1>7. \A i \in 1 .. k : items[i] = T + i
  BY <1>2, <1>3, <1>6
<1>8. \A i \in 1 .. q - k : left[i] = T + k + i
  BY <1>2, <1>4, <1>6
<1>9. ToSet(items) = T + 1 .. T + k
  <2>1. ToSet(items) = {items[i] : i \in 1 .. k}
    BY <1>5 DEF ToSet
  <2>2. \A x \in T + 1 .. T + k : x - T \in 1 .. k /\ x = T + (x - T)
    BY <1>6
  <2>3. \A i \in 1 .. k : T + i \in T + 1 .. T + k
    BY <1>6
  <2>4. \A x \in T + 1 .. T + k : \E i \in 1 .. k : x = T + i
    BY <2>2
  <2> QED  BY <1>7, <2>1, <2>3, <2>4
<1>10. ToSet(left) = T + k + 1 .. enqueued
  <2>1. ToSet(left) = {left[i] : i \in 1 .. q - k}
    BY <1>5, <1>6 DEF ToSet
  <2>2. \A x \in T + k + 1 .. enqueued : x - T - k \in 1 .. q - k /\ x = T + k + (x - T - k)
    BY <1>6
  <2>3. \A i \in 1 .. q - k : T + k + i \in T + k + 1 .. enqueued
    BY <1>6
  <2>4. \A x \in T + k + 1 .. enqueued : \E i \in 1 .. q - k : x = T + k + i
    BY <2>2
  <2> QED  BY <1>8, <2>1, <2>3, <2>4
<1>11. InOrder(items) /\ IsInjective(items)
  <2>1. \A i, j \in 1 .. k : i < j => T + i < T + j
    BY <1>6
  <2>2. \A i, j \in 1 .. k : T + i = T + j => i = j
    BY <1>6
  <2>3. InOrder(items)
    BY <1>5, <1>7, <2>1 DEF InOrder
  <2>4. IsInjective(items)
    BY <1>5, <1>7, <2>2 DEF IsInjective
  <2> QED  BY <2>3, <2>4
<1> QED  BY <1>3, <1>4, <1>5, <1>6, <1>7, <1>8, <1>9, <1>10, <1>11 DEF items, left

\* A turn of the loop takes some of the first events, aclose takes them all.
LEMMA FlushTakes ==
  ASSUME TypeOK
  PROVE  \E k \in 0 .. Len(queue) :
            /\ k <= BatchSize
            /\ Collected = SubSeq(queue, 1, k)
            /\ Left = SubSeq(queue, k + 1, Len(queue))
<1>1. Len(queue) \in Nat
  BY LenProperties DEF TypeOK
<1>2. Least(BatchSize, Len(queue)) \in 0 .. Len(queue) /\ Least(BatchSize, Len(queue)) <= BatchSize
  BY <1>1, Constants DEF Least
<1> QED  BY <1>2 DEF Collected, Left

LEMMA TakesAll ==
  ASSUME TypeOK
  PROVE  /\ Len(queue) \in Nat
         /\ SubSeq(queue, 1, Len(queue)) = queue
         /\ SubSeq(queue, Len(queue) + 1, Len(queue)) = <<>>
<1>1. queue \in Seq(Events) /\ Len(queue) \in Nat
  BY LenProperties DEF TypeOK
<1> QED  BY <1>1, SubSeqFull, SubSeqEmpty
LEMMA BatchFacts ==
  ASSUME TypeOK, NEW w \in Writers
  PROVE  /\ batch[w] \in Seq(Events) /\ Len(batch[w]) \in Nat
         /\ DOMAIN batch[w] = 1 .. Len(batch[w])
         /\ \A i \in 1 .. Len(batch[w]) : batch[w][i] \in Events
         /\ ToSet(batch[w]) = {batch[w][i] : i \in 1 .. Len(batch[w])}
         /\ ToSet(batch[w]) \in SUBSET Events
         /\ next[w] \in Nat \ {0}
         /\ Ahead(w) \in SUBSET ToSet(batch[w])
<1>1. batch[w] \in Seq(Events) /\ next[w] \in 1 .. MaxEvents + 1
  BY DEF TypeOK
<1>2. /\ Len(batch[w]) \in Nat /\ DOMAIN batch[w] = 1 .. Len(batch[w])
      /\ \A i \in 1 .. Len(batch[w]) : batch[w][i] \in Events
  BY <1>1, LenProperties, ElementOfSeq
<1>3. next[w] \in Nat \ {0}
  BY <1>1, Constants
<1>4. ToSet(batch[w]) = {batch[w][i] : i \in 1 .. Len(batch[w])}
  BY <1>2 DEF ToSet
<1>5. \A i \in next[w] .. Len(batch[w]) : i \in 1 .. Len(batch[w])
  BY <1>2, <1>3
<1> QED  BY <1>1, <1>2, <1>3, <1>4, <1>5 DEF Ahead

\* What a step may do with a batch: leave it, drop it, pass an item of it.
Kept(w) ==
    /\ batch'[w] = batch[w] /\ next'[w] = next[w]
    /\ pc'[w] = "writing" \/ pc[w] # "writing"
Cleared(w) == batch'[w] = <<>> /\ next'[w] = 1
Advanced(w) ==
    /\ Inserting(w)
    /\ batch'[w] = batch[w] /\ next'[w] = next[w] + 1
    /\ pc'[w] = pc[w]

\* Or take the first k events of the queue.
Takes(w, k) ==
    /\ k \in 0 .. Len(queue)
    /\ batch[w] = <<>> /\ next'[w] = next[w]
    /\ batch'[w] = SubSeq(queue, 1, k)
    /\ pc'[w] = "writing"
    /\ w = "worker" => k <= BatchSize

LEMMA AheadAfter ==
  ASSUME TypeOK, BatchesApart, NEW w \in Writers
  PROVE  /\ Kept(w) => Ahead(w)' = Ahead(w)
         /\ Cleared(w) => Ahead(w)' = {}
         /\ Advanced(w) =>
               /\ Ahead(w) = Ahead(w)' \cup {Current(w)}
               /\ Current(w) \notin Ahead(w)'
               /\ Current(w) \in ToSet(batch[w])
               /\ \A e \in Ahead(w)' : Current(w) < e
         /\ Inserting(w) =>
               /\ Current(w) \in Ahead(w) /\ Current(w) \in Events
               /\ \A e \in Ahead(w) : Current(w) <= e
<1>1. Kept(w) => Ahead(w)' = Ahead(w)
  BY DEF Kept, Ahead
<1>2. Cleared(w) => Ahead(w)' = {}
  <2>1. ASSUME Cleared(w) PROVE \A i \in 1 .. Len(batch'[w]) : FALSE
    BY <2>1, EmptyFacts DEF Cleared
  <2> QED  BY <2>1 DEF Cleared, Ahead
<1> DEFINE b == batch[w]
           n == next[w]
<1>3. /\ Len(b) \in Nat /\ n \in Nat \ {0} /\ DOMAIN b = 1 .. Len(b)
      /\ \A i \in 1 .. Len(b) : b[i] \in Int /\ b[i] \in Events
      /\ \A i, j \in 1 .. Len(b) : i < j => b[i] < b[j]
      /\ Ahead(w) = {b[i] : i \in n .. Len(b)}
      /\ ToSet(b) = {b[i] : i \in 1 .. Len(b)}
  <2>1. /\ b \in Seq(Events) /\ Len(b) \in Nat /\ DOMAIN b = 1 .. Len(b)
        /\ \A i \in 1 .. Len(b) : b[i] \in Events
        /\ ToSet(b) = {b[i] : i \in 1 .. Len(b)} /\ n \in Nat \ {0}
    BY BatchFacts
  <2>2. InOrder(b) /\ Ahead(w) = {b[i] : i \in n .. Len(b)}
    BY DEF BatchesApart, Ahead
  <2> HIDE DEF b, n
  <2>3. \A i \in 1 .. Len(b) : b[i] \in Int
    BY <2>1, Constants
  <2> QED  BY <2>1, <2>2, <2>3 DEF InOrder
<1>4. Inserting(w) => n \in 1 .. Len(b) /\ Current(w) = b[n]
  BY <1>3 DEF Inserting, Current
<1>5. Advanced(w) => Ahead(w)' = {b[i] : i \in n + 1 .. Len(b)}
  BY DEF Advanced, Ahead
<1> HIDE DEF b, n
<1>6. Inserting(w) => /\ Current(w) \in Ahead(w) /\ Current(w) \in Events
                      /\ \A e \in Ahead(w) : Current(w) <= e
  <2> SUFFICES ASSUME Inserting(w)
               PROVE  /\ Current(w) \in Ahead(w) /\ Current(w) \in Events
                      /\ \A e \in Ahead(w) : Current(w) <= e
    OBVIOUS
  <2>1. n \in n .. Len(b)
    BY <1>3, <1>4
  <2>2. \A i \in n .. Len(b) : b[n] <= b[i]
    <3>1. \A i \in n .. Len(b) : i \in 1 .. Len(b) /\ (i = n \/ n < i)
      BY <1>3
    <3> QED  BY <1>3, <1>4, <3>1
  <2> QED  BY <1>3, <1>4, <2>1, <2>2
<1>7. Advanced(w) => /\ Ahead(w) = Ahead(w)' \cup {Current(w)}
                     /\ Current(w) \notin Ahead(w)'
                     /\ Current(w) \in ToSet(b)
                     /\ \A e \in Ahead(w)' : Current(w) < e
  <2> SUFFICES ASSUME Advanced(w)
               PROVE  /\ Ahead(w) = Ahead(w)' \cup {Current(w)}
                      /\ Current(w) \notin Ahead(w)'
                      /\ Current(w) \in ToSet(b)
                      /\ \A e \in Ahead(w)' : Current(w) < e
    OBVIOUS
  <2>1. n \in 1 .. Len(b) /\ Current(w) = b[n]
    BY <1>4 DEF Advanced
  <2>2. \A i \in n + 1 .. Len(b) : i \in 1 .. Len(b) /\ i \in n .. Len(b) /\ n < i
    BY <1>3
  <2>3. \A i \in n .. Len(b) : i = n \/ i \in n + 1 .. Len(b)
    BY <1>3
  <2>4. n \in n .. Len(b)
    BY <2>1
  <2>5. \A i \in n + 1 .. Len(b) : b[n] < b[i]
    BY <1>3, <2>1, <2>2
  <2>6. \A i \in n + 1 .. Len(b) : b[n] # b[i]
    BY <1>3, <2>1, <2>2, <2>5
  <2> QED  BY <1>3, <1>5, <2>1, <2>2, <2>3, <2>4, <2>5, <2>6
<1> QED  BY <1>1, <1>2, <1>6, <1>7 DEF b

LEMMA TakesAhead ==
  ASSUME TypeOK, BatchesApart, QueueIsTail, NEW w \in Writers, NEW k, Takes(w, k)
  PROVE  /\ Ahead(w)' = Taken + 1 .. Taken + k
         /\ ToSet(batch'[w]) = Taken + 1 .. Taken + k
         /\ InOrder(batch'[w]) /\ Len(batch'[w]) = k
         /\ next[w] = 1
<1>1. next[w] = 1
  BY BatchFacts, EmptyFacts DEF Takes, BatchesApart
<1>2. /\ ToSet(batch'[w]) = Taken + 1 .. Taken + k /\ Len(batch'[w]) = k
      /\ InOrder(batch'[w])
  BY TakeOff DEF Takes
<1>3. DOMAIN batch'[w] = 1 .. k
  <2>1. SubSeq(queue, 1, k) \in Seq(Events) /\ Len(SubSeq(queue, 1, k)) = k
    BY TakeOff DEF Takes
  <2> QED  BY <2>1, LenProperties DEF Takes
<1>4. Ahead(w)' = ToSet(batch'[w])
  BY <1>1, <1>2, <1>3 DEF Ahead, ToSet, Takes
<1> QED  BY <1>1, <1>2, <1>4
-----------------------------------------------------------------------------
(* Each part of the invariant, for the moves that can disturb it *)

LEMMA TakenIsNumber ==
  ASSUME TypeOK, QueueIsTail
  PROVE  Taken \in Nat /\ Len(queue) \in Nat /\ enqueued \in Nat /\ enqueued = Taken + Len(queue)
<1>1. Len(queue) \in Nat /\ enqueued \in Nat
  BY LenProperties, Constants DEF TypeOK
<1> QED  BY <1>1 DEF QueueIsTail, Taken

LEMMA QueueKept ==
  ASSUME QueueIsTail, queue' = queue, enqueued' = enqueued
  PROVE  QueueIsTail' /\ Taken' = Taken
BY DEF QueueIsTail, Taken

LEMMA QueueTaken ==
  ASSUME TypeOK, QueueIsTail, NEW k \in 0 .. Len(queue),
         queue' = SubSeq(queue, k + 1, Len(queue)), enqueued' = enqueued
  PROVE  QueueIsTail' /\ Taken' = Taken + k
<1>1. Taken \in Nat /\ Len(queue) \in Nat /\ enqueued = Taken + Len(queue)
  BY TakenIsNumber
<1>2. Len(queue') = Len(queue) - k /\ \A i \in DOMAIN queue' : queue'[i] = Taken + k + i
  BY TakeOff
<1>3. Taken' = Taken + k
  BY <1>1, <1>2 DEF Taken
<1> QED  BY <1>1, <1>2, <1>3 DEF QueueIsTail

LEMMA QueueGrows ==
  ASSUME TypeOK, QueueIsTail, EnqueueEvent
  PROVE  /\ QueueIsTail' /\ Taken' = Taken
         /\ queue' \in Seq(Events) /\ ToSet(queue') = ToSet(queue) \cup {enqueued + 1}
         /\ enqueued + 1 \in Events
<1>1. /\ Taken \in Nat /\ Len(queue) \in Nat /\ enqueued = Taken + Len(queue)
      /\ DOMAIN queue = 1 .. Len(queue) /\ queue \in Seq(Events)
  BY TakenIsNumber, LenProperties DEF TypeOK
<1>2. enqueued + 1 \in Events
  BY <1>1, Constants DEF EnqueueEvent
<1>3. /\ Len(queue') = Len(queue) + 1 /\ DOMAIN queue' = 1 .. Len(queue) + 1
      /\ \A i \in 1 .. Len(queue) : queue'[i] = queue[i]
      /\ queue'[Len(queue) + 1] = enqueued + 1
  BY <1>1, <1>2, AppendProperties, LenProperties DEF EnqueueEvent
<1>4. Taken' = Taken
  BY <1>1, <1>3 DEF Taken, EnqueueEvent
<1>5. \A i \in 1 .. Len(queue) + 1 : queue'[i] = Taken + i
  <2>1. \A i \in 1 .. Len(queue) : queue'[i] = Taken + i
    BY <1>1, <1>3 DEF QueueIsTail
  <2>2. \A i \in 1 .. Len(queue) + 1 : i \in 1 .. Len(queue) \/ i = Len(queue) + 1
    BY <1>1
  <2>3. enqueued + 1 = Taken + (Len(queue) + 1)
    BY <1>1
  <2> QED  BY <1>3, <2>1, <2>2, <2>3
<1>6. QueueIsTail'
  BY <1>1, <1>3, <1>4, <1>5 DEF QueueIsTail
<1> QED  BY <1>1, <1>2, <1>4, <1>6, AppendSets DEF EnqueueEvent

\* Batches that shrink or go stay apart.
Shrinks == \A w \in Writers : Kept(w) \/ Cleared(w) \/ Advanced(w)

LEMMA BatchesShrink ==
  ASSUME TypeOK, BatchesApart, Shrinks,
         Taken \in Nat, Taken' \in Nat, Taken <= Taken'
  PROVE  BatchesApart'
<1>1. \A w \in Writers : batch'[w] = batch[w] \/ batch'[w] = <<>>
  BY DEF Shrinks, Kept, Cleared, Advanced
<1>2. ASSUME NEW w \in Writers
      PROVE  /\ pc'[w] # "writing" => batch'[w] = <<>>
             /\ next'[w] <= Len(batch'[w]) + 1
             /\ Len(batch'[w]) <= Taken'
             /\ InOrder(batch'[w])
             /\ \A e \in ToSet(batch'[w]) : e <= Taken'
  <2>1. /\ pc[w] # "writing" => batch[w] = <<>>
        /\ next[w] <= Len(batch[w]) + 1 /\ Len(batch[w]) <= Taken
        /\ InOrder(batch[w]) /\ \A e \in ToSet(batch[w]) : e <= Taken
    BY DEF BatchesApart
  <2>2. /\ Len(batch[w]) \in Nat /\ next[w] \in Nat
        /\ \A e \in ToSet(batch[w]) : e \in Int
    BY BatchFacts, Constants
  <2>3. CASE Kept(w)
    BY <2>1, <2>2, <2>3 DEF Kept
  <2>4. CASE Cleared(w)
    BY <2>4, EmptyFacts DEF Cleared
  <2>5. CASE Advanced(w)
    BY <2>1, <2>2, <2>5 DEF Advanced, Inserting
  <2> QED  BY <2>3, <2>4, <2>5 DEF Shrinks
<1>3. ToSet(batch'["worker"]) \cap ToSet(batch'["closer"]) = {}
  BY <1>1, Constants, EmptyFacts DEF BatchesApart
<1>4. Len(batch'["worker"]) <= BatchSize
  BY <1>1, Constants, EmptyFacts DEF BatchesApart
<1> QED  BY <1>2, <1>3, <1>4 DEF BatchesApart

LEMMA BatchTaken ==
  ASSUME TypeOK, QueueIsTail, BatchesApart,
         NEW w \in Writers, NEW v \in Writers, v # w, NEW k,
         Takes(w, k), Kept(v), Taken' = Taken + k
  PROVE  BatchesApart'
<1>1. k \in Nat /\ Taken \in Nat /\ Taken' \in Nat
  BY TakenIsNumber DEF Takes
<1>2. /\ ToSet(batch'[w]) = Taken + 1 .. Taken + k /\ InOrder(batch'[w])
      /\ Len(batch'[w]) = k /\ next[w] = 1
  BY TakesAhead
<1>3. /\ pc[v] # "writing" => batch[v] = <<>>
      /\ next[v] <= Len(batch[v]) + 1 /\ Len(batch[v]) <= Taken
      /\ InOrder(batch[v]) /\ \A e \in ToSet(batch[v]) : e <= Taken
      /\ Len(batch["worker"]) <= BatchSize
  BY DEF BatchesApart
<1>4. Len(batch[v]) \in Nat /\ \A e \in ToSet(batch[v]) : e \in Int
  BY BatchFacts, Constants
<1>5. /\ pc'[v] # "writing" => batch'[v] = <<>>
      /\ next'[v] <= Len(batch'[v]) + 1 /\ Len(batch'[v]) <= Taken'
      /\ InOrder(batch'[v]) /\ \A e \in ToSet(batch'[v]) : e <= Taken'
  BY <1>1, <1>3, <1>4 DEF Kept
<1>6. /\ pc'[w] # "writing" => batch'[w] = <<>>
      /\ next'[w] <= Len(batch'[w]) + 1 /\ Len(batch'[w]) <= Taken'
      /\ \A e \in ToSet(batch'[w]) : e <= Taken'
  BY <1>1, <1>2 DEF Takes
<1>7. ToSet(batch'[w]) \cap ToSet(batch'[v]) = {}
  <2>1. \A e \in ToSet(batch[v]) : e \notin Taken + 1 .. Taken + k
    BY <1>1, <1>3, <1>4
  <2> QED  BY <1>2, <2>1 DEF Kept
<1>8. Len(batch'["worker"]) <= BatchSize
  BY <1>2, <1>3, Constants DEF Takes, Kept
<1>9. ToSet(batch'["worker"]) \cap ToSet(batch'["closer"]) = {}
  BY <1>7, Constants
<1>10. \A u \in Writers : u = w \/ u = v
  BY Constants
<1> QED  BY <1>2, <1>5, <1>6, <1>8, <1>9, <1>10 DEF BatchesApart
LEMMA RowFacts ==
  ASSUME TypeOK
  PROVE  /\ db \in Seq(Events) /\ mem \in Seq(Events)
         /\ ToSet(db) \in SUBSET Events /\ ToSet(mem) \in SUBSET Events
         /\ \A e \in ToSet(db) : e \in Int
         /\ \A e \in ToSet(mem) : e \in Int
<1>1. db \in Seq(Events) /\ mem \in Seq(Events)
  BY DEF TypeOK
<1>2. /\ \A i \in DOMAIN db : db[i] \in Events
      /\ \A i \in DOMAIN mem : mem[i] \in Events
  BY <1>1, LenProperties, ElementOfSeq
<1> QED  BY <1>1, <1>2, Constants DEF ToSet

LEMMA RowsKept ==
  ASSUME TypeOK, BatchesApart, RowsOnce, db' = db,
         \A w \in Writers : Kept(w) \/ Cleared(w),
         Taken \in Nat, Taken' \in Nat, Taken <= Taken',
         pc'.closer = "idle" => pc.closer = "idle"
  PROVE  RowsOnce'
<1>1. \A e \in ToSet(db) : e \in Int /\ e <= Taken
  BY RowFacts DEF RowsOnce
<1>2. \A w \in Writers : Ahead(w)' \in SUBSET Ahead(w)
  BY AheadAfter
<1>3. ASSUME NEW w \in Writers
      PROVE  /\ ToSet(db) \cap Ahead(w)' = {}
             /\ \A i \in 1 .. next'[w] - 1 : HasTable(batch'[w][i]) => batch'[w][i] \in ToSet(db)
  <2>1. /\ ToSet(db) \cap Ahead(w) = {}
        /\ \A i \in 1 .. next[w] - 1 : HasTable(batch[w][i]) => batch[w][i] \in ToSet(db)
    BY DEF RowsOnce
  <2>2. CASE Kept(w)
    BY <1>2, <2>1, <2>2 DEF Kept
  <2>3. CASE Cleared(w)
    BY <1>2, <2>1, <2>3 DEF Cleared
  <2> QED  BY <2>2, <2>3
<1>4. pc'.closer = "idle" =>
         InOrder(db) /\ \A e \in ToSet(db), f \in Ahead("worker")' : e < f
  BY <1>2, Constants DEF RowsOnce
<1>5. \A e \in ToSet(db) : e <= Taken'
  BY <1>1
<1> QED  BY <1>3, <1>4, <1>5 DEF RowsOnce

\* The item at the writer's position becomes a row, if there is a table for it.
LEMMA RowsInserted ==
  ASSUME TypeOK, BatchesApart, RowsOnce, Taken' = Taken,
         NEW w \in Writers, NEW v \in Writers, v # w,
         Inserting(w), db' = Inserted(Current(w)),
         Advanced(w) \/ Cleared(w), Kept(v),
         pc'.closer = "idle" => pc.closer = "idle"
  PROVE  /\ RowsOnce'
         /\ ToSet(db') = ToSet(db) \cup (IF HasTable(Current(w)) THEN {Current(w)} ELSE {})
<1> DEFINE c == Current(w)
           now_c == IF HasTable(c) THEN {c} ELSE {}
<1>1. /\ c \in Events /\ c \in Ahead(w) /\ c \in Int
      /\ \A e \in Ahead(w) : c <= e
      /\ Advanced(w) => /\ Ahead(w) = Ahead(w)' \cup {c} /\ c \notin Ahead(w)'
                        /\ \A e \in Ahead(w)' : c < e
      /\ Cleared(w) => Ahead(w)' = {}
      /\ c \in ToSet(batch[w]) /\ c = batch[w][next[w]]
  <2>1. Ahead(w) \in SUBSET ToSet(batch[w])
    BY BatchFacts
  <2>2. \A e \in Events : e \in Int
    BY Constants
  <2> QED  BY <2>1, <2>2, AheadAfter DEF Current
<1>2. /\ db \in Seq(Events) /\ \A e \in ToSet(db) : e \in Int
      /\ c \notin ToSet(db) /\ IsInjective(db) /\ \A e \in ToSet(db) : e <= Taken
      /\ c <= Taken
  BY <1>1, RowFacts DEF RowsOnce, BatchesApart
<1>3. db' = IF HasTable(c) THEN Append(db, c) ELSE db
  BY DEF Inserted
<1> HIDE DEF c
<1>4. db' \in Seq(Events) /\ IsInjective(db') /\ ToSet(db') = ToSet(db) \cup now_c
  BY <1>1, <1>2, <1>3, AppendSets
<1>5. \A e \in ToSet(db') : e <= Taken'
  BY <1>2, <1>4
<1>6. /\ ToSet(db') \cap Ahead(w)' = {}
      /\ \A i \in 1 .. next'[w] - 1 : HasTable(batch'[w][i]) => batch'[w][i] \in ToSet(db')
  <2>1. /\ ToSet(db) \cap Ahead(w) = {}
        /\ \A i \in 1 .. next[w] - 1 : HasTable(batch[w][i]) => batch[w][i] \in ToSet(db)
    BY DEF RowsOnce
  <2>2. CASE Advanced(w)
    <3>1. \A i \in 1 .. next'[w] - 1 : i \in 1 .. next[w] - 1 \/ i = next[w]
      BY <2>2, BatchFacts DEF Advanced
    <3> QED  BY <1>1, <1>4, <2>1, <2>2, <3>1 DEF Advanced
  <2>3. CASE Cleared(w)
    BY <1>1, <2>3 DEF Cleared
  <2> QED  BY <2>2, <2>3
<1>7. /\ ToSet(db') \cap Ahead(v)' = {}
      /\ \A i \in 1 .. next'[v] - 1 : HasTable(batch'[v][i]) => batch'[v][i] \in ToSet(db')
  <2>1. /\ ToSet(db) \cap Ahead(v) = {}
        /\ \A i \in 1 .. next[v] - 1 : HasTable(batch[v][i]) => batch[v][i] \in ToSet(db)
    BY DEF RowsOnce
  <2>2. c \notin ToSet(batch[v])
    BY <1>1, Constants DEF BatchesApart
  <2>3. Ahead(v)' = Ahead(v) /\ Ahead(v) \in SUBSET ToSet(batch[v])
    BY AheadAfter, BatchFacts
  <2> QED  BY <1>4, <2>1, <2>2, <2>3 DEF Kept
<1>8. ASSUME pc'.closer = "idle"
      PROVE  InOrder(db') /\ \A e \in ToSet(db'), f \in Ahead("worker")' : e < f
  <2>1. w = "worker"
    BY <1>8, Constants DEF Inserting
  <2>2. InOrder(db) /\ \A e \in ToSet(db), f \in Ahead(w) : e < f
    BY <1>8, <2>1 DEF RowsOnce
  <2>3. \A e \in ToSet(db) : e < c
    BY <1>1, <2>2
  <2>4. InOrder(db')
    <3>1. CASE ~HasTable(c)
      BY <1>3, <2>2, <3>1
    <3>2. CASE HasTable(c)
      <4>1. /\ DOMAIN db = 1 .. Len(db) /\ Len(db) \in Nat
            /\ DOMAIN db' = 1 .. Len(db) + 1
            /\ \A i \in 1 .. Len(db) : db'[i] = db[i]
            /\ db'[Len(db) + 1] = c
        BY <1>1, <1>2, <1>3, <1>4, <3>2, AppendProperties, LenProperties
      <4>2. \A i \in 1 .. Len(db) : db[i] < c
        BY <2>3, <4>1 DEF ToSet
      <4>3. \A i \in 1 .. Len(db) + 1 : i \in 1 .. Len(db) \/ i = Len(db) + 1
        BY <4>1
      <4>4. \A i, j \in 1 .. Len(db) : i < j => db[i] < db[j]
        BY <2>2, <4>1 DEF InOrder
      <4>5. \A i \in 1 .. Len(db) : ~(Len(db) + 1 < i)
        BY <4>1
      <4>6. ~(Len(db) + 1 < Len(db) + 1)
        BY <4>1
      <4>7. \A i, j \in 1 .. Len(db) + 1 : i < j => db'[i] < db'[j]
        BY <4>1, <4>2, <4>3, <4>4, <4>5, <4>6
      <4> QED  BY <4>1, <4>7 DEF InOrder
    <3> QED  BY <3>1, <3>2
  <2>5. \A f \in Ahead(w)' : c < f /\ f \in Ahead(w)
    BY <1>1
  <2> QED  BY <1>4, <2>1, <2>2, <2>4, <2>5
<1>9. \A u \in Writers : u = w \/ u = v
  BY Constants
<1> QED  BY <1>4, <1>5, <1>6, <1>7, <1>8, <1>9 DEF RowsOnce, c

LEMMA RowsBehindBatch ==
  ASSUME TypeOK, QueueIsTail, BatchesApart, RowsOnce, db' = db,
         NEW w \in Writers, NEW v \in Writers, v # w, NEW k,
         Takes(w, k), Kept(v), Taken' = Taken + k,
         pc'.closer = "idle" => pc.closer = "idle"
  PROVE  RowsOnce'
<1>1. k \in Nat /\ Taken \in Nat
  BY TakenIsNumber DEF Takes
<1>2. /\ \A e \in ToSet(db) : e \in Int /\ e <= Taken
      /\ Ahead(w)' = Taken + 1 .. Taken + k /\ next'[w] = 1
      /\ Ahead(v)' = Ahead(v)
  BY RowFacts, TakesAhead, AheadAfter DEF RowsOnce, Takes
<1>3. \A e \in ToSet(db), f \in Ahead(w)' : e < f
  BY <1>1, <1>2
<1>4. ToSet(db) \cap Ahead(w)' = {}
  BY <1>1, <1>2
<1>5. \A e \in ToSet(db) : e <= Taken'
  BY <1>1, <1>2
<1>6. \A i \in 1 .. next'[w] - 1 : FALSE
  BY <1>2
<1>7. /\ ToSet(db) \cap Ahead(v)' = {}
      /\ \A i \in 1 .. next'[v] - 1 : HasTable(batch'[v][i]) => batch'[v][i] \in ToSet(db)
  BY <1>2 DEF RowsOnce, Kept
<1>8. pc'.closer = "idle" => w = "worker" /\ InOrder(db)
  BY Constants DEF Takes, RowsOnce
<1>9. \A u \in Writers : u = w \/ u = v
  BY Constants
<1>10. IsInjective(db)
  BY DEF RowsOnce
<1> QED  BY <1>3, <1>4, <1>5, <1>6, <1>7, <1>8, <1>9, <1>10 DEF RowsOnce
LEMMA BufferKept ==
  ASSUME TypeOK, BufferOnce, Shrinks, mem' = mem,
         Taken \in Nat, Taken' \in Nat, Taken <= Taken',
         pool' = "none" => pool = "none" /\ Taken' = Taken
  PROVE  BufferOnce'
<1>1. \A w \in Writers : batch'[w] = batch[w] \/ batch'[w] = <<>>
  BY DEF Shrinks, Kept, Cleared, Advanced
<1>2. \A e \in ToSet(mem) : e <= Taken'
  BY RowFacts DEF BufferOnce
<1> QED  BY <1>1, <1>2, EmptyFacts DEF BufferOnce

LEMMA BufferBehindBatch ==
  ASSUME TypeOK, QueueIsTail, BatchesApart, BufferOnce, mem' = mem,
         NEW w \in Writers, NEW v \in Writers, v # w, NEW k,
         Takes(w, k), Kept(v), Taken' = Taken + k, pool' # "none"
  PROVE  BufferOnce'
<1>1. k \in Nat /\ Taken \in Nat
  BY TakenIsNumber DEF Takes
<1>2. \A e \in ToSet(mem) : e \in Int /\ e <= Taken
  BY RowFacts DEF BufferOnce
<1>3. ToSet(batch'[w]) = Taken + 1 .. Taken + k
  BY TakesAhead
<1>4. \A e \in ToSet(mem) : e <= Taken' /\ e \notin Taken + 1 .. Taken + k
  BY <1>1, <1>2
<1>5. \A u \in Writers : u = w \/ u = v
  BY Constants
<1> QED  BY <1>3, <1>4, <1>5 DEF BufferOnce, Kept

\* A failed batch goes behind what the memory buffer holds.
LEMMA BufferFailed ==
  ASSUME TypeOK, BatchesApart, BufferOnce, Taken' = Taken,
         NEW w \in Writers, NEW v \in Writers, v # w,
         mem' = Buffered(batch[w]), Cleared(w), Kept(v), pool' # "none"
  PROVE  /\ BufferOnce' /\ mem' \in Seq(Events)
         /\ ToSet(mem') = ToSet(mem) \cup ToSet(batch[w])
<1>1. /\ batch[w] \in Seq(Events) /\ mem \in Seq(Events)
      /\ Events \in SUBSET Int /\ InOrder(batch[w])
      /\ \A e \in ToSet(batch[w]) : e <= Taken
  BY BatchFacts, RowFacts, Constants DEF BatchesApart
<1>2. IsInjective(batch[w])
  BY <1>1, OrderIsInjective, SeqMonotonic
<1>3. /\ IsInjective(mem) /\ ToSet(mem) \cap ToSet(batch[w]) = {}
      /\ ToSet(mem) \cap ToSet(batch[v]) = {}
      /\ ToSet(batch[w]) \cap ToSet(batch[v]) = {}
      /\ \A e \in ToSet(mem) : e <= Taken
  BY Constants DEF BufferOnce, BatchesApart
<1>4. /\ mem' \in Seq(Events) /\ IsInjective(mem')
      /\ ToSet(mem') = ToSet(mem) \cup ToSet(batch[w])
  BY <1>1, <1>2, <1>3, ConcatSets DEF Buffered
<1>5. \A u \in Writers : u = w \/ u = v
  BY Constants
<1>6. ToSet(batch'[w]) = {}
  BY EmptyFacts DEF Cleared
<1> QED  BY <1>1, <1>3, <1>4, <1>5, <1>6 DEF BufferOnce, Kept

\* Without a pool, what is taken off the queue goes there directly.
LEMMA BufferTook ==
  ASSUME TypeOK, QueueIsTail, BatchesApart, BufferOnce, Shrinks,
         NEW k \in 0 .. Len(queue),
         mem' = Buffered(SubSeq(queue, 1, k)), Taken' = Taken + k,
         pool' = "none" => pool = "none"
  PROVE  /\ BufferOnce' /\ mem' \in Seq(Events)
         /\ ToSet(mem') = ToSet(mem) \cup (Taken + 1 .. Taken + k)
<1> DEFINE items == SubSeq(queue, 1, k)
<1>1. Taken \in Nat /\ Len(queue) \in Nat /\ k \in Nat
  BY TakenIsNumber
<1>2. /\ items \in Seq(Events) /\ IsInjective(items) /\ Len(items) = k
      /\ ToSet(items) = Taken + 1 .. Taken + k
      /\ \A i \in 1 .. k : items[i] = Taken + i
  BY TakeOff
<1>3. /\ mem \in Seq(Events) /\ IsInjective(mem)
      /\ \A e \in ToSet(mem) : e \in Int /\ e <= Taken
  BY RowFacts DEF BufferOnce
<1>4. mem' = mem \o items
  BY DEF Buffered
<1> HIDE DEF items
<1>5. ToSet(mem) \cap ToSet(items) = {}
  BY <1>1, <1>2, <1>3
<1>6. /\ mem' \in Seq(Events) /\ IsInjective(mem')
      /\ ToSet(mem') = ToSet(mem) \cup (Taken + 1 .. Taken + k)
  <2>1. /\ mem \o items \in Seq(Events)
        /\ ToSet(mem \o items) = ToSet(mem) \cup ToSet(items)
        /\ IsInjective(mem \o items)
    BY <1>2, <1>3, <1>5, ConcatSets
  <2> QED  BY <1>2, <1>4, <2>1
<1>7. \A e \in ToSet(mem') : e <= Taken'
  BY <1>1, <1>3, <1>6
<1>8. ASSUME NEW w \in Writers PROVE ToSet(mem') \cap ToSet(batch'[w]) = {}
  <2>1. batch'[w] = batch[w] \/ batch'[w] = <<>>
    BY DEF Shrinks, Kept, Cleared, Advanced
  <2>2. \A e \in ToSet(batch[w]) : e \in Int /\ e <= Taken
    BY BatchFacts, Constants DEF BatchesApart
  <2>3. \A e \in ToSet(batch[w]) : e \notin Taken + 1 .. Taken + k
    BY <1>1, <2>2
  <2> QED  BY <1>6, <2>1, <2>3, EmptyFacts DEF BufferOnce
<1>9. ASSUME pool' = "none" PROVE mem' = [e \in 1 .. Taken' |-> e]
  <2>1. mem = [e \in 1 .. Taken |-> e]
    BY <1>9 DEF BufferOnce
  <2>2. Len(mem) = Taken
    BY <1>1, <1>3, <2>1, LenProperties
  <2>3. DOMAIN mem' = 1 .. Taken + k
    BY <1>2, <1>3, <1>4, <1>6, <2>2, ConcatProperties, LenProperties
  <2>4. \A i \in 1 .. Taken + k : mem'[i] = IF i <= Taken THEN mem[i] ELSE items[i - Taken]
    BY SMTT(30), <1>2, <1>3, <1>4, <2>2, ConcatProperties
  <2>5. \A i \in 1 .. Taken + k : /\ i <= Taken => i \in 1 .. Taken
                                  /\ ~(i <= Taken) => i - Taken \in 1 .. k /\ Taken + (i - Taken) = i
    BY <1>1
  <2>6. \A i \in 1 .. Taken + k : mem'[i] = i
    BY <1>2, <2>1, <2>4, <2>5
  <2>7. mem' = [i \in 1 .. Taken + k |-> mem'[i]]
    BY <1>6, <2>3, LenProperties
  <2> QED  BY <2>3, <2>6, <2>7
<1> QED  BY <1>6, <1>7, <1>8, <1>9 DEF BufferOnce
-----------------------------------------------------------------------------
(* The steps *)

\* What becomes of the events that are in the sink.
Written == ToSet(db) \cup ToSet(mem)
Accounts ==
    /\ enqueued' = enqueued
    /\ Written \subseteq Written' /\ Written' \subseteq Written \cup Held
    /\ Held' \subseteq Held
    /\ \A e \in Held \ (Held' \cup Written') : HasTable(e) =>
          \/ exited'
          \/ cancelled /\ pc'.worker = "done" /\ e \in ToSet(batch["worker"])

PcSet == [init : {"idle", "connecting", "creating", "done"},
          worker : {"none", "new", "writing", "sleeping", "done"},
          closer : {"idle", "writing", "closing", "done"}]

\* Steps that move no event.
LEMMA QuietStep ==
  ASSUME TypeOK, Data,
         \/ Initialize \/ PoolCreated \/ InitializeReturns
         \/ WorkerReturns \/ AcloseReturns
  PROVE  TypeOK' /\ Data' /\ Accounts
<1>1. /\ UNCHANGED <<queue, mem, db, batch, next, cancelled, enqueued, closedAt, exited, dsn>>
      /\ \A w \in Writers : Kept(w)
      /\ pool' = "none" => pool = "none"
      /\ pc'.closer = "idle" => pc.closer = "idle"
  <2>1. /\ UNCHANGED <<queue, mem, db, batch, next, cancelled, enqueued, closedAt, exited, dsn>>
        /\ pool' = pool \/ pool' = "open"
    BY DEF Initialize, PoolCreated, InitializeReturns, WorkerReturns, AcloseReturns,
       sinkVars, writeVars, hostVars
  <2>2. pc \in PcSet /\ (pc.worker # "none" => pc.init = "done")
    BY DEF TypeOK, PcSet, Data, Phases
  <2>3. /\ pc.worker = "writing" => pc'.worker = "writing"
        /\ pc.closer = "writing" => pc'.closer = "writing"
        /\ pc'.closer = "idle" => pc.closer = "idle"
    BY <2>2 DEF PcSet, Initialize, PoolCreated, InitializeReturns, AtLoopTop,
       WorkerReturns, AcloseReturns
  <2>4. \A w \in Writers : pc[w] = "writing" => pc'[w] = "writing"
    BY <2>3, Constants
  <2> QED  BY <2>1, <2>3, <2>4 DEF Kept
<1>2. TypeOK'
  <2>1. pc \in PcSet
    BY DEF TypeOK, PcSet
  <2>2. pc' \in PcSet
    <3>1. CASE Initialize
      BY <2>1, <3>1 DEF PcSet, Initialize
    <3>2. CASE PoolCreated
      BY <2>1, <3>2 DEF PcSet, PoolCreated
    <3>3. CASE InitializeReturns
      BY <2>1, <3>3 DEF PcSet, InitializeReturns
    <3>4. CASE WorkerReturns
      BY <2>1, <3>4 DEF PcSet, WorkerReturns
    <3>5. CASE AcloseReturns
      BY <2>1, <3>5 DEF PcSet, AcloseReturns
    <3> QED  BY <3>1, <3>2, <3>3, <3>4, <3>5
  <2>3. isRunning' \in BOOLEAN /\ pool' \in {"none", "open", "closed"}
    BY DEF TypeOK, Initialize, PoolCreated, InitializeReturns, WorkerReturns,
       AcloseReturns, sinkVars
  <2> QED  BY <1>1, <2>2, <2>3 DEF TypeOK, PcSet
<1>3. Taken \in Nat /\ QueueIsTail' /\ Taken' = Taken
  BY <1>1, TakenIsNumber, QueueKept DEF Data
<1>4. BatchesApart'
  BY <1>1, <1>3, BatchesShrink DEF Data, Shrinks
<1>5. RowsOnce'
  BY <1>1, <1>3, RowsKept DEF Data
<1>6. BufferOnce'
  BY <1>1, <1>3, BufferKept DEF Data, Shrinks
<1>7. Phases'
  <2>1. Writers = {"worker", "closer"} /\ pc \in PcSet /\ Phases
    BY DEF Writers, TypeOK, PcSet, Data
  <2> QED
    BY <1>1, <2>1 DEF PcSet, Phases, Initialize, PoolCreated, InitializeReturns, AtLoopTop,
       WorkerReturns, AcloseReturns, sinkVars, writeVars, hostVars
<1>8. Accounts
  BY <1>1 DEF Accounts, Written, Held
<1> QED  BY <1>2, <1>3, <1>4, <1>5, <1>6, <1>7, <1>8 DEF Data

LEMMA EnqueueStep ==
  ASSUME TypeOK, Data, EnqueueEvent
  PROVE  /\ TypeOK' /\ Data'
         /\ Written' = Written /\ Held' = Held \cup {enqueued + 1}
<1>1. /\ QueueIsTail' /\ Taken' = Taken /\ Taken \in Nat
      /\ queue' \in Seq(Events) /\ ToSet(queue') = ToSet(queue) \cup {enqueued + 1}
  BY QueueGrows, TakenIsNumber DEF Data
<1>2. UNCHANGED <<dsn, isRunning, pool, mem, db, pc, batch, next, cancelled, closedAt, exited>>
  BY DEF EnqueueEvent, writeVars
<1>3. \A w \in Writers : Kept(w)
  BY <1>2 DEF Kept
<1>4. TypeOK'
  BY <1>1, <1>2, Constants DEF TypeOK, EnqueueEvent
<1>5. BatchesApart'
  BY <1>1, <1>3, BatchesShrink DEF Data, Shrinks
<1>6. RowsOnce'
  BY <1>1, <1>2, <1>3, RowsKept DEF Data
<1>7. BufferOnce'
  BY <1>1, <1>2, <1>3, BufferKept DEF Data, Shrinks
<1>8. Phases'
  BY <1>2 DEF Phases, Data
<1>9. Written' = Written /\ Held' = Held \cup {enqueued + 1}
  BY <1>1, <1>2 DEF Written, Held
<1> QED  BY <1>1, <1>4, <1>5, <1>6, <1>7, <1>8, <1>9 DEF Data
LEMMA OtherWriter ==
  ASSUME NEW w \in Writers
  PROVE  \E v \in Writers : v # w /\ \A u \in Writers : u = w \/ u = v
BY Constants

\* Where a writer goes behind its batch.
LEMMA BehindFacts ==
  ASSUME TypeOK, Phases, exited' = exited, ~exited,
         NEW w \in Writers, NEW v \in Writers, v # w, Behind(w),
         w = "worker" => pc.worker # "none" /\ cancelled' = cancelled
  PROVE  /\ pc' \in PcSet /\ pc'[v] = pc[v] /\ pc'[w] # "writing"
         /\ cancelled' \in BOOLEAN /\ pool' \in {"none", "open", "closed"}
         /\ pool' = "none" <=> pool = "none"
         /\ pc'.closer = "idle" => pc.closer = "idle"
         /\ Phases'
<1>1. /\ pc \in PcSet /\ cancelled \in BOOLEAN /\ pool \in {"none", "open", "closed"}
      /\ pc.worker # "none" => pc.init = "done"
      /\ cancelled => pc.worker # "none" /\ pc.closer \in {"closing", "done"}
      /\ pool = "none" => pc.worker # "writing" /\ pc.closer # "writing"
  BY Constants DEF TypeOK, PcSet, Phases
<1>2. CASE w = "worker"
  <2>1. /\ pc' = [pc EXCEPT !.worker = "sleeping"] /\ pool' = pool
        /\ v = "closer" /\ pc.init = "done" /\ cancelled' = cancelled
    BY <1>1, <1>2, Constants DEF Behind
  <2>2. /\ pc' \in PcSet /\ pc'.worker = "sleeping" /\ pc'.closer = pc.closer
        /\ pc'.init = pc.init
    BY <1>1, <2>1 DEF PcSet
  <2>3. Phases'
    BY <1>1, <2>1, <2>2, Constants DEF Phases
  <2> QED  BY <1>1, <1>2, <2>1, <2>2, <2>3
<1>3. CASE w = "closer"
  <2>1. /\ v = "worker" /\ cancelled' = (pc.worker # "none")
        /\ pc' = [pc EXCEPT !.closer = IF pool = "none" THEN "done" ELSE "closing"]
        /\ pool' = IF pool = "none" THEN "none" ELSE "closed"
    BY <1>3, Constants DEF Behind
  <2>2. /\ pc' \in PcSet /\ pc'.worker = pc.worker /\ pc'.closer \in {"done", "closing"}
        /\ pc'.init = pc.init
    BY <1>1, <2>1 DEF PcSet
  <2>3. Phases'
    BY <1>1, <2>1, <2>2, Constants DEF Phases
  <2> QED  BY <1>1, <1>3, <2>1, <2>2, <2>3
<1> QED  BY <1>2, <1>3, Constants

LEMMA InsertStep ==
  ASSUME TypeOK, Data, NEW w \in Writers, Insert(w)
  PROVE  TypeOK' /\ Data' /\ Accounts
<1>1. PICK v \in Writers : v # w /\ \A u \in Writers : u = w \/ u = v
  BY OtherWriter
<1>2. /\ UNCHANGED <<dsn, queue, isRunning, pool, mem, pc, batch, cancelled, enqueued,
                     closedAt, exited>>
      /\ Inserting(w) /\ db' = Inserted(Current(w))
      /\ next' = [next EXCEPT ![w] = @ + 1] /\ next \in [Writers -> 1 .. MaxEvents + 1]
  BY DEF Insert, hostVars, TypeOK
<1>3. Advanced(w) /\ Kept(v)
  BY <1>1, <1>2 DEF Advanced, Kept
<1>4. QueueIsTail' /\ Taken' = Taken /\ Taken \in Nat
  BY <1>2, QueueKept, TakenIsNumber DEF Data
<1>5. RowsOnce' /\ ToSet(db') = ToSet(db) \cup (IF HasTable(Current(w)) THEN {Current(w)} ELSE {})
  BY <1>1, <1>2, <1>3, <1>4, RowsInserted DEF Data
<1>6. Current(w) \in Events /\ Current(w) \in ToSet(batch[w])
  BY <1>2, <1>3, AheadAfter DEF Data
<1>7. TypeOK'
  <2>1. db' \in Seq(Events)
    BY <1>2, <1>6, RowFacts, AppendSets DEF Inserted
  <2>2. next[w] + 1 \in 1 .. MaxEvents + 1
    <3>1. Len(batch[w]) \in Nat /\ next[w] \in Nat \ {0} /\ Len(batch[w]) <= Taken
      BY BatchFacts DEF Data, BatchesApart
    <3>2. Len(queue) \in Nat /\ enqueued = Taken + Len(queue) /\ enqueued \in 0 .. MaxEvents
      BY TakenIsNumber DEF TypeOK, Data
    <3> QED  BY <1>2, <1>4, <3>1, <3>2, Constants DEF Inserting
  <2>3. next' \in [Writers -> 1 .. MaxEvents + 1]
    BY <1>2, <2>2
  <2> QED  BY <1>2, <2>1, <2>3 DEF TypeOK
<1>8. BatchesApart'
  BY <1>1, <1>3, <1>4, BatchesShrink DEF Data, Shrinks
<1>9. BufferOnce'
  BY <1>1, <1>2, <1>3, <1>4, BufferKept DEF Data, Shrinks
<1>10. Phases'
  BY <1>2 DEF Phases, Data
<1>11. Accounts
  <2>1. ToSet(batch[w]) \subseteq Held
    BY Constants DEF Held
  <2> QED  BY <1>2, <1>5, <1>6, <2>1 DEF Accounts, Written, Held
<1> QED  BY <1>4, <1>5, <1>7, <1>8, <1>9, <1>10, <1>11 DEF Data

\* Dropping a batch keeps the types.
LEMMA NoBatchTypes ==
  ASSUME TypeOK, NEW w \in Writers, NEW v \in Writers, v # w, NoBatch(w)
  PROVE  /\ batch' \in [Writers -> Seq(Events)]
         /\ next' \in [Writers -> 1 .. MaxEvents + 1]
         /\ Cleared(w) /\ batch'[v] = batch[v] /\ next'[v] = next[v]
         /\ \A u \in Writers : u = w \/ u = v
<1>1. 1 \in 1 .. MaxEvents + 1 /\ <<>> \in Seq(Events)
  BY Constants, EmptyFacts
<1> QED  BY <1>1, Constants DEF TypeOK, NoBatch, Cleared

LEMMA ReturnStep ==
  ASSUME TypeOK, Data, NEW w \in Writers, WriteReturns(w)
  PROVE  TypeOK' /\ Data' /\ Accounts
<1>1. PICK v \in Writers : v # w
  BY OtherWriter
<1>2. /\ UNCHANGED <<dsn, queue, isRunning, mem, db, enqueued, closedAt, exited>>
      /\ pc[w] = "writing" /\ ~Inserting(w) /\ Behind(w) /\ NoBatch(w)
  BY DEF WriteReturns, hostVars
<1>3. ~exited
  BY <1>2, Constants DEF Data, Phases, TypeOK
<1>4. w = "worker" => pc.worker # "none" /\ cancelled' = cancelled
  BY <1>2 DEF Behind
<1>5. /\ pc' \in PcSet /\ pc'[v] = pc[v] /\ pc'[w] # "writing"
      /\ cancelled' \in BOOLEAN /\ pool' \in {"none", "open", "closed"}
      /\ pool' = "none" <=> pool = "none"
      /\ pc'.closer = "idle" => pc.closer = "idle"
      /\ Phases'
  BY <1>1, <1>2, <1>3, <1>4, BehindFacts DEF Data
<1>6. /\ batch' \in [Writers -> Seq(Events)] /\ next' \in [Writers -> 1 .. MaxEvents + 1]
      /\ Cleared(w) /\ batch'[v] = batch[v] /\ next'[v] = next[v]
      /\ \A u \in Writers : u = w \/ u = v
  BY <1>1, <1>2, NoBatchTypes
<1>7. Kept(v) /\ \A u \in Writers : Kept(u) \/ Cleared(u)
  BY <1>5, <1>6 DEF Kept
<1>8. QueueIsTail' /\ Taken' = Taken /\ Taken \in Nat
  BY <1>2, QueueKept, TakenIsNumber DEF Data
<1>9. TypeOK'
  BY <1>2, <1>5, <1>6 DEF TypeOK, PcSet
<1>10. BatchesApart'
  BY <1>6, <1>7, <1>8, BatchesShrink DEF Data, Shrinks
<1>11. RowsOnce'
  BY <1>2, <1>5, <1>7, <1>8, RowsKept DEF Data
<1>12. BufferOnce'
  BY <1>2, <1>5, <1>7, <1>8, BufferKept DEF Data, Shrinks
<1>13. Accounts
  <2>1. \A e \in ToSet(batch[w]) : HasTable(e) => e \in ToSet(db)
    <3>1. \A i \in 1 .. Len(batch[w]) : i \in 1 .. next[w] - 1
      BY <1>2, BatchFacts DEF Inserting
    <3>2. \A i \in 1 .. next[w] - 1 : HasTable(batch[w][i]) => batch[w][i] \in ToSet(db)
      BY DEF Data, RowsOnce
    <3>3. ToSet(batch[w]) = {batch[w][i] : i \in 1 .. Len(batch[w])}
      BY BatchFacts
    <3> QED  BY <3>1, <3>2, <3>3
  <2>2. Written' = Written
    BY <1>2 DEF Written
  <2>3. Held' \subseteq Held /\ \A e \in Held : e \in Held' \/ e \in ToSet(batch[w])
    BY <1>2, <1>6, Constants, EmptyFacts DEF Held, Cleared
  <2> QED  BY <1>2, <2>1, <2>2, <2>3 DEF Accounts, Written
<1> QED  BY <1>5, <1>8, <1>9, <1>10, <1>11, <1>12, <1>13 DEF Data
\* An insertion that may have taken effect when its batch is dropped.
LEMMA RowsOfDropped ==
  ASSUME TypeOK, BatchesApart, RowsOnce, Taken \in Nat, Taken' = Taken,
         NEW w \in Writers, NEW v \in Writers, v # w, Cleared(w), Kept(v),
         db' = db \/ (Inserting(w) /\ db' = Inserted(Current(w))),
         pc'.closer = "idle" => pc.closer = "idle"
  PROVE  /\ RowsOnce' /\ db' \in Seq(Events)
         /\ ToSet(db) \subseteq ToSet(db')
         /\ ToSet(db') \subseteq ToSet(db) \cup ToSet(batch[w])
<1>1. \A u \in Writers : Kept(u) \/ Cleared(u)
  BY Constants
<1>2. CASE db' = db
  BY <1>1, <1>2, RowsKept, RowFacts
<1>3. CASE Inserting(w) /\ db' = Inserted(Current(w))
  <2>1. /\ RowsOnce'
        /\ ToSet(db') = ToSet(db) \cup (IF HasTable(Current(w)) THEN {Current(w)} ELSE {})
    BY <1>3, RowsInserted
  <2>2. Current(w) \in ToSet(batch[w]) /\ Current(w) \in Events
    BY <1>3, AheadAfter, BatchFacts
  <2>3. db' \in Seq(Events)
    BY <1>3, <2>2, RowFacts, AppendSets DEF Inserted
  <2> QED  BY <2>1, <2>2, <2>3
<1> QED  BY <1>2, <1>3

LEMMA FailStep ==
  ASSUME TypeOK, Data, NEW w \in Writers, WriteFails(w)
  PROVE  TypeOK' /\ Data' /\ Accounts
<1>1. PICK v \in Writers : v # w
  BY OtherWriter
<1>2. /\ UNCHANGED <<dsn, queue, isRunning, enqueued, closedAt, exited>>
      /\ pc[w] = "writing" /\ Behind(w) /\ NoBatch(w)
      /\ mem' = Buffered(batch[w])
      /\ db' = db \/ (Inserting(w) /\ db' = Inserted(Current(w)))
  BY DEF WriteFails, hostVars
<1>3. ~exited /\ pool # "none"
  BY <1>2, Constants DEF Data, Phases, TypeOK
<1>4. w = "worker" => pc.worker # "none" /\ cancelled' = cancelled
  BY <1>2 DEF Behind
<1>5. /\ pc' \in PcSet /\ pc'[v] = pc[v] /\ pc'[w] # "writing"
      /\ cancelled' \in BOOLEAN /\ pool' \in {"none", "open", "closed"}
      /\ pool' = "none" <=> pool = "none"
      /\ pc'.closer = "idle" => pc.closer = "idle"
      /\ Phases'
  BY <1>1, <1>2, <1>3, <1>4, BehindFacts DEF Data
<1>6. /\ batch' \in [Writers -> Seq(Events)] /\ next' \in [Writers -> 1 .. MaxEvents + 1]
      /\ Cleared(w) /\ batch'[v] = batch[v] /\ next'[v] = next[v]
      /\ \A u \in Writers : u = w \/ u = v
  BY <1>1, <1>2, NoBatchTypes
<1>7. Kept(v)
  BY <1>5, <1>6 DEF Kept
<1>8. QueueIsTail' /\ Taken' = Taken /\ Taken \in Nat
  BY <1>2, QueueKept, TakenIsNumber DEF Data
<1>9. BatchesApart'
  BY <1>6, <1>7, <1>8, BatchesShrink DEF Data, Shrinks
<1>10. /\ RowsOnce' /\ db' \in Seq(Events) /\ ToSet(db) \subseteq ToSet(db')
       /\ ToSet(db') \subseteq ToSet(db) \cup ToSet(batch[w])
  BY <1>1, <1>2, <1>5, <1>6, <1>7, <1>8, RowsOfDropped DEF Data
<1>11. /\ BufferOnce' /\ mem' \in Seq(Events)
       /\ ToSet(mem') = ToSet(mem) \cup ToSet(batch[w])
  BY <1>1, <1>2, <1>3, <1>5, <1>6, <1>7, <1>8, BufferFailed DEF Data
<1>12. TypeOK'
  BY <1>2, <1>5, <1>6, <1>10, <1>11 DEF TypeOK, PcSet
<1>13. Accounts
  <2>1. ToSet(batch[w]) \subseteq Held
    BY Constants DEF Held
  <2>2. Held' \subseteq Held /\ \A e \in Held : e \in Held' \/ e \in ToSet(batch[w])
    BY <1>2, <1>6, Constants, EmptyFacts DEF Held, Cleared
  <2> QED  BY <1>2, <1>10, <1>11, <2>1, <2>2 DEF Accounts, Written
<1> QED  BY <1>5, <1>8, <1>9, <1>10, <1>11, <1>12, <1>13 DEF Data

LEMMA CancelStep ==
  ASSUME TypeOK, Data, WorkerCancelled
  PROVE  TypeOK' /\ Data' /\ Accounts
<1>1. "worker" \in Writers /\ "closer" \in Writers /\ \A u \in Writers : u \in {"worker", "closer"}
  BY Constants
<1>2. /\ UNCHANGED <<dsn, queue, isRunning, pool, mem, cancelled, enqueued, closedAt, exited>>
      /\ cancelled /\ NoBatch("worker") /\ pc' = [pc EXCEPT !.worker = "done"]
      /\ pc.worker \in {"new", "sleeping", "writing"}
      /\ db' = db \/ (Inserting("worker") /\ db' = Inserted(Current("worker")))
  BY DEF WorkerCancelled, hostVars
<1>3. pc \in PcSet
  BY DEF TypeOK, PcSet
<1>4. /\ pc' \in PcSet /\ pc'.worker = "done" /\ pc'.closer = pc.closer
      /\ pc'.init = pc.init
  BY <1>2, <1>3 DEF PcSet
<1>5. /\ batch' \in [Writers -> Seq(Events)] /\ next' \in [Writers -> 1 .. MaxEvents + 1]
      /\ Cleared("worker") /\ batch'["closer"] = batch["closer"]
      /\ next'["closer"] = next["closer"]
  BY <1>1, <1>2, NoBatchTypes
<1>6. Kept("closer") /\ \A u \in Writers : Kept(u) \/ Cleared(u)
  <2>1. Kept("closer")
    BY <1>4, <1>5 DEF Kept
  <2> QED  BY <1>1, <1>5, <2>1
<1>7. QueueIsTail' /\ Taken' = Taken /\ Taken \in Nat
  BY <1>2, QueueKept, TakenIsNumber DEF Data
<1>8. BatchesApart'
  BY <1>6, <1>7, BatchesShrink DEF Data, Shrinks
<1>9. /\ RowsOnce' /\ db' \in Seq(Events) /\ ToSet(db) \subseteq ToSet(db')
      /\ ToSet(db') \subseteq ToSet(db) \cup ToSet(batch["worker"])
  BY <1>1, <1>2, <1>4, <1>5, <1>6, <1>7, RowsOfDropped DEF Data
<1>10. BufferOnce'
  BY <1>2, <1>6, <1>7, BufferKept DEF Data, Shrinks
<1>11. TypeOK'
  BY <1>2, <1>4, <1>5, <1>9 DEF TypeOK, PcSet
<1>12. Phases'
  <2>1. /\ pc.init = "done" /\ pc.closer \in {"closing", "done"}
        /\ pool = "none" => pc.closer # "writing"
        /\ exited => \A t \in DOMAIN pc : pc[t] = "done"
    BY <1>1, <1>2 DEF Data, Phases
  <2>2. ~exited
    BY <1>2, <1>3, <2>1 DEF PcSet
  <2> QED  BY <1>1, <1>2, <1>4, <2>1, <2>2 DEF Phases
<1>13. Accounts
  <2>1. Held' \subseteq Held /\ \A e \in Held : e \in Held' \/ e \in ToSet(batch["worker"])
    BY <1>2, <1>5, EmptyFacts DEF Held, Cleared
  <2>2. ToSet(batch["worker"]) \subseteq Held
    BY DEF Held
  <2> QED  BY <1>2, <1>4, <1>9, <2>1, <2>2 DEF Accounts, Written
<1> QED  BY <1>7, <1>8, <1>9, <1>10, <1>11, <1>12, <1>13 DEF Data
LEMMA FlushStep ==
  ASSUME TypeOK, Data, Flush
  PROVE  TypeOK' /\ Data' /\ Accounts
<1>1. "worker" \in Writers /\ "closer" \in Writers /\ \A u \in Writers : u \in {"worker", "closer"}
  BY Constants
<1>2. /\ UNCHANGED <<dsn, isRunning, pool, db, next, cancelled, enqueued, closedAt, exited>>
      /\ pc.worker \in {"new", "sleeping"} /\ queue' = Left
  BY DEF Flush, AtLoopTop, hostVars
<1>3. PICK k \in 0 .. Len(queue) :
         /\ k <= BatchSize
         /\ Collected = SubSeq(queue, 1, k) /\ queue' = SubSeq(queue, k + 1, Len(queue))
  BY <1>2, FlushTakes
<1>4. /\ QueueIsTail' /\ Taken' = Taken + k /\ Taken \in Nat /\ Taken' \in Nat
      /\ Taken <= Taken' /\ k \in Nat
  BY <1>2, <1>3, QueueTaken, TakenIsNumber DEF Data
<1>5. /\ ToSet(Collected) = Taken + 1 .. Taken + k /\ Collected \in Seq(Events)
      /\ queue' \in Seq(Events) /\ ToSet(queue') = Taken + k + 1 .. enqueued
  BY <1>3, TakeOff DEF Data
<1>6. ToSet(queue) = Taken + 1 .. enqueued
  <2>1. Len(queue) \in 0 .. Len(queue) /\ SubSeq(queue, 1, Len(queue)) = queue
    BY TakesAll
  <2>2. ToSet(SubSeq(queue, 1, Len(queue))) = Taken + 1 .. Taken + Len(queue)
    BY <2>1, TakeOff DEF Data
  <2> QED  BY <2>1, <2>2, TakenIsNumber DEF Data
<1>7. ToSet(queue) = ToSet(Collected) \cup ToSet(queue')
  <2>1. enqueued = Taken + Len(queue) /\ Len(queue) \in Nat
    BY TakenIsNumber DEF Data
  <2> QED  BY <1>3, <1>4, <1>5, <1>6, <2>1
<1>8. /\ pc \in PcSet /\ pc["worker"] # "writing" /\ batch["worker"] = <<>>
      /\ pc.init = "done" /\ ~exited
      /\ cancelled => pc.closer \in {"closing", "done"}
      /\ pool = "none" => pc.closer # "writing"
  <2>1. pc \in PcSet /\ pc["worker"] # "writing"
    BY <1>2 DEF TypeOK, PcSet
  <2> QED  BY <1>1, <1>2, <2>1 DEF PcSet, Data, Phases, BatchesApart
<1>9. CASE Collected # <<>> /\ pool # "none"
  <2>1. /\ batch' = [batch EXCEPT !["worker"] = Collected] /\ mem' = mem
        /\ pc' = [pc EXCEPT !.worker = "writing"]
    BY <1>9 DEF Flush
  <2>2. pc' \in PcSet /\ pc'.worker = "writing" /\ pc'.closer = pc.closer /\ pc'.init = pc.init
    BY <1>8, <2>1 DEF PcSet
  <2>3. batch' \in [Writers -> Seq(Events)] /\ batch'["worker"] = Collected
        /\ batch'["closer"] = batch["closer"]
    BY <1>1, <1>5, <2>1 DEF TypeOK
  <2>4. Takes("worker", k) /\ Kept("closer")
    BY <1>2, <1>3, <1>8, <2>2, <2>3 DEF Takes, Kept
  <2>5. TypeOK'
    BY <1>2, <1>5, <2>1, <2>2, <2>3 DEF TypeOK, PcSet
  <2>6. BatchesApart'
    BY <1>1, <1>4, <2>4, BatchTaken DEF Data
  <2>7. RowsOnce'
    BY <1>1, <1>2, <1>4, <2>2, <2>4, RowsBehindBatch DEF Data
  <2>8. BufferOnce'
    BY <1>1, <1>2, <1>4, <1>9, <2>1, <2>4, BufferBehindBatch DEF Data
  <2>9. Phases'
    BY <1>1, <1>2, <1>8, <1>9, <2>2 DEF Phases
  <2>10. Written' = Written
    BY <1>2, <2>1 DEF Written
  <2>11. Held' = Held
    BY <1>7, <1>8, <2>3, EmptyFacts DEF Held
  <2> QED  BY <1>2, <1>4, <2>5, <2>6, <2>7, <2>8, <2>9, <2>10, <2>11 DEF Data, Accounts
<1>10. CASE ~(Collected # <<>> /\ pool # "none")
  <2>1. batch' = batch /\ mem' = Buffered(Collected) /\ pc' = [pc EXCEPT !.worker = "sleeping"]
    BY <1>10 DEF Flush
  <2>2. pc' \in PcSet /\ pc'.worker = "sleeping" /\ pc'.closer = pc.closer /\ pc'.init = pc.init
    BY <1>8, <2>1 DEF PcSet
  <2>3. Kept("worker") /\ Kept("closer")
    BY <1>2, <1>8, <2>1, <2>2 DEF Kept
  <2>4. \A u \in Writers : Kept(u)
    BY <1>1, <2>3
  <2>5. /\ BufferOnce' /\ mem' \in Seq(Events)
        /\ ToSet(mem') = ToSet(mem) \cup (Taken + 1 .. Taken + k)
    BY <1>2, <1>3, <1>4, <2>1, <2>4, BufferTook DEF Data, Shrinks
  <2>6. TypeOK'
    BY <1>2, <1>5, <2>1, <2>2, <2>5 DEF TypeOK, PcSet
  <2>7. BatchesApart'
    BY <1>4, <2>4, BatchesShrink DEF Data, Shrinks
  <2>8. RowsOnce'
    BY <1>2, <1>4, <2>2, <2>4, RowsKept DEF Data
  <2>9. Phases'
    BY <1>1, <1>2, <1>8, <2>2 DEF Phases
  <2>10. Written' = Written \cup ToSet(Collected)
    BY <1>2, <1>5, <2>5 DEF Written
  <2>11. Held = Held' \cup ToSet(Collected)
    BY <1>7, <2>1 DEF Held
  <2> QED  BY <1>2, <1>4, <2>5, <2>6, <2>7, <2>8, <2>9, <2>10, <2>11 DEF Data, Accounts
<1> QED  BY <1>9, <1>10

LEMMA AcloseStep ==
  ASSUME TypeOK, Data, Aclose
  PROVE  TypeOK' /\ Data' /\ Accounts
<1>1. "worker" \in Writers /\ "closer" \in Writers /\ \A u \in Writers : u \in {"worker", "closer"}
  BY Constants
<1>2. /\ UNCHANGED <<dsn, db, next, enqueued, exited>> /\ isRunning' = FALSE
      /\ closedAt' = enqueued /\ queue' = <<>> /\ pc.closer = "idle"
  BY DEF Aclose
<1> DEFINE k == Len(queue)
<1>3. /\ k \in 0 .. Len(queue) /\ SubSeq(queue, 1, k) = queue
      /\ SubSeq(queue, k + 1, Len(queue)) = <<>>
  BY TakesAll
<1>4. k \in Nat /\ Taken \in Nat /\ enqueued = Taken + k
  BY TakenIsNumber DEF Data
<1>5. QueueIsTail' /\ Taken' = Taken + k
  BY <1>2, <1>3, QueueTaken DEF Data
<1>6. ToSet(queue) = Taken + 1 .. Taken + k
  BY <1>3, TakeOff DEF Data
<1>7. /\ pc \in PcSet /\ batch["closer"] = <<>> /\ ~exited /\ ~cancelled
      /\ pc.worker # "none" => pc.init = "done"
      /\ pool = "none" => pc.worker # "writing"
  BY <1>1, <1>2 DEF TypeOK, PcSet, Data, Phases, BatchesApart
<1>8. queue \in Seq(Events) /\ closedAt' \in 0 .. MaxEvents /\ <<>> \in Seq(Events)
  BY <1>2, EmptyFacts DEF TypeOK
<1> HIDE DEF k
<1>9. CASE queue # <<>> /\ pool # "none"
  <2>1. /\ batch' = [batch EXCEPT !["closer"] = queue] /\ UNCHANGED <<mem, pool, cancelled>>
        /\ pc' = [pc EXCEPT !.closer = "writing"]
    BY <1>9 DEF Aclose
  <2>2. pc' \in PcSet /\ pc'.closer = "writing" /\ pc'.worker = pc.worker /\ pc'.init = pc.init
    BY <1>7, <2>1 DEF PcSet
  <2>3. batch' \in [Writers -> Seq(Events)] /\ batch'["closer"] = queue
        /\ batch'["worker"] = batch["worker"]
    BY <1>1, <1>8, <2>1 DEF TypeOK
  <2>4. Takes("closer", k) /\ Kept("worker")
    BY <1>2, <1>3, <1>7, <2>2, <2>3 DEF Takes, Kept
  <2>5. TypeOK'
    BY <1>2, <1>8, <2>1, <2>2, <2>3 DEF TypeOK, PcSet
  <2>6. BatchesApart'
    BY <1>1, <1>5, <2>4, BatchTaken DEF Data
  <2>7. RowsOnce'
    BY <1>1, <1>2, <1>5, <2>2, <2>4, RowsBehindBatch DEF Data
  <2>8. BufferOnce'
    BY <1>1, <1>5, <1>9, <2>1, <2>4, BufferBehindBatch DEF Data
  <2>9. Phases'
    BY <1>1, <1>2, <1>7, <1>9, <2>1, <2>2 DEF Phases
  <2>10. Written' = Written
    BY <1>2, <2>1 DEF Written
  <2>11. Held' = Held
    BY <1>2, <1>7, <2>3, EmptyFacts DEF Held
  <2> QED  BY <1>2, <1>5, <2>5, <2>6, <2>7, <2>8, <2>9, <2>10, <2>11 DEF Data, Accounts
<1>10. CASE ~(queue # <<>> /\ pool # "none")
  <2>1. batch' = batch /\ mem' = Buffered(queue) /\ Behind("closer")
    BY <1>10 DEF Aclose
  <2>2. /\ pc' \in PcSet /\ pc'["worker"] = pc["worker"] /\ pc'["closer"] # "writing"
        /\ cancelled' \in BOOLEAN /\ pool' \in {"none", "open", "closed"}
        /\ pool' = "none" <=> pool = "none"
        /\ pc'.closer = "idle" => pc.closer = "idle"
        /\ Phases'
    BY <1>1, <1>2, <1>7, <2>1, BehindFacts DEF Data
  <2>3. Kept("worker") /\ Kept("closer")
    BY <1>2, <2>1, <2>2 DEF Kept
  <2>4. \A u \in Writers : Kept(u)
    BY <1>1, <2>3
  <2>5. /\ BufferOnce' /\ mem' \in Seq(Events)
        /\ ToSet(mem') = ToSet(mem) \cup (Taken + 1 .. Taken + k)
    BY <1>3, <1>5, <2>1, <2>2, <2>4, BufferTook DEF Data, Shrinks
  <2>6. TypeOK'
    BY <1>2, <1>8, <2>1, <2>2, <2>5 DEF TypeOK, PcSet
  <2>7. BatchesApart'
    BY <1>4, <1>5, <2>4, BatchesShrink DEF Data, Shrinks
  <2>8. RowsOnce'
    BY <1>2, <1>4, <1>5, <2>2, <2>4, RowsKept DEF Data
  <2>9. Written' = Written \cup ToSet(queue)
    BY <1>2, <1>6, <2>5 DEF Written
  <2>10. Held = Held' \cup ToSet(queue)
    BY <1>2, <2>1, EmptyFacts DEF Held
  <2> QED  BY <1>2, <1>5, <2>2, <2>5, <2>6, <2>7, <2>8, <2>9, <2>10 DEF Data, Accounts
<1> QED  BY <1>9, <1>10

LEMMA ExitStep ==
  ASSUME TypeOK, Data, Exit
  PROVE  TypeOK' /\ Data' /\ Accounts
<1>1. /\ UNCHANGED <<dsn, isRunning, pool, db, cancelled, enqueued, closedAt>>
      /\ exited' = TRUE /\ mem' = Buffered(queue) /\ queue' = <<>>
      /\ pc' = [init |-> "done", worker |-> "done", closer |-> "done"]
      /\ batch' = [w \in Writers |-> <<>>] /\ next' = [w \in Writers |-> 1]
  BY DEF Exit
<1> DEFINE k == Len(queue)
<1>2. /\ k \in 0 .. Len(queue) /\ SubSeq(queue, 1, k) = queue
      /\ SubSeq(queue, k + 1, Len(queue)) = <<>>
  BY TakesAll
<1>3. k \in Nat /\ Taken \in Nat /\ enqueued = Taken + k
  BY TakenIsNumber DEF Data
<1>4. QueueIsTail' /\ Taken' = Taken + k
  BY <1>1, <1>2, QueueTaken DEF Data
<1>5. ToSet(queue) = Taken + 1 .. Taken + k
  BY <1>2, TakeOff DEF Data
<1>6. \A u \in Writers : Cleared(u)
  BY <1>1 DEF Cleared
<1> HIDE DEF k
<1>7. /\ BufferOnce' /\ mem' \in Seq(Events)
      /\ ToSet(mem') = ToSet(mem) \cup (Taken + 1 .. Taken + k)
  BY <1>1, <1>2, <1>4, <1>6, BufferTook DEF Data, Shrinks
<1>8. TypeOK'
  <2>1. 1 \in 1 .. MaxEvents + 1 /\ <<>> \in Seq(Events)
    BY Constants, EmptyFacts
  <2> QED  BY <1>1, <1>7, <2>1 DEF TypeOK
<1>9. BatchesApart'
  BY <1>3, <1>4, <1>6, BatchesShrink DEF Data, Shrinks
<1>10. RowsOnce'
  BY <1>1, <1>3, <1>4, <1>6, RowsKept DEF Data
<1>11. Phases'
  BY <1>1, Constants DEF Phases, Data
<1>12. Written' = Written \cup ToSet(queue)
  BY <1>1, <1>5, <1>7 DEF Written
<1>13. Held' \subseteq Held /\ ToSet(queue) \subseteq Held
  BY <1>1, EmptyFacts, Constants DEF Held
<1> QED  BY <1>1, <1>4, <1>7, <1>8, <1>9, <1>10, <1>11, <1>12, <1>13 DEF Data, Accounts
LEMMA DataStep ==
  ASSUME TypeOK, Data, Next, ~EnqueueEvent
  PROVE  TypeOK' /\ Data' /\ Accounts
<1>1. ASSUME NEW w \in Writers, WriteSteps(w)
      PROVE  TypeOK' /\ Data' /\ Accounts
  BY <1>1, InsertStep, ReturnStep, FailStep DEF WriteSteps
<1>2. CASE InitSteps
  BY <1>2, QuietStep DEF InitSteps
<1>3. CASE WorkerSteps
  BY <1>1, <1>3, QuietStep, FlushStep, CancelStep, Constants DEF WorkerSteps
<1>4. CASE CloserSteps
  BY <1>1, <1>4, QuietStep, Constants DEF CloserSteps
<1>5. CASE Initialize \/ Aclose \/ Exit
  BY <1>5, QuietStep, AcloseStep, ExitStep
<1> QED  BY <1>2, <1>3, <1>4, <1>5 DEF Next

\* Neither a cancelled worker nor a process that has ended comes back.
LEMMA StopStep ==
  ASSUME TypeOK, Phases, Next
  PROVE  /\ cancelled => cancelled'
         /\ exited => exited'
         /\ cancelled /\ pc.worker = "done" => pc'.worker = "done"
<1>1. /\ pc \in PcSet
      /\ pc.worker # "none" => pc.init = "done"
      /\ cancelled => pc.worker # "none" /\ pc.closer \in {"closing", "done"}
      /\ exited => pc.init = "done" /\ pc.worker = "done" /\ pc.closer = "done"
  BY DEF TypeOK, PcSet, Phases
<1> DEFINE Goal == /\ cancelled => cancelled'
                   /\ exited => exited'
                   /\ cancelled /\ pc.worker = "done" => pc'.worker = "done"
<1>2. ASSUME NEW w \in Writers, WriteSteps(w) PROVE Goal
  <2>1. CASE Insert(w)
    BY <2>1 DEF Insert, hostVars
  <2>2. CASE Behind(w) /\ pc[w] = "writing" /\ exited' = exited
    <3>1. CASE w = "worker"
      BY <1>1, <2>2, <3>1 DEF Behind
    <3>2. CASE w = "closer"
      BY <1>1, <2>2, <3>2 DEF Behind
    <3> QED  BY <3>1, <3>2, Constants
  <2>3. CASE WriteReturns(w)
    BY <2>2, <2>3 DEF WriteReturns, hostVars
  <2>4. CASE WriteFails(w)
    BY <2>2, <2>4 DEF WriteFails, hostVars
  <2> QED  BY <1>2, <2>1, <2>3, <2>4 DEF WriteSteps
<1>3. CASE EnqueueEvent \/ Initialize
  BY <1>1, <1>3 DEF EnqueueEvent, Initialize, writeVars, hostVars
<1>4. CASE Aclose
  BY <1>1, <1>4 DEF Aclose
<1>5. CASE Exit
  BY <1>5 DEF Exit
<1>6. CASE InitSteps
  <2>1. /\ UNCHANGED <<cancelled, exited>> /\ pc.init # "done"
    BY <1>6 DEF InitSteps, PoolCreated, InitializeReturns, writeVars, hostVars
  <2> QED  BY <1>1, <2>1
<1>7. CASE Flush
  <2>1. UNCHANGED <<cancelled, exited>> /\ pc.worker # "done"
    BY <1>7 DEF Flush, AtLoopTop, hostVars
  <2> QED  BY <2>1
<1>8. CASE WorkerReturns
  BY <1>1, <1>8 DEF WorkerReturns, writeVars, hostVars, PcSet
<1>9. CASE WorkerCancelled
  BY <1>1, <1>9 DEF WorkerCancelled, hostVars, PcSet
<1>10. CASE AcloseReturns
  BY <1>1, <1>10 DEF AcloseReturns, writeVars, hostVars, PcSet
<1> QED
  BY <1>2, <1>3, <1>4, <1>5, <1>6, <1>7, <1>8, <1>9, <1>10, Constants
  DEF Next, WorkerSteps, CloserSteps

\* A batch has no more events than entries.
LEMMA BatchIsSmall ==
  ASSUME TypeOK, NEW w \in Writers
  PROVE  /\ IsFiniteSet(ToSet(batch[w]))
         /\ Cardinality(ToSet(batch[w])) \in Nat
         /\ Cardinality(ToSet(batch[w])) <= Len(batch[w])
<1> DEFINE n == Len(batch[w])
<1>1. /\ batch[w] \in Seq(Events) /\ n \in Nat /\ DOMAIN batch[w] = 1 .. n
      /\ ToSet(batch[w]) = {batch[w][i] : i \in 1 .. n}
  BY BatchFacts
<1>2. batch[w] \in [1 .. n -> ToSet(batch[w])]
  BY <1>1, LenProperties
<1>3. batch[w] \in Surjection(1 .. n, ToSet(batch[w]))
  BY <1>1, <1>2 DEF Surjection
<1>4. IsFiniteSet(1 .. n) /\ Cardinality(1 .. n) = n
  <2> HIDE DEF n
  <2>1. Cardinality(1 .. n) = IF 1 > n THEN 0 ELSE n - 1 + 1
    <3>1. n \in Int /\ 1 \in Int
      BY <1>1
    <3> QED  BY <3>1, FS_Interval, Zenon
  <2>2. n = 0 \/ ~(1 > n)
    BY <1>1
  <2>3. IsFiniteSet(1 .. n)
    BY <1>1, FS_Interval
  <2> QED  BY <1>1, <2>1, <2>2, <2>3
<1> QED  BY <1>3, <1>4, FS_Surjection, FS_CardinalityType

LEMMA LossStep ==
  ASSUME TypeOK, Data, LossIsOneCancelledBatch, Next
  PROVE  LossIsOneCancelledBatch'
<1> SUFFICES ASSUME ~exited', Lost' # {}
             PROVE  /\ cancelled' /\ pc'.worker = "done"
                    /\ Cardinality(Lost') <= BatchSize
  BY DEF LossIsOneCancelledBatch
<1>1. /\ cancelled => cancelled'
      /\ ~exited
      /\ cancelled /\ pc.worker = "done" => pc'.worker = "done"
  BY StopStep DEF Data
<1>l. /\ Lost = {e \in 1 .. enqueued : HasTable(e)} \ (Written \cup Held)
      /\ Lost' = {e \in 1 .. enqueued' : HasTable(e)} \ (Written' \cup Held')
  BY <1>1 DEF Lost, Stored, Remembered, Written, HasTable
<1>2. IsFiniteSet(Lost) /\ Cardinality(Lost) \in Nat
  <2>1. IsFiniteSet(1 .. enqueued) /\ Lost \in SUBSET (1 .. enqueued)
    BY FS_Interval, TakenIsNumber DEF Data, Lost
  <2> QED  BY <2>1, FS_Subset, FS_CardinalityType
<1>3. Lost # {} => /\ cancelled /\ pc.worker = "done" /\ batch["worker"] = <<>>
                   /\ Cardinality(Lost) <= BatchSize
  BY <1>1, Constants DEF LossIsOneCancelledBatch, Data, BatchesApart
<1>4. CASE Lost' \subseteq Lost
  <2>1. Lost # {} /\ Cardinality(Lost') <= Cardinality(Lost) /\ Cardinality(Lost') \in Nat
    BY <1>2, <1>4, FS_Subset, FS_CardinalityType
  <2> QED  BY <1>1, <1>2, <1>3, <2>1, Constants
<1>5. CASE EnqueueEvent
  <2>1. /\ Written' = Written /\ Held' = Held \cup {enqueued + 1}
        /\ enqueued' = enqueued + 1 /\ enqueued \in Nat
    BY <1>5, EnqueueStep, TakenIsNumber DEF EnqueueEvent, Data
  <2>2. Lost' \subseteq Lost
    BY <1>l, <2>1
  <2> QED  BY <1>4, <2>2
<1>6. CASE Accounts
  <2>1. \A e \in Lost' : \/ e \in Lost
                         \/ cancelled /\ pc'.worker = "done" /\ e \in ToSet(batch["worker"])
    BY <1>l, <1>6 DEF Accounts
  <2>2. CASE Lost # {}
    <3>1. Lost' \subseteq Lost
      BY <1>3, <2>1, <2>2, EmptyFacts
    <3> QED  BY <1>4, <3>1
  <2>3. CASE Lost = {}
    <3>1. Lost' \in SUBSET ToSet(batch["worker"]) /\ cancelled /\ pc'.worker = "done"
      BY <2>1, <2>3
    <3>2. /\ Cardinality(Lost') <= Cardinality(ToSet(batch["worker"]))
          /\ IsFiniteSet(Lost')
      BY <3>1, BatchIsSmall, FS_Subset, Constants
    <3>3. /\ Cardinality(ToSet(batch["worker"])) \in Nat
          /\ Cardinality(ToSet(batch["worker"])) <= Len(batch["worker"])
          /\ Len(batch["worker"]) <= BatchSize /\ Len(batch["worker"]) \in Nat
      BY BatchIsSmall, BatchFacts, Constants DEF Data, BatchesApart
    <3>4. Cardinality(Lost') \in Nat
      BY <3>2, FS_CardinalityType
    <3>5. Cardinality(Lost') <= BatchSize
      BY <3>2, <3>3, <3>4, Constants
    <3> QED  BY <1>1, <3>1, <3>5
  <2> QED  BY <2>2, <2>3
<1> QED  BY <1>5, <1>6, DataStep

\* The data move as they should, and no more is lost than the batch of a
\* cancelled worker.
THEOREM Invariance == Spec => []IndInv
<1>1. Init => IndInv
  <2> SUFFICES ASSUME Init PROVE IndInv
    OBVIOUS
  <2>1. TypeOK
    <3>1. /\ <<>> \in Seq(Events) /\ 1 \in 1 .. MaxEvents + 1 /\ 0 \in 0 .. MaxEvents
      BY Constants, EmptyFacts
    <3>2. /\ batch \in [Writers -> Seq(Events)] /\ next \in [Writers -> 1 .. MaxEvents + 1]
      BY <3>1 DEF Init
    <3> QED  BY <3>1, <3>2 DEF Init, TypeOK
  <2>2. Taken = 0 /\ \A w \in Writers : batch[w] = <<>> /\ next[w] = 1
    <3>1. enqueued = 0 /\ Len(queue) = 0
      BY EmptyFacts DEF Init
    <3>2. Taken = 0
      BY <3>1 DEF Taken
    <3> QED  BY <3>2 DEF Init
  <2>3. \A w \in Writers : Ahead(w) = {}
    <3>1. \A i \in 1 .. Len(<<>>) : FALSE
      BY EmptyFacts
    <3> QED  BY <2>2, <3>1 DEF Ahead
  <2>4. QueueIsTail
    BY <2>2, EmptyFacts DEF Init, QueueIsTail
  <2>5. BatchesApart
    BY <2>2, EmptyFacts, Constants DEF BatchesApart
  <2>6. RowsOnce
    BY <2>2, <2>3, EmptyFacts DEF Init, RowsOnce
  <2>7. [e \in 1 .. 0 |-> e] = <<>>
    OBVIOUS
  <2>8. BufferOnce
    BY <2>2, <2>7, EmptyFacts DEF Init, BufferOnce
  <2>9. Phases
    BY Constants DEF Init, Phases
  <2>10. Lost = {}
    BY DEF Init, Lost
  <2> QED
    BY <2>1, <2>4, <2>5, <2>6, <2>8, <2>9, <2>10
    DEF IndInv, Data, LossIsOneCancelledBatch
<1>2. IndInv /\ [Next]_vars => IndInv'
  <2>1. ASSUME IndInv, Next PROVE IndInv'
    <3>1. TypeOK' /\ Data'
      BY <2>1, DataStep, EnqueueStep DEF IndInv
    <3> QED  BY <2>1, <3>1, LossStep DEF IndInv
  <2>2. ASSUME IndInv, UNCHANGED vars PROVE IndInv'
    <3> USE <2>2 DEF vars, sinkVars, writeVars, hostVars
    <3>1. TypeOK' /\ QueueIsTail'
      BY DEF IndInv, Data, TypeOK, QueueIsTail, Taken
    <3>2. BatchesApart' /\ RowsOnce' /\ BufferOnce' /\ Phases'
      BY DEF IndInv, Data, BatchesApart, RowsOnce, BufferOnce, Phases, Ahead, Taken
    <3>3. LossIsOneCancelledBatch'
      BY DEF IndInv, LossIsOneCancelledBatch, Lost, Stored, Remembered, Held
    <3> QED  BY <3>1, <3>2, <3>3 DEF IndInv, Data
  <2> QED  BY <2>1, <2>2
<1> QED  BY <1>1, <1>2, PTL DEF Spec
\* Queue, batches, buffers and counters stay in their sets.
THEOREM TypeCorrect == Spec => []TypeOK
<1>1. IndInv => TypeOK
  BY DEF IndInv
<1> QED  BY <1>1, Invariance, PTL

\* Whatever fails, only one batch is ever lost, the one that aclose cancelled.
THEOREM LossBounded == Spec => []LossIsOneCancelledBatch
<1>1. IndInv => LossIsOneCancelledBatch
  BY DEF IndInv
<1> QED  BY <1>1, Invariance, PTL

-----------------------------------------------------------------------------
(* Late rows *)

\* The rows that are late, and those with which the worker may yet be late.
LateAtMost == LateRows \cup {e \in Ahead("worker") : e <= closedAt}

\* What aclose writes is newer than everything it found before it.
CloserIsBehind ==
    \A e \in ToSet(db) \cup Ahead("worker"), f \in Ahead("closer") :
        e <= closedAt => e < f

LateInv ==
    /\ closedAt <= Taken
    /\ CloserIsBehind
    /\ Cardinality(LateAtMost) <= BatchSize

LEMMA LateFacts ==
  ASSUME TypeOK
  PROVE  /\ LateRows \in SUBSET Events
         /\ \A w \in Writers : Ahead(w) \in SUBSET Events
         /\ IsFiniteSet(LateAtMost) /\ Cardinality(LateAtMost) \in Nat
         /\ closedAt \in Nat /\ \A e \in Events : e \in Int
<1>1. \A w \in Writers : Ahead(w) \in SUBSET Events
  BY BatchFacts
<1>2. LateRows \in SUBSET Events
  BY RowFacts DEF LateRows, ToSet
<1>3. IsFiniteSet(Events) /\ closedAt \in Nat /\ \A e \in Events : e \in Int
  BY FS_Interval, Constants DEF TypeOK
<1>4. LateAtMost \in SUBSET Events
  BY <1>1, <1>2, Constants DEF LateAtMost
<1> QED  BY <1>1, <1>2, <1>3, <1>4, FS_Subset, FS_CardinalityType

LEMMA FewStayFew ==
  ASSUME TypeOK, LateInv, NEW S \in SUBSET LateAtMost
  PROVE  Cardinality(S) <= BatchSize
<1>1. IsFiniteSet(S) /\ Cardinality(S) <= Cardinality(LateAtMost)
  BY LateFacts, FS_Subset
<1>2. Cardinality(S) \in Nat /\ Cardinality(LateAtMost) \in Nat
  BY <1>1, LateFacts, FS_CardinalityType
<1> QED  BY <1>1, <1>2, Constants DEF LateInv

\* A step that writes no row; the worker may take a batch of newer events.
LEMMA LateKept ==
  ASSUME TypeOK, LateInv, db' = db, closedAt' = closedAt,
         Taken \in Nat, Taken' \in Nat, Taken <= Taken',
         Ahead("closer")' \subseteq Ahead("closer"),
         \A e \in Ahead("worker")' : e \in Ahead("worker") \/ ~(e <= closedAt)
  PROVE  LateInv'
<1>1. LateRows' = LateRows
  BY DEF LateRows
<1>2. LateAtMost' \subseteq LateAtMost
  BY <1>1 DEF LateAtMost
<1>3. CloserIsBehind'
  BY DEF CloserIsBehind, LateInv
<1>4. closedAt' <= Taken'
  BY LateFacts DEF LateInv
<1> QED  BY <1>2, <1>3, <1>4, FewStayFew DEF LateInv

\* A row at the end makes no other row late.
LEMMA RowAtTheEnd ==
  ASSUME TypeOK, NEW c \in Events, db' = Append(db, c), closedAt' = closedAt
  PROVE  \A e \in LateRows' : \/ e \in LateRows
                              \/ e = c /\ \E f \in ToSet(db) : c < f /\ f <= closedAt
<1>1. /\ DOMAIN db = 1 .. Len(db) /\ Len(db) \in Nat
      /\ DOMAIN db' = 1 .. Len(db) + 1
      /\ \A i \in 1 .. Len(db) : db'[i] = db[i]
      /\ db'[Len(db) + 1] = c
  BY RowFacts, AppendProperties, LenProperties
<1> SUFFICES ASSUME NEW e \in LateRows'
             PROVE  \/ e \in LateRows
                    \/ e = c /\ \E f \in ToSet(db) : c < f /\ f <= closedAt
  OBVIOUS
<1>2. PICK k \in 1 .. Len(db) + 1 :
         /\ e = db'[k]
         /\ \E i \in 1 .. k - 1 : db'[k] < db'[i] /\ db'[i] <= closedAt
  BY <1>1 DEF LateRows
<1>3. PICK i \in 1 .. k - 1 : db'[k] < db'[i] /\ db'[i] <= closedAt
  BY <1>2
<1>4. i \in 1 .. Len(db) /\ db'[i] = db[i] /\ db[i] \in ToSet(db)
  <2>1. i \in 1 .. Len(db)
    BY <1>1
  <2> QED  BY <1>1, <2>1 DEF ToSet
<1>5. k \in 1 .. Len(db) \/ k = Len(db) + 1
  BY <1>1
<1>6. CASE k \in 1 .. Len(db)
  <2>1. e = db[k] /\ db[k] < db[i] /\ db[i] <= closedAt
    BY <1>1, <1>2, <1>3, <1>4, <1>6
  <2> QED  BY <1>1, <1>6, <2>1 DEF LateRows
<1>7. CASE k = Len(db) + 1
  BY <1>1, <1>2, <1>3, <1>4, <1>7
<1> QED  BY <1>5, <1>6, <1>7

\* A writer inserts the item at its position.
LEMMA LateInserted ==
  ASSUME TypeOK, BatchesApart, LateInv, closedAt' = closedAt, Taken' = Taken,
         NEW w \in Writers, Inserting(w), db' = Inserted(Current(w)),
         Advanced(w) \/ Cleared(w),
         \A v \in Writers : Ahead(v)' \subseteq Ahead(v)
  PROVE  LateInv'
<1> DEFINE c == Current(w)
<1>1. /\ c \in Events /\ c \in Ahead(w)
      /\ \A f \in Ahead(w)' : c < f
  BY AheadAfter
<1>2. /\ Ahead("worker")' \subseteq Ahead("worker")
      /\ Ahead("closer")' \subseteq Ahead("closer")
  BY Constants
<1>3. LateRows \subseteq LateAtMost /\ closedAt' <= Taken'
  BY DEF LateAtMost, LateInv
<1> HIDE DEF c
<1>4. CASE ~HasTable(c)
  <2>1. db' = db
    BY <1>4 DEF Inserted, c
  <2>2. LateAtMost' \subseteq LateAtMost
    BY <1>2, <2>1 DEF LateAtMost, LateRows
  <2>3. CloserIsBehind'
    BY <1>2, <2>1 DEF CloserIsBehind, LateInv
  <2> QED  BY <1>3, <2>2, <2>3, FewStayFew DEF LateInv
<1>5. CASE HasTable(c)
  <2>1. db' = Append(db, c) /\ ToSet(db') = ToSet(db) \cup {c}
    BY <1>1, <1>5, RowFacts, AppendSets DEF Inserted, c
  <2>2. \A e \in LateRows' : \/ e \in LateRows
                             \/ e = c /\ \E f \in ToSet(db) : c < f /\ f <= closedAt
    BY <1>1, <2>1, RowAtTheEnd
  <2>3. (\E f \in ToSet(db) : c < f /\ f <= closedAt) =>
            w = "worker" /\ c <= closedAt
    <3> SUFFICES ASSUME NEW f \in ToSet(db), c < f, f <= closedAt
                 PROVE  w = "worker" /\ c <= closedAt
      OBVIOUS
    <3>1. f \in Int /\ c \in Int /\ closedAt \in Nat
      BY <1>1, LateFacts, RowFacts
    <3>2. w = "closer" => f < c
      BY <1>1 DEF LateInv, CloserIsBehind
    <3> QED  BY <3>1, <3>2, Constants
  <2>4. LateAtMost' \subseteq LateAtMost
    <3>1. \A e \in LateRows' : e \in LateAtMost
      BY <1>1, <2>2, <2>3 DEF LateAtMost
    <3> QED  BY <1>2, <3>1 DEF LateAtMost
  <2>5. CloserIsBehind'
    <3> SUFFICES ASSUME NEW e \in ToSet(db') \cup Ahead("worker")', NEW f \in Ahead("closer")',
                        e <= closedAt
                 PROVE  e < f
      BY DEF CloserIsBehind
    <3>1. CASE e = c
      BY <1>1, <1>2, <3>1, Constants DEF CloserIsBehind, LateInv
    <3>2. CASE e # c
      BY <1>2, <2>1, <3>2 DEF CloserIsBehind, LateInv
    <3> QED  BY <3>1, <3>2
  <2> QED  BY <1>3, <2>4, <2>5, FewStayFew DEF LateInv
<1> QED  BY <1>4, <1>5

\* aclose finds the rows in order, so only the worker's batch can be late.
LEMMA LateFromAclose ==
  ASSUME TypeOK, Data, LateInv, Aclose
  PROVE  LateInv'
<1>1. /\ UNCHANGED <<db, next, enqueued>> /\ closedAt' = enqueued
      /\ queue' = <<>> /\ pc.closer = "idle"
      /\ "worker" \in Writers /\ "closer" \in Writers
  BY Constants DEF Aclose
<1>2. /\ Taken \in Nat /\ enqueued = Taken + Len(queue) /\ Len(queue) \in Nat
      /\ Taken' = enqueued
  <2>1. Taken' = enqueued - 0
    BY <1>1, EmptyFacts DEF Taken
  <2> QED  BY <2>1, TakenIsNumber DEF Data
<1>3. /\ batch["closer"] = <<>> /\ InOrder(db)
      /\ \A e \in ToSet(db) \cup ToSet(batch["worker"]) : e <= Taken /\ e \in Int
  BY <1>1, RowFacts, BatchFacts, Constants DEF Data, BatchesApart, RowsOnce
<1>4. /\ batch'["worker"] = batch["worker"] /\ Ahead("worker")' = Ahead("worker")
      /\ Ahead("worker") \in SUBSET ToSet(batch["worker"])
  <2>1. batch'["worker"] = batch["worker"]
    BY <1>1 DEF Aclose, TypeOK
  <2> QED  BY <1>1, <2>1, BatchFacts DEF Ahead
<1>5. \A f \in Ahead("closer")' : f \in Int /\ Taken < f
  <2>1. CASE batch' = batch
    <3>1. Ahead("closer")' = Ahead("closer")
      BY <1>1, <2>1 DEF Ahead
    <3> QED  BY <1>1, <1>3, <3>1, BatchFacts, EmptyFacts
  <2>2. CASE batch' = [batch EXCEPT !["closer"] = queue] /\ pc' = [pc EXCEPT !.closer = "writing"]
    <3>1. batch'["closer"] = queue /\ pc'["closer"] = "writing"
      <4>1. pc \in PcSet
        BY DEF TypeOK, PcSet
      <4> QED  BY <1>1, <2>2, <4>1 DEF TypeOK, PcSet
    <3>2. Takes("closer", Len(queue))
      BY <1>1, <1>2, <1>3, <3>1, TakesAll DEF Takes
    <3>3. Ahead("closer")' = Taken + 1 .. Taken + Len(queue)
      BY <1>1, <3>2, TakesAhead DEF Data
    <3> QED  BY <1>2, <3>3
  <2> QED  BY <2>1, <2>2 DEF Aclose
<1>6. CloserIsBehind'
  BY <1>1, <1>2, <1>3, <1>4, <1>5 DEF CloserIsBehind
<1>7. LateRows' = {}
  <2>1. \A i, j \in 1 .. Len(db) : i < j => db[i] < db[j]
    BY <1>3, RowFacts, LenProperties DEF InOrder
  <2>2. Len(db) \in Nat /\ DOMAIN db = 1 .. Len(db) /\ \A i \in 1 .. Len(db) : db[i] \in Int
    BY RowFacts, LenProperties, ElementOfSeq, Constants
  <2>3. ASSUME NEW j \in 1 .. Len(db), NEW i \in 1 .. j - 1, db[j] < db[i] PROVE FALSE
    <3>1. i \in 1 .. Len(db) /\ i < j
      BY <2>2
    <3> QED  BY <2>1, <2>2, <2>3, <3>1
  <2> QED  BY <1>1, <2>2, <2>3 DEF LateRows
<1>8. LateAtMost' \in SUBSET ToSet(batch["worker"])
  BY <1>4, <1>7 DEF LateAtMost
<1>9. Cardinality(LateAtMost') <= BatchSize
  <2>1. /\ IsFiniteSet(LateAtMost')
        /\ Cardinality(LateAtMost') <= Cardinality(ToSet(batch["worker"]))
        /\ Cardinality(ToSet(batch["worker"])) \in Nat
        /\ Cardinality(ToSet(batch["worker"])) <= Len(batch["worker"])
    BY <1>1, <1>8, BatchIsSmall, FS_Subset
  <2>2. /\ Cardinality(LateAtMost') \in Nat
        /\ Len(batch["worker"]) <= BatchSize /\ Len(batch["worker"]) \in Nat
    BY <1>1, <2>1, BatchFacts, FS_CardinalityType DEF Data, BatchesApart
  <2> QED  BY <2>1, <2>2, Constants
<1> QED  BY <1>1, <1>2, <1>6, <1>9 DEF LateInv

LEMMA LateStep ==
  ASSUME TypeOK, Data, LateInv, Next
  PROVE  LateInv'
<1>1. "worker" \in Writers /\ "closer" \in Writers /\ Taken \in Nat /\ Len(queue) \in Nat
  BY Constants, TakenIsNumber DEF Data
\* A step with the queue as it was, that at most drops batches.
<1>2. ASSUME UNCHANGED <<queue, enqueued, closedAt, db>>,
             \A w \in Writers : Ahead(w)' \subseteq Ahead(w)
      PROVE  LateInv'
  BY <1>1, <1>2, LateKept, QueueKept DEF Data
<1>3. ASSUME NEW w \in Writers, NEW v \in Writers, v # w,
             UNCHANGED <<queue, enqueued, closedAt>>,
             Advanced(w) \/ Cleared(w),
             batch'[v] = batch[v], next'[v] = next[v],
             db' = db \/ (Inserting(w) /\ db' = Inserted(Current(w)))
      PROVE  LateInv'
  <2>1. Ahead(v)' = Ahead(v)
    BY <1>3 DEF Ahead
  <2>2. Ahead(w)' \subseteq Ahead(w)
    BY <1>3, AheadAfter DEF Data
  <2>3. \A u \in Writers : Ahead(u)' \subseteq Ahead(u)
    BY <1>3, <2>1, <2>2, Constants
  <2>4. CASE db' = db
    BY <1>2, <1>3, <2>3, <2>4
  <2>5. CASE Inserting(w) /\ db' = Inserted(Current(w))
    <3>1. Taken' = Taken
      BY <1>3, QueueKept DEF Data
    <3> QED  BY <1>3, <2>3, <2>5, <3>1, LateInserted DEF Data
  <2> QED  BY <1>3, <2>4, <2>5
<1>4. ASSUME NEW w \in Writers, WriteSteps(w) PROVE LateInv'
  <2>1. PICK v \in Writers : v # w /\ \A u \in Writers : u = w \/ u = v
    BY OtherWriter
  <2>2. CASE Insert(w)
    <3>1. Advanced(w) /\ batch'[v] = batch[v] /\ next'[v] = next[v]
      BY <2>1, <2>2 DEF Insert, Advanced, TypeOK
    <3> QED  BY <1>3, <2>1, <2>2, <3>1 DEF Insert, hostVars
  <2>3. CASE WriteReturns(w) \/ WriteFails(w)
    <3>1. Cleared(w) /\ batch'[v] = batch[v] /\ next'[v] = next[v]
      BY <2>1, <2>3, NoBatchTypes DEF WriteReturns, WriteFails
    <3>2. db' = db \/ (Inserting(w) /\ db' = Inserted(Current(w)))
      BY <2>3 DEF WriteReturns, WriteFails
    <3>3. UNCHANGED <<queue, enqueued, closedAt>>
      BY <2>3 DEF WriteReturns, WriteFails, hostVars
    <3> QED  BY <1>3, <2>1, <3>1, <3>2, <3>3
  <2> QED  BY <1>4, <2>2, <2>3 DEF WriteSteps
<1>5. CASE EnqueueEvent
  <2>1. /\ Taken' = Taken /\ UNCHANGED <<db, closedAt, batch, next>>
    BY <1>5, QueueGrows DEF EnqueueEvent, writeVars, Data
  <2>2. Ahead("worker")' = Ahead("worker") /\ Ahead("closer")' = Ahead("closer")
    BY <2>1 DEF Ahead
  <2> QED  BY <1>1, <2>1, <2>2, LateKept
<1>6. CASE Initialize \/ InitSteps \/ WorkerReturns \/ AcloseReturns
  <2>1. UNCHANGED <<queue, enqueued, closedAt, db, batch, next>>
    BY <1>6 DEF Initialize, InitSteps, PoolCreated, InitializeReturns, WorkerReturns,
       AcloseReturns, sinkVars, writeVars, hostVars
  <2>2. \A w \in Writers : Ahead(w)' = Ahead(w)
    BY <2>1 DEF Ahead
  <2> QED  BY <1>2, <2>1, <2>2
<1>7. CASE WorkerCancelled
  <2>1. /\ Cleared("worker") /\ batch'["closer"] = batch["closer"]
        /\ next'["closer"] = next["closer"]
    BY <1>1, <1>7, NoBatchTypes DEF WorkerCancelled
  <2>2. db' = db \/ (Inserting("worker") /\ db' = Inserted(Current("worker")))
    BY <1>7 DEF WorkerCancelled
  <2>3. UNCHANGED <<queue, enqueued, closedAt>>
    BY <1>7 DEF WorkerCancelled, hostVars
  <2> QED  BY <1>1, <1>3, <2>1, <2>2, <2>3
<1>8. CASE Flush
  <2>1. PICK k \in 0 .. Len(queue) :
           /\ k <= BatchSize
           /\ Collected = SubSeq(queue, 1, k) /\ queue' = SubSeq(queue, k + 1, Len(queue))
    BY <1>8, FlushTakes DEF Flush
  <2>2. UNCHANGED <<db, closedAt, next, enqueued>> /\ batch["worker"] = <<>>
    BY <1>1, <1>8 DEF Flush, AtLoopTop, hostVars, Data, BatchesApart
  <2>3. Taken' = Taken + k
    BY <2>1, <2>2, QueueTaken DEF Data
  <2>4. CASE batch' = batch
    <3>1. Ahead("worker")' = Ahead("worker") /\ Ahead("closer")' = Ahead("closer")
      BY <2>2, <2>4 DEF Ahead
    <3> QED  BY <1>1, <2>2, <2>3, <3>1, LateKept
  <2>5. CASE batch' = [batch EXCEPT !["worker"] = Collected] /\ pc' = [pc EXCEPT !.worker = "writing"]
    <3>1. /\ batch'["worker"] = SubSeq(queue, 1, k) /\ pc'["worker"] = "writing"
          /\ batch'["closer"] = batch["closer"]
      <4>1. pc \in PcSet
        BY DEF TypeOK, PcSet
      <4> QED  BY <1>1, <2>1, <2>5, <4>1 DEF TypeOK, PcSet
    <3>2. Takes("worker", k)
      BY <2>1, <2>2, <3>1 DEF Takes
    <3>3. Ahead("worker")' = Taken + 1 .. Taken + k
      BY <1>1, <3>2, TakesAhead DEF Data
    <3>4. \A e \in Ahead("worker")' : ~(e <= closedAt)
      BY <1>1, <3>3, LateFacts DEF LateInv
    <3>5. Ahead("closer")' = Ahead("closer")
      BY <2>2, <3>1 DEF Ahead
    <3> QED  BY <1>1, <2>2, <2>3, <3>4, <3>5, LateKept
  <2> QED  BY <1>8, <2>4, <2>5 DEF Flush
<1>9. CASE Exit
  <2>1. \A w \in Writers : Ahead(w)' = {}
    <3>1. \A w \in Writers : Cleared(w)
      BY <1>9 DEF Exit, Cleared
    <3> QED  BY <3>1, AheadAfter DEF Data
  <2>2. UNCHANGED <<db, closedAt, enqueued>> /\ Taken' = enqueued
    <3>1. Taken' = enqueued - 0
      BY <1>9, EmptyFacts DEF Taken, Exit
    <3> QED  BY <1>9, <3>1, TakenIsNumber DEF Exit, Data
  <2>3. Taken' \in Nat /\ Taken <= Taken'
    BY <1>1, <2>2, TakenIsNumber DEF Data
  <2> QED  BY <1>1, <2>1, <2>2, <2>3, LateKept
<1>10. CASE Aclose
  BY <1>10, LateFromAclose
<1> QED
  BY <1>1, <1>4, <1>5, <1>6, <1>7, <1>8, <1>9, <1>10
  DEF Next, WorkerSteps, CloserSteps

\* Rows are in the order of their events until aclose is called; from then on
\* at most one batch of rows is late.
THEOREM RowsAlmostOrdered == Spec => []RowsAreLateByOneBatch
<1>1. Init => LateInv
  <2> SUFFICES ASSUME Init PROVE LateInv
    OBVIOUS
  <2>1. db = <<>> /\ closedAt = 0 /\ Taken = 0
    <3>1. Len(queue) = 0 /\ enqueued = 0
      BY EmptyFacts DEF Init
    <3>2. Taken = 0
      BY <3>1 DEF Taken
    <3> QED  BY <3>2 DEF Init
  <2>2. \A w \in Writers : Ahead(w) = {}
    <3>1. \A i \in 1 .. Len(<<>>) : FALSE
      BY EmptyFacts
    <3> QED  BY <3>1 DEF Ahead, Init
  <2>3. LateAtMost = {}
    <3>1. LateRows = {}
      BY <2>1, EmptyFacts DEF LateRows
    <3> QED  BY <2>2, <3>1, Constants DEF LateAtMost
  <2>4. Cardinality({}) = 0
    BY FS_EmptySet
  <2> QED  BY <2>1, <2>2, <2>3, <2>4, Constants DEF LateInv, CloserIsBehind
<1>2. IndInv /\ LateInv /\ [Next]_vars => LateInv'
  <2>1. ASSUME IndInv, LateInv, Next PROVE LateInv'
    BY <2>1, LateStep DEF IndInv
  <2>2. ASSUME LateInv, UNCHANGED vars PROVE LateInv'
    BY <2>2 DEF vars, sinkVars, writeVars, hostVars, LateInv, CloserIsBehind,
       LateAtMost, LateRows, Ahead, Taken
  <2> QED  BY <2>1, <2>2
<1>3. IndInv /\ LateInv => RowsAreLateByOneBatch
  <2> SUFFICES ASSUME IndInv, LateInv PROVE RowsAreLateByOneBatch
    OBVIOUS
  <2>1. pc.closer = "idle" => InOrder(db)
    BY DEF IndInv, Data, RowsOnce
  <2>2. Cardinality(LateRows) <= BatchSize
    <3>1. LateRows \in SUBSET LateAtMost
      BY DEF LateAtMost
    <3> QED  BY <3>1, FewStayFew DEF IndInv
  <2> QED  BY <2>1, <2>2 DEF RowsAreLateByOneBatch
<1> QED  BY <1>1, <1>2, <1>3, Invariance, PTL DEF Spec
-----------------------------------------------------------------------------

\* No event is twice on its way to the tables or to the memory buffer.
THEOREM OneWay == Spec => []OneWayThrough
<1>1. IndInv => OneWayThrough
  <2> SUFFICES ASSUME IndInv PROVE OneWayThrough
    OBVIOUS
  <2>1. TypeOK /\ QueueIsTail /\ BatchesApart /\ RowsOnce /\ BufferOnce
    BY DEF IndInv, Data
  <2>2. /\ Taken \in Nat /\ queue \in Seq(Events) /\ IsInjective(queue)
        /\ \A e \in ToSet(queue) : e \in Int /\ ~(e <= Taken)
    <3>1. Len(queue) \in 0 .. Len(queue) /\ SubSeq(queue, 1, Len(queue)) = queue
      BY <2>1, TakesAll
    <3>2. /\ ToSet(SubSeq(queue, 1, Len(queue))) = Taken + 1 .. Taken + Len(queue)
          /\ IsInjective(SubSeq(queue, 1, Len(queue)))
      BY <2>1, <3>1, TakeOff
    <3>3. Taken \in Nat /\ Len(queue) \in Nat
      BY <2>1, TakenIsNumber
    <3>4. \A e \in Taken + 1 .. Taken + Len(queue) : e \in Int /\ ~(e <= Taken)
      BY <3>3
    <3> QED  BY <2>1, <3>1, <3>2, <3>3, <3>4 DEF TypeOK
  <2>3. ASSUME NEW w \in Writers
        PROVE  /\ batch[w] \in Seq(Events) /\ IsInjective(batch[w])
               /\ Rest(w) \in Seq(Events) /\ IsInjective(Rest(w))
               /\ ToSet(Rest(w)) = Ahead(w) /\ Ahead(w) \in SUBSET ToSet(batch[w])
    <3> DEFINE b == batch[w]
               n == next[w]
    <3>1. /\ b \in Seq(Events) /\ Len(b) \in Nat /\ DOMAIN b = 1 .. Len(b)
          /\ \A i \in 1 .. Len(b) : b[i] \in Events
          /\ n \in Nat \ {0} /\ n <= Len(b) + 1
          /\ Ahead(w) \in SUBSET ToSet(b) /\ InOrder(b)
      BY <2>1, BatchFacts DEF BatchesApart
    <3>2. IsInjective(b)
      BY <3>1, OrderIsInjective, SeqMonotonic, Constants
    <3>3. Rest(w) = SubSeq(b, n, Len(b)) /\ Ahead(w) = {b[i] : i \in n .. Len(b)}
      BY DEF Rest, Ahead
    <3> HIDE DEF b, n
    <3>4. n \in Int /\ Len(b) \in Int /\ \A i \in n .. Len(b) : i \in 1 .. Len(b) /\ b[i] \in Events
      BY <3>1
    <3>5. /\ SubSeq(b, n, Len(b)) \in Seq(Events)
          /\ Len(SubSeq(b, n, Len(b))) = IF n <= Len(b) THEN Len(b) - n + 1 ELSE 0
          /\ \A i \in 1 .. Len(b) - n + 1 : SubSeq(b, n, Len(b))[i] = b[n + i - 1]
      BY <3>4, SubSeqProperties
    <3>6. n <= Len(b) \/ Len(b) - n + 1 = 0
      BY <3>1
    <3>7. DOMAIN Rest(w) = 1 .. Len(b) - n + 1
      BY <3>3, <3>5, <3>6, LenProperties
    <3>8. \A i \in 1 .. Len(b) - n + 1 : n + i - 1 \in n .. Len(b) /\ Rest(w)[i] = b[n + i - 1]
      BY <3>1, <3>3, <3>5
    <3>9. \A j \in n .. Len(b) : j - n + 1 \in 1 .. Len(b) - n + 1 /\ n + (j - n + 1) - 1 = j
      BY <3>1
    <3>10. ToSet(Rest(w)) = Ahead(w)
      <4>1. ToSet(Rest(w)) \subseteq Ahead(w)
        BY <3>3, <3>7, <3>8 DEF ToSet
      <4>2. \A j \in n .. Len(b) : \E i \in 1 .. Len(b) - n + 1 : b[j] = Rest(w)[i]
        BY <3>8, <3>9
      <4>3. Ahead(w) \subseteq ToSet(Rest(w))
        BY <3>3, <3>7, <4>2 DEF ToSet
      <4> QED  BY <4>1, <4>3
    <3>11. IsInjective(Rest(w))
      <4>1. ASSUME NEW i \in 1 .. Len(b) - n + 1, NEW j \in 1 .. Len(b) - n + 1,
                   Rest(w)[i] = Rest(w)[j]
            PROVE  i = j
        <5>1. n + i - 1 = n + j - 1
          BY <3>1, <3>2, <3>4, <3>8, <4>1 DEF IsInjective
        <5> QED  BY <3>1, <5>1
      <4> QED  BY <3>7, <4>1 DEF IsInjective
    <3> QED  BY <3>1, <3>2, <3>3, <3>5, <3>10, <3>11 DEF b
  <2> DEFINE rw == Rest("worker")
             rc == Rest("closer")
             bw == batch["worker"]
             bc == batch["closer"]
  <2>4. /\ ToSet(bw) \cap ToSet(bc) = {}
        /\ \A e \in ToSet(bw) \cup ToSet(bc) : e <= Taken
        /\ db \in Seq(Events) /\ mem \in Seq(Events)
        /\ IsInjective(db) /\ IsInjective(mem)
        /\ ToSet(db) \cap Ahead("worker") = {} /\ ToSet(db) \cap Ahead("closer") = {}
        /\ ToSet(mem) \cap ToSet(bw) = {} /\ ToSet(mem) \cap ToSet(bc) = {}
        /\ \A e \in ToSet(db) \cup ToSet(mem) : e <= Taken
    BY <2>1, Constants, RowFacts DEF BatchesApart, RowsOnce, BufferOnce
  <2>5. /\ bw \in Seq(Events) /\ IsInjective(bw) /\ bc \in Seq(Events) /\ IsInjective(bc)
        /\ rw \in Seq(Events) /\ IsInjective(rw) /\ rc \in Seq(Events) /\ IsInjective(rc)
        /\ ToSet(rw) = Ahead("worker") /\ ToSet(rc) = Ahead("closer")
        /\ ToSet(rw) \in SUBSET ToSet(bw) /\ ToSet(rc) \in SUBSET ToSet(bc)
    BY <2>3, Constants
  <2> HIDE DEF rw, rc, bw, bc
  <2>6. IsInjective(db \o rw \o rc \o queue)
    <3>1. /\ db \o rw \in Seq(Events) /\ IsInjective(db \o rw)
          /\ ToSet(db \o rw) = ToSet(db) \cup ToSet(rw)
      BY <2>4, <2>5, ConcatSets
    <3>2. /\ db \o rw \o rc \in Seq(Events) /\ IsInjective(db \o rw \o rc)
          /\ ToSet(db \o rw \o rc) = ToSet(db) \cup ToSet(rw) \cup ToSet(rc)
      <4>1. ToSet(db \o rw) \cap ToSet(rc) = {}
        BY <2>4, <2>5, <3>1
      <4>2. /\ db \o rw \o rc \in Seq(Events)
            /\ ToSet(db \o rw \o rc) = ToSet(db \o rw) \cup ToSet(rc)
            /\ IsInjective(db \o rw \o rc) <=>
                  /\ IsInjective(db \o rw) /\ IsInjective(rc)
                  /\ ToSet(db \o rw) \cap ToSet(rc) = {}
        BY <2>5, <3>1, ConcatSets
      <4> QED  BY <2>5, <3>1, <4>1, <4>2
    <3>3. ToSet(db \o rw \o rc) \cap ToSet(queue) = {}
      BY <2>2, <2>4, <2>5, <3>2
    <3> QED  BY <2>2, <3>2, <3>3, ConcatSets
  <2>7. IsInjective(mem \o bw \o bc \o queue)
    <3>1. /\ mem \o bw \in Seq(Events) /\ IsInjective(mem \o bw)
          /\ ToSet(mem \o bw) = ToSet(mem) \cup ToSet(bw)
      BY <2>4, <2>5, ConcatSets
    <3>2. /\ mem \o bw \o bc \in Seq(Events) /\ IsInjective(mem \o bw \o bc)
          /\ ToSet(mem \o bw \o bc) = ToSet(mem) \cup ToSet(bw) \cup ToSet(bc)
      <4>1. ToSet(mem \o bw) \cap ToSet(bc) = {}
        BY <2>4, <2>5, <3>1
      <4>2. /\ mem \o bw \o bc \in Seq(Events)
            /\ ToSet(mem \o bw \o bc) = ToSet(mem \o bw) \cup ToSet(bc)
            /\ IsInjective(mem \o bw \o bc) <=>
                  /\ IsInjective(mem \o bw) /\ IsInjective(bc)
                  /\ ToSet(mem \o bw) \cap ToSet(bc) = {}
        BY <2>5, <3>1, ConcatSets
      <4> QED  BY <2>5, <3>1, <4>1, <4>2
    <3>3. ToSet(mem \o bw \o bc) \cap ToSet(queue) = {}
      BY <2>2, <2>4, <2>5, <3>2
    <3> QED  BY <2>2, <3>2, <3>3, ConcatSets
  <2> QED  BY <2>6, <2>7 DEF OneWayThrough, rw, rc, bw, bc
<1> QED  BY <1>1, Invariance, PTL

\* Without a pool, memory and queue together are the log of all events.
THEOREM MemoryComplete == Spec => []MemoryIsComplete
<1>1. IndInv => MemoryIsComplete
  <2> SUFFICES ASSUME IndInv, pool = "none"
               PROVE  mem \o queue = [e \in 1 .. enqueued |-> e]
    BY DEF MemoryIsComplete
  <2>1. TypeOK /\ QueueIsTail /\ mem = [e \in 1 .. Taken |-> e]
    BY DEF IndInv, Data, BufferOnce
  <2>2. /\ Taken \in Nat /\ Len(queue) \in Nat /\ enqueued = Taken + Len(queue)
        /\ mem \in Seq(Events) /\ queue \in Seq(Events)
        /\ DOMAIN queue = 1 .. Len(queue)
    BY <2>1, TakenIsNumber, LenProperties DEF TypeOK
  <2>3. Len(mem) = Taken
    BY <2>1, <2>2, LenProperties
  <2> DEFINE all == mem \o queue
  <2>4. /\ all \in Seq(Events) /\ DOMAIN all = 1 .. enqueued
        /\ \A i \in 1 .. Taken + Len(queue) :
              all[i] = IF i <= Taken THEN mem[i] ELSE queue[i - Taken]
    <3>1. /\ all \in Seq(Events) /\ Len(all) = Len(mem) + Len(queue)
          /\ \A i \in 1 .. Len(mem) + Len(queue) :
                all[i] = IF i <= Len(mem) THEN mem[i] ELSE queue[i - Len(mem)]
      BY <2>2, ConcatProperties
    <3> HIDE DEF all
    <3> QED  BY <2>2, <2>3, <3>1, LenProperties
  <2> HIDE DEF all
  <2>5. \A i \in 1 .. Taken + Len(queue) :
           /\ i <= Taken => i \in 1 .. Taken
           /\ ~(i <= Taken) => i - Taken \in 1 .. Len(queue) /\ Taken + (i - Taken) = i
    BY <2>2
  <2>6. \A i \in 1 .. enqueued : all[i] = i
    BY <2>1, <2>2, <2>4, <2>5 DEF QueueIsTail
  <2>7. all = [i \in 1 .. enqueued |-> all[i]]
    BY <2>4, LenProperties
  <2> QED  BY <2>6, <2>7 DEF all
<1> QED  BY <1>1, Invariance, PTL
\* When the process has ended nothing happens any more.
LEMMA NothingAfterExit ==
  ASSUME TypeOK, Data, exited
  PROVE  ~Next
<1>1. pc.init = "done" /\ pc.worker = "done" /\ pc.closer = "done"
  BY DEF Data, Phases, TypeOK
<1>2. \A w \in Writers : pc[w] # "writing"
  BY <1>1 DEF Writers
<1>3. ~(WriteSteps("worker") \/ WriteSteps("closer"))
  BY <1>2, Constants DEF WriteSteps, Insert, Inserting, WriteReturns, WriteFails
<1> QED
  BY <1>1, <1>3
  DEF Next, EnqueueEvent, Initialize, Aclose, Exit, InitSteps, PoolCreated,
      InitializeReturns, WorkerSteps, CloserSteps, Flush, AtLoopTop,
      WorkerReturns, WorkerCancelled, AcloseReturns

\* Neither the tables nor the memory buffer give an event back, and no event
\* that is in memory enters a table.
LEMMA PlacesKept ==
  ASSUME TypeOK, Data, Next
  PROVE  /\ ToSet(db) \subseteq ToSet(db')
         /\ ToSet(mem) \subseteq ToSet(mem')
         /\ ToSet(mem) \cap ToSet(db') \subseteq ToSet(db)
<1>1. /\ db \in Seq(Events) /\ mem \in Seq(Events) /\ queue \in Seq(Events)
      /\ \A w \in Writers : batch[w] \in Seq(Events) /\ next[w] \in Nat
  BY Constants DEF TypeOK
<1>2. ASSUME NEW items \in Seq(Events), mem' = Buffered(items)
      PROVE  ToSet(mem) \subseteq ToSet(mem')
  BY <1>1, <1>2, ConcatSets DEF Buffered
<1>3. ToSet(mem) \subseteq ToSet(mem')
  <2>1. Collected \in Seq(Events)
    <3>1. PICK k \in 0 .. Len(queue) : Collected = SubSeq(queue, 1, k)
      BY FlushTakes
    <3> QED  BY <3>1, TakeOff DEF Data
  <2>2. \/ mem' = mem
        \/ \E w \in Writers : mem' = Buffered(batch[w])
        \/ mem' = Buffered(Collected) \/ mem' = Buffered(queue)
    BY Constants
    DEF Next, EnqueueEvent, Initialize, Aclose, Exit, InitSteps, PoolCreated,
        InitializeReturns, WorkerSteps, CloserSteps, WriteSteps, Insert,
        WriteReturns, WriteFails, Flush, WorkerReturns, WorkerCancelled,
        AcloseReturns, sinkVars
  <2> QED  BY <1>1, <1>2, <2>1, <2>2
<1>4. \/ db' = db
      \/ \E w \in Writers : Inserting(w) /\ db' = Inserted(Current(w))
  BY Constants
  DEF Next, EnqueueEvent, Initialize, Aclose, Exit, InitSteps, PoolCreated,
      InitializeReturns, WorkerSteps, CloserSteps, WriteSteps, Insert,
      WriteReturns, WriteFails, Flush, WorkerReturns, WorkerCancelled,
      AcloseReturns, sinkVars
<1>5. ASSUME NEW w \in Writers, Inserting(w), db' = Inserted(Current(w))
      PROVE  /\ ToSet(db) \subseteq ToSet(db')
             /\ ToSet(mem) \cap ToSet(db') \subseteq ToSet(db)
  <2>1. Current(w) \in Events /\ Current(w) \in ToSet(batch[w])
    <3>1. Current(w) \in Ahead(w) /\ Current(w) \in Events
      BY <1>5, AheadAfter DEF Data
    <3> QED  BY <3>1, BatchFacts
  <2>2. Current(w) \notin ToSet(mem)
    BY <2>1 DEF Data, BufferOnce
  <2>3. ToSet(db') \subseteq ToSet(db) \cup {Current(w)} /\ ToSet(db) \subseteq ToSet(db')
    BY <1>1, <1>5, <2>1, AppendSets DEF Inserted
  <2> QED  BY <2>2, <2>3
<1> QED  BY <1>3, <1>4, <1>5

\* Events meet their fates as EventFates has it: a step of the sink accepts an
\* event or settles the fate of some, only a cancelled worker or the end of the
\* process loses any, and with the process all go that are in memory.
THEOREM FatesImplemented == Spec => ImplementsEventFates
<1> DEFINE fate == [e \in 1 .. enqueued |-> Fate(e)]
<1>1. Init => Fates!Init
  <2> SUFFICES ASSUME Init PROVE Fates!Init
    OBVIOUS
  <2>1. enqueued = 0 /\ ~cancelled /\ ~exited
    BY DEF Init
  <2>2. fate = <<>>
    <3>1. DOMAIN fate = {}
      BY <2>1
    <3> QED  BY <3>1
  <2> QED  BY <2>1, <2>2 DEF Fates!Init
<1>2. ASSUME IndInv, Next, ~EnqueueEvent PROVE Fates!Settle
  <2>1. TypeOK /\ Data /\ Phases
    BY <1>2 DEF IndInv, Data
  <2>2. Accounts
    BY <1>2, <2>1, DataStep
  <2>3. (cancelled \/ exited) => (cancelled' \/ exited')
    BY <1>2, <2>1, StopStep
  <2>4. cancelled => cancelled'
    BY <1>2, <2>1, StopStep
  <2>5. ~exited
    BY <1>2, <2>1, NothingAfterExit
  <2>6. exited' => Held' = {}
    <3> SUFFICES ASSUME exited' PROVE Held' = {}
      OBVIOUS
    <3>1. Exit
      BY <1>2, <2>5
      DEF Next, Initialize, Aclose, InitSteps, PoolCreated, InitializeReturns,
          WorkerSteps, CloserSteps, WriteSteps, Insert, WriteReturns, WriteFails,
          Flush, WorkerReturns, WorkerCancelled, AcloseReturns, hostVars
    <3> QED  BY <3>1, EmptyFacts, Constants DEF Exit, Held
  <2>7. /\ ToSet(db) \subseteq ToSet(db') /\ ToSet(mem) \subseteq ToSet(mem')
        /\ ToSet(mem) \cap ToSet(db') \subseteq ToSet(db)
    BY <1>2, <2>1, PlacesKept
  <2>8. ASSUME NEW e \in 1 .. enqueued
        PROVE  /\ \/ Fate(e)' = Fate(e)
                  \/ Fate(e) = "pending" /\ Fate(e)' \in {"stored", "skipped", "buffered"}
                  \/ Fate(e) = "pending" /\ Fate(e)' = "lost" /\ (cancelled' \/ exited')
                  \/ Fate(e) = "buffered" /\ Fate(e)' = "lost" /\ exited'
               /\ exited' => Fate(e)' \in {"stored", "skipped", "lost"}
    <3>1. exited' => Fate(e)' \in {"stored", "skipped", "lost"}
      BY <2>6 DEF Fate
    <3>2. CASE e \in ToSet(db)
      BY <2>7, <3>1, <3>2 DEF Fate, Stored
    <3>3. CASE e \notin ToSet(db) /\ e \in ToSet(mem)
      <4>1. Fate(e) = "buffered" /\ e \in ToSet(mem') /\ e \notin ToSet(db')
        BY <2>5, <2>7, <3>3 DEF Fate, Stored
      <4>2. Fate(e)' = IF exited' THEN "lost" ELSE "buffered"
        BY <4>1 DEF Fate, Stored
      <4> QED  BY <3>1, <4>1, <4>2
    <3>4. CASE e \notin Written /\ e \in Held
      <4>1. Fate(e) = "pending"
        BY <3>4 DEF Fate, Written, Stored
      <4>2. Fate(e)' \in {"pending", "stored", "buffered", "lost", "skipped"}
        BY DEF Fate
      <4>3. Fate(e)' = "lost" => cancelled' \/ exited'
        <5> SUFFICES ASSUME Fate(e)' = "lost", ~exited' PROVE cancelled'
          OBVIOUS
        <5>1. e \notin Written' /\ e \notin Held' /\ HasTable(e)
          BY DEF Fate, Stored, Written, HasTable
        <5> QED  BY <2>2, <2>4, <3>4, <5>1 DEF Accounts
      <4> QED  BY <3>1, <4>1, <4>2, <4>3
    <3>5. CASE e \notin Written /\ e \notin Held
      <4>1. e \notin Written' /\ e \notin Held'
        BY <2>2, <3>5 DEF Accounts
      <4> QED  BY <3>1, <3>5, <4>1 DEF Fate, HasTable, Written, Stored
    <3> QED  BY <3>2, <3>3, <3>4, <3>5 DEF Written
  <2>9. enqueued' = enqueued
    BY <2>2 DEF Accounts
  <2> QED  BY <2>3, <2>5, <2>8, <2>9 DEF Fates!Settle, Fates!Becomes
<1>3. ASSUME IndInv, EnqueueEvent PROVE Fates!Accept
  <2>1. /\ Written' = Written /\ Held' = Held \cup {enqueued + 1}
        /\ UNCHANGED <<cancelled, exited>> /\ enqueued' = enqueued + 1
    BY <1>3, EnqueueStep DEF IndInv, EnqueueEvent, writeVars
  <2>2. enqueued \in Nat /\ Taken \in Nat /\ Taken <= enqueued
    BY <1>3, TakenIsNumber DEF IndInv, Data
  <2>a. db' = db /\ mem' = mem /\ ~exited
    BY <1>3 DEF EnqueueEvent
  <2>3. enqueued + 1 \notin Written
    <3>1. \A e \in Written : e \in Int /\ e <= Taken
      BY <1>3, RowFacts DEF IndInv, Data, RowsOnce, BufferOnce, Written
    <3> QED  BY <2>2, <3>1
  <2>4. fate'[enqueued + 1] = "pending"
    BY <2>1, <2>2, <2>3, <2>a DEF Fate, Written, Stored
  <2>5. \A e \in 1 .. enqueued : fate'[e] = fate[e]
    <3>1. \A e \in 1 .. enqueued : e # enqueued + 1 /\ e \in 1 .. enqueued + 1
      BY <2>2
    <3> QED  BY <2>1, <2>a, <3>1 DEF Fate, HasTable, Written, Stored
  <2> DEFINE FateSet == {"stored", "buffered", "pending", "lost", "skipped"}
  <2>6. fate \in Seq(FateSet) /\ Len(fate) = enqueued
    <3>1. fate \in [1 .. enqueued -> FateSet]
      BY DEF Fate
    <3>2. fate \in Seq(FateSet)
      BY <2>2, <3>1, SeqDef
    <3>3. 1 .. Len(fate) = 1 .. enqueued /\ Len(fate) \in Nat
      BY <3>1, <3>2, LenProperties
    <3> QED  BY <2>2, <3>2, <3>3
  <2>7. fate' = [e \in 1 .. enqueued + 1 |-> fate'[e]]
    BY <2>1
  <2> HIDE DEF fate
  <2> DEFINE app == Append(fate, "pending")
  <2>8. /\ app = [e \in 1 .. enqueued + 1 |-> app[e]]
        /\ \A e \in 1 .. enqueued : app[e] = fate[e]
        /\ app[enqueued + 1] = "pending"
    <3>1. /\ app \in Seq(FateSet)
          /\ Len(app) = Len(fate) + 1
          /\ \A e \in 1 .. Len(fate) : app[e] = fate[e]
          /\ app[Len(fate) + 1] = "pending"
      BY <2>6, AppendProperties
    <3> HIDE DEF app
    <3>2. app \in [1 .. enqueued + 1 -> FateSet]
      BY <2>6, <3>1, LenProperties
    <3> QED  BY <2>6, <3>1, <3>2
  <2> HIDE DEF app
  <2>9. \A e \in 1 .. enqueued + 1 : e \in 1 .. enqueued \/ e = enqueued + 1
    BY <2>2
  <2>10. \A e \in 1 .. enqueued + 1 : fate'[e] = app[e]
    BY <2>4, <2>5, <2>8, <2>9
  <2>11. fate' = app
    BY <2>7, <2>8, <2>10
  <2> QED  BY <2>1, <2>a, <2>11 DEF Fates!Accept, fate, app
<1>4. IndInv /\ [Next]_vars => [Fates!Next]_Fates!fateVars
  <2>1. ASSUME IndInv, Next PROVE Fates!Next
    BY <1>2, <1>3, <2>1 DEF Fates!Next
  <2>2. ASSUME UNCHANGED vars PROVE UNCHANGED Fates!fateVars
    BY <2>2 DEF vars, sinkVars, writeVars, hostVars, Fates!fateVars, Fate, Stored, Held
  <2> QED  BY <2>1, <2>2
<1> QED  BY <1>1, <1>4, Invariance, PTL DEF Spec, ImplementsEventFates, Fates!Spec

-----------------------------------------------------------------------------
(* Why the queue drains and aclose returns.  QueueIsDrained and              *)
(* AcloseTerminates need fairness and stay with TLC; what makes them true    *)
(* are the numbers that the steps of the worker and of aclose use up.        *)

\* Events only leave the queue from its head, and each step of the worker
\* takes some or brings a write, which is not longer than a batch, nearer its
\* end, whatever the database answers (storage.py:100-114,125-145).
QueueWearsOut ==
    [][/\ Taken' >= Taken
       /\ pc.closer = "idle" /\ queue # <<>> /\ WorkerSteps =>
            \/ Taken' > Taken
            \/ /\ pc.worker = "writing"
               /\ pc'.worker = "sleeping" \/ next'["worker"] > next["worker"]]_vars

\* What aclose has before it, once called: the rest of its batch, the release
\* of the connection and the closing of the pool.
CloseWork == IF pc.closer = "writing" THEN Len(batch["closer"]) + 3 - next["closer"]
             ELSE IF pc.closer = "closing" THEN 1 ELSE 0

\* Each step of aclose takes from that and nobody else adds to it; and while
\* it waits for the worker's connection, the next step of the worker's write
\* is the last (storage.py:125-145,163-170).
AcloseWearsOut ==
    [][pc.closer # "idle" =>
         /\ pc'.closer # "idle"
         /\ CloserSteps => CloseWork' < CloseWork
         /\ CloseWork' <= CloseWork
         /\ pc.closer = "closing" /\ pc.worker = "writing" /\ WorkerSteps
               => pc'.worker # "writing"]_vars

\* What a step does to the queue.
LEMMA DrainStep ==
  ASSUME TypeOK, Data, Next
  PROVE  Taken' >= Taken /\ (Flush /\ queue # <<>> => Taken' > Taken)
<1>1. /\ Taken \in Nat /\ Len(queue) \in Nat /\ enqueued = Taken + Len(queue)
      /\ queue # <<>> => Len(queue) > 0
  BY TakenIsNumber, EmptySeq, LenProperties DEF Data, TypeOK
<1>2. ASSUME Flush PROVE Taken' >= Taken /\ (queue # <<>> => Taken' > Taken)
  <2> DEFINE k == Least(BatchSize, Len(queue))
  <2>1. k \in 0 .. Len(queue) /\ (queue # <<>> => k > 0)
    BY <1>1, Constants DEF Least
  <2>2. queue' = SubSeq(queue, k + 1, Len(queue)) /\ enqueued' = enqueued
    BY <1>2 DEF Flush, Left, hostVars
  <2>3. Taken' = Taken + k
    <3> HIDE DEF k
    <3> QED  BY <2>1, <2>2, QueueTaken DEF Data
  <2> QED  BY <1>1, <2>1, <2>3
<1>3. ASSUME EnqueueEvent PROVE Taken' >= Taken
  BY <1>1, <1>3, QueueGrows DEF Data
<1>4. ASSUME Aclose \/ Exit PROVE Taken' >= Taken
  <2>1. queue' = <<>> /\ enqueued' = enqueued
    BY <1>4 DEF Aclose, Exit
  <2>2. Taken' = enqueued - 0
    BY <2>1, EmptyFacts DEF Taken
  <2> QED  BY <1>1, <2>2
<1>5. ASSUME UNCHANGED <<queue, enqueued>> PROVE Taken' >= Taken
  BY <1>1, <1>5, QueueKept DEF Data
<1>6. CASE Flush
  BY <1>2, <1>6
<1>7. CASE ~Flush
  BY <1>3, <1>4, <1>5, <1>7
  DEF Next, Initialize, InitSteps, PoolCreated, InitializeReturns, WorkerSteps,
      CloserSteps, WriteSteps, Insert, WriteReturns, WriteFails, WorkerReturns,
      WorkerCancelled, AcloseReturns, sinkVars, hostVars
<1> QED  BY <1>6, <1>7

THEOREM QueueIsWornOut == Spec => QueueWearsOut
<1> DEFINE Writes == /\ pc.worker = "writing"
                     /\ pc'.worker = "sleeping" \/ next'["worker"] > next["worker"]
<1>1. IndInv /\ [Next]_vars =>
        /\ Taken' >= Taken
        /\ pc.closer = "idle" /\ queue # <<>> /\ WorkerSteps => Taken' > Taken \/ Writes
  <2> SUFFICES ASSUME TypeOK, Data, [Next]_vars
               PROVE  /\ Taken' >= Taken
                      /\ pc.closer = "idle" /\ queue # <<>> /\ WorkerSteps
                            => Taken' > Taken \/ Writes
    BY DEF IndInv
  <2>1. Taken' >= Taken
    <3>1. CASE UNCHANGED vars
      BY <3>1, QueueKept, TakenIsNumber DEF vars, sinkVars, hostVars, Data
    <3> QED  BY <3>1, DrainStep
  <2>2. ASSUME pc.closer = "idle", queue # <<>>, WorkerSteps
        PROVE  Taken' > Taken \/ Writes
    <3>1. CASE Flush
      BY <2>2, <3>1, DrainStep DEF Next
    <3>2. CASE WriteSteps("worker")
      <4>1. pc.worker = "writing" /\ next \in [Writers -> 1 .. MaxEvents + 1]
        BY <3>2 DEF WriteSteps, Insert, WriteReturns, WriteFails, Inserting, TypeOK
      <4>2. CASE Insert("worker")
        BY <4>1, <4>2, Constants DEF Insert
      <4>3. CASE Behind("worker")
        BY <4>1, <4>3 DEF Behind, TypeOK
      <4> QED  BY <3>2, <4>2, <4>3 DEF WriteSteps, WriteReturns, WriteFails
    <3>3. CASE WorkerReturns
      BY <2>2, <3>3 DEF WorkerReturns
    <3>4. CASE WorkerCancelled
      BY <2>2, <3>4 DEF WorkerCancelled, Data, Phases
    <3> QED  BY <2>2, <3>1, <3>2, <3>3, <3>4 DEF WorkerSteps
  <2> QED  BY <2>1, <2>2
<1> QED  BY <1>1, Invariance, PTL DEF Spec, QueueWearsOut

\* A pool that aclose is closing is not opened again: initialize, which may
\* still be under way, is past its opening.
PoolStaysClosed ==
    /\ pc.closer = "closing" => pool = "closed" /\ pc.init # "connecting"
    /\ pc.init \in {"idle", "connecting"} => pool = "none"

LEMMA ClosedStep ==
  ASSUME TypeOK, PoolStaysClosed, [Next]_vars
  PROVE  PoolStaysClosed'
<1>1. CASE UNCHANGED <<pool, pc>>
  BY <1>1 DEF PoolStaysClosed
<1>2. CASE Initialize
  BY <1>2 DEF Initialize, PoolStaysClosed, TypeOK
<1>3. CASE PoolCreated
  BY <1>3 DEF PoolCreated, PoolStaysClosed, TypeOK
<1>4. CASE InitializeReturns
  BY <1>4 DEF InitializeReturns, sinkVars, PoolStaysClosed, TypeOK
<1>5. CASE Behind("closer")
  BY <1>5 DEF Behind, PoolStaysClosed, TypeOK
<1>6. CASE Behind("worker")
  BY <1>6 DEF Behind, PoolStaysClosed, TypeOK
<1>7. CASE pool' = pool /\ \E at \in {"writing", "sleeping", "done"} :
                              pc' = [pc EXCEPT !.worker = at]
  BY <1>7 DEF PoolStaysClosed, TypeOK
<1>8. CASE pool' = pool /\ \E at \in {"writing", "done"} : pc' = [pc EXCEPT !.closer = at]
  BY <1>8 DEF PoolStaysClosed, TypeOK
<1>9. CASE Exit
  BY <1>9 DEF Exit, PoolStaysClosed
<1>10. ASSUME WriteSteps("worker") \/ WriteSteps("closer")
       PROVE  UNCHANGED <<pool, pc>> \/ Behind("worker") \/ Behind("closer")
  BY <1>10 DEF WriteSteps, Insert, WriteReturns, WriteFails
<1>11. ASSUME Flush \/ WorkerReturns \/ WorkerCancelled
       PROVE  pool' = pool /\ \E at \in {"writing", "sleeping", "done"} :
                                 pc' = [pc EXCEPT !.worker = at]
  BY <1>11 DEF Flush, WorkerReturns, WorkerCancelled, sinkVars
<1>12. ASSUME Aclose \/ AcloseReturns
       PROVE  \/ Behind("closer")
              \/ pool' = pool /\ \E at \in {"writing", "done"} : pc' = [pc EXCEPT !.closer = at]
  BY <1>12 DEF Aclose, AcloseReturns, sinkVars
<1>13. ASSUME EnqueueEvent \/ UNCHANGED vars PROVE UNCHANGED <<pool, pc>>
  BY <1>13 DEF EnqueueEvent, vars, sinkVars
<1> QED
  BY <1>1, <1>2, <1>3, <1>4, <1>5, <1>6, <1>7, <1>8, <1>9, <1>10, <1>11, <1>12, <1>13
  DEF Next, InitSteps, WorkerSteps, CloserSteps

\* The steps of the others leave aclose where it is.
LEMMA OthersSpareAclose ==
  ASSUME TypeOK, pc.closer # "idle",
         \/ EnqueueEvent \/ Initialize \/ InitSteps \/ WorkerSteps
         \/ UNCHANGED vars
  PROVE  /\ pc'.closer = pc.closer
         /\ batch'["closer"] = batch["closer"] /\ next'["closer"] = next["closer"]
<1>1. pc'.closer = pc.closer
  BY DEF EnqueueEvent, Initialize, InitSteps, PoolCreated, InitializeReturns,
         WorkerSteps, WriteSteps, Insert, WriteReturns, WriteFails, Behind, Flush,
         WorkerReturns, WorkerCancelled, vars, TypeOK
<1>2. batch'["closer"] = batch["closer"] /\ next'["closer"] = next["closer"]
  BY Constants
  DEF EnqueueEvent, Initialize, InitSteps, PoolCreated, InitializeReturns,
      WorkerSteps, WriteSteps, Insert, WriteReturns, WriteFails, NoBatch, Flush,
      WorkerReturns, WorkerCancelled, vars, writeVars, TypeOK
<1> QED  BY <1>1, <1>2

THEOREM AcloseIsWornOut == Spec => AcloseWearsOut
<1>1. Init => PoolStaysClosed
  BY DEF Init, PoolStaysClosed
<1>2. IndInv /\ PoolStaysClosed /\ [Next]_vars => PoolStaysClosed'
  BY ClosedStep DEF IndInv
<1>3. IndInv /\ PoolStaysClosed /\ [Next]_vars =>
        (pc.closer # "idle" =>
           /\ pc'.closer # "idle"
           /\ CloserSteps => CloseWork' < CloseWork
           /\ CloseWork' <= CloseWork
           /\ pc.closer = "closing" /\ pc.worker = "writing" /\ WorkerSteps
                 => pc'.worker # "writing")
  <2> SUFFICES ASSUME TypeOK, Data, PoolStaysClosed, [Next]_vars, pc.closer # "idle"
               PROVE  /\ pc'.closer # "idle"
                      /\ CloserSteps => CloseWork' < CloseWork
                      /\ CloseWork' <= CloseWork
                      /\ pc.closer = "closing" /\ pc.worker = "writing" /\ WorkerSteps
                            => pc'.worker # "writing"
    BY DEF IndInv
  <2>1. /\ Len(batch["closer"]) \in Nat /\ next["closer"] \in Nat
        /\ next["closer"] <= Len(batch["closer"]) + 1
        /\ next \in [Writers -> 1 .. MaxEvents + 1]
    <3>1. batch["closer"] \in Seq(Events) /\ next["closer"] \in 1 .. MaxEvents + 1
      BY Constants DEF TypeOK
    <3>2. next["closer"] <= Len(batch["closer"]) + 1
      BY Constants DEF Data, BatchesApart
    <3> QED  BY <3>1, <3>2, LenProperties, Constants DEF TypeOK
  <2>2. CloseWork \in Nat /\ (pc.closer = "writing" => CloseWork >= 2)
    BY <2>1 DEF CloseWork
  <2>3. ASSUME CloserSteps
        PROVE  pc'.closer # "idle" /\ CloseWork' < CloseWork /\ CloseWork' <= CloseWork
    <3>1. CASE Insert("closer")
      <4>1. pc.closer = "writing" /\ pc' = pc /\ batch' = batch
        BY <3>1 DEF Insert, Inserting
      <4>2. next'["closer"] = next["closer"] + 1
        BY <2>1, <3>1, Constants DEF Insert
      <4> QED  BY <2>1, <4>1, <4>2 DEF CloseWork
    <3>2. CASE pc.closer = "writing" /\ Behind("closer")
      <4>1. pc'.closer \in {"done", "closing"}
        BY <3>2 DEF Behind, TypeOK
      <4> QED  BY <2>2, <3>2, <4>1 DEF CloseWork
    <3>3. CASE AcloseReturns
      <4>1. pc.closer = "closing" /\ pc'.closer = "done"
        BY <3>3 DEF AcloseReturns, TypeOK
      <4> QED  BY <4>1 DEF CloseWork
    <3> QED
      BY <2>3, <3>1, <3>2, <3>3 DEF CloserSteps, WriteSteps, WriteReturns, WriteFails
  <2>4. ASSUME Exit PROVE pc'.closer # "idle" /\ CloseWork' <= CloseWork
    <3>1. pc'.closer = "done"
      BY <2>4 DEF Exit
    <3> QED  BY <2>2, <3>1 DEF CloseWork
  <2>5. ASSUME EnqueueEvent \/ Initialize \/ InitSteps \/ WorkerSteps \/ UNCHANGED vars
        PROVE  pc'.closer # "idle" /\ CloseWork' <= CloseWork
    BY <2>2, <2>5, OthersSpareAclose DEF CloseWork
  <2>6. pc'.closer # "idle" /\ CloseWork' <= CloseWork
    <3>1. ~Aclose
      BY DEF Aclose
    <3> QED  BY <2>2, <2>3, <2>4, <2>5, <3>1 DEF Next
  <2>7. ASSUME pc.closer = "closing", pc.worker = "writing", WorkerSteps
        PROVE  pc'.worker # "writing"
    <3>1. pool = "closed"
      BY <2>7 DEF PoolStaysClosed
    <3>2. ~Insert("worker") /\ ~AtLoopTop
      BY <2>7, <3>1 DEF Insert, AtLoopTop
    <3>3. CASE Behind("worker")
      BY <3>3 DEF Behind, TypeOK
    <3>4. CASE WorkerCancelled
      BY <3>4 DEF WorkerCancelled, TypeOK
    <3> QED
      BY <2>7, <3>2, <3>3, <3>4
      DEF WorkerSteps, WriteSteps, WriteReturns, WriteFails, Flush, WorkerReturns
  <2> QED  BY <2>3, <2>6, <2>7
<1> QED  BY <1>1, <1>2, <1>3, Invariance, PTL DEF Spec, AcloseWearsOut

=============================================================================
