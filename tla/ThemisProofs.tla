---------------------------- MODULE ThemisProofs ----------------------------
(* Proofs about ThemisCheckpoint, for any number of checkpoints, reviewers *)
(* and keys, any digest function and any dwell threshold.                  *)
EXTENDS ThemisCheckpoint, FiniteSetTheorems, TLAPS

\* The inductive invariant but for the outcomes counted, which are next.
Core ==
    /\ TypeOK /\ KeysAreRegistered /\ StatsAddUp
    /\ ApprovedWasSigned /\ AbortedWasMutated /\ DriftIsMutation

\* It holds when the engine starts: nothing is created, signed or counted yet.
LEMMA InitCore == Init => Core
  BY ThemisAssumption
  DEF Init, Core, TypeOK, Digests, CheckpointStatus, Stats, StatsAddUp,
      ApprovedWasSigned, AbortedWasMutated, DriftIsMutation, KeysAreRegistered, Created

\* Every step, of the engine, the host, a reviewer or the clock, preserves
\* it.
LEMMA StepCore == Core /\ [Next]_vars => Core'
<1> SUFFICES ASSUME Core, [Next]_vars PROVE Core'
  OBVIOUS
<1> USE ThemisAssumption
    DEF Core, TypeOK, Digests, CheckpointStatus, Stats, StatsAddUp,
        ApprovedWasSigned, AbortedWasMutated, DriftIsMutation, KeysAreRegistered, Created
<1>1. ASSUME NEW r \in Reviewers, NEW k \in Keys, RegisterReviewer(r, k)
      PROVE  Core'
  BY <1>1 DEF RegisterReviewer
<1>2. ASSUME NEW c \in Checkpoints, CreateCheckpoint(c) PROVE Core'
  <2> USE <1>2 DEF CreateCheckpoint, historyVars
  <2>1. Digest[exec[c]] \in Digests
    OBVIOUS
  <2>2. TypeOK'
    BY <2>1
  <2>3. \A d \in Checkpoints :
           /\ d # c => status'[d] = status[d] /\ paused'[d] = paused[d]
           /\ status'[c] = "PENDING_HUMAN" /\ paused'[c] = Digest[exec[c]]
    OBVIOUS
  <2>4. ApprovedWasSigned' /\ AbortedWasMutated' /\ DriftIsMutation'
    BY <2>3
  <2> QED  BY <2>2, <2>4
<1>3. ASSUME NEW c \in Checkpoints, NEW r \in Reviewers,
             NEW sig \in Signatures, SubmitApproval(c, r, sig)
      PROVE  Core'
  <2>1. CASE SubmissionAborts(c)
    BY <2>1 DEF SubmissionAborts, historyVars
  <2>2. CASE SubmissionRefused(c, r, sig)
    BY <2>2 DEF SubmissionRefused, vars, engineVars, historyVars
  <2>3. CASE SubmissionApproves(c, r, sig)
    <3> USE <2>3 DEF SubmissionApproves
    <3>1. StatsAddUp' /\ stats' \in [Reviewers -> Stats]
      <4>1. stats[r] \in Stats
            /\ stats[r].rubber + stats[r].overrides <= stats[r].total
        OBVIOUS
      <4>2. Reviewed(stats[r], RubberStamp(c)) \in Stats
            /\ Reviewed(stats[r], RubberStamp(c)).rubber
                 + Reviewed(stats[r], RubberStamp(c)).overrides
                   <= Reviewed(stats[r], RubberStamp(c)).total
        BY <4>1 DEF Reviewed
      <4> QED  BY <4>2
    <3>2. <<reviewerKey[r], paused[c]>> \in signed
      <4>1. sig = <<reviewerKey[r], paused[c]>> /\ sig \in Keys \X Digests
        BY DEF Verifies
      <4> QED  BY <4>1, <1>3 DEF SubmitApproval, Submittable
    <3>3. reviewerKey[r] \in registered
      BY DEF Verifies
    <3>4. reviewed' \in [Reviewers -> SUBSET Checkpoints]
      BY DEF IsReviewedBy
    <3> QED  BY <3>1, <3>2, <3>3, <3>4
  <2> QED  BY <1>3, <2>1, <2>2, <2>3 DEF SubmitApproval
<1>4. ASSUME NEW c \in Checkpoints, NEW r \in Reviewers, SubmitOverride(c, r)
      PROVE  Core'
  <2> USE <1>4 DEF SubmitOverride, historyVars
  <2>1. stats[r] \in Stats
        /\ stats[r].rubber + stats[r].overrides <= stats[r].total
    OBVIOUS
  <2>2. Overridden(stats[r]) \in Stats
        /\ Overridden(stats[r]).rubber + Overridden(stats[r]).overrides
             <= Overridden(stats[r]).total
    BY <2>1 DEF Overridden
  <2>3. reviewed' \in [Reviewers -> SUBSET Checkpoints]
    BY DEF IsReviewedBy
  <2>4. TypeOK' /\ StatsAddUp'
    BY <2>2, <2>3
  <2> QED  BY <2>4
<1>5. ASSUME NEW c \in Checkpoints, NEW x \in ExecStates, StateChanges(c, x)
      PROVE  Core'
  BY <1>5 DEF StateChanges, engineVars
<1>6. ASSUME NEW c \in Checkpoints, NEW k \in Keys, Sign(c, k) PROVE Core'
  <2> USE <1>6 DEF Sign, engineVars
  <2>1. <<k, paused[c]>> \in Keys \X Digests
    OBVIOUS
  <2>2. signed' \subseteq Keys \X Digests /\ signed \subseteq signed'
    BY <2>1
  <2> QED  BY <2>2
<1>7. CASE TimePasses
  <2> USE <1>7 DEF TimePasses, historyVars
  <2>1. \A c \in Checkpoints :
           dwell[c] \in 0 .. MinDwell
           /\ (dwell[c] < MinDwell => dwell[c] + 1 \in 0 .. MinDwell)
    OBVIOUS
  <2>2. dwell' \in [Checkpoints -> 0 .. MinDwell]
    BY <2>1
  <2> QED  BY <2>2
<1>8. CASE UNCHANGED vars
  BY <1>8 DEF vars, engineVars, historyVars
<1> QED  BY <1>1, <1>2, <1>3, <1>4, <1>5, <1>6, <1>7, <1>8 DEF Next

-----------------------------------------------------------------------------
(* Outcomes and statistics *)

Counts == ReviewsAreFinite /\ OutcomesAreCounted

Outcomes == {"APPROVED", "REJECTED"}

\* What stands is part of what was reviewed; a part is not more than the whole.
LEMMA StandingIsFinite ==
  ASSUME ReviewsAreFinite, NEW r \in Reviewers, NEW o,
         NEW S \in SUBSET Standing(r, o)
  PROVE  /\ IsFiniteSet(Standing(r, o)) /\ IsFiniteSet(S)
         /\ Cardinality(S) \in Nat /\ Cardinality(Standing(r, o)) \in Nat
         /\ Cardinality(S) <= Cardinality(Standing(r, o))
<1>1. IsFiniteSet(Standing(r, o))
  BY FS_Subset DEF ReviewsAreFinite, Standing
<1>2. IsFiniteSet(S) /\ Cardinality(S) <= Cardinality(Standing(r, o))
  BY <1>1, FS_Subset
<1> QED  BY <1>1, <1>2, FS_CardinalityType

\* A step that reviews nothing and approves and rejects nothing.
LEMMA NoReview ==
  ASSUME Core, Counts, UNCHANGED <<stats, reviewed>>,
         \A c \in Checkpoints, o \in Outcomes : status'[c] = o => status[c] = o
  PROVE  Counts'
<1>1. ReviewsAreFinite /\ ReviewsAreFinite'
  BY DEF Counts, ReviewsAreFinite
<1>2. ASSUME NEW r \in Reviewers, NEW o \in Outcomes
      PROVE  /\ Cardinality(Standing(r, o)') \in Nat
             /\ Cardinality(Standing(r, o)) \in Nat
             /\ Cardinality(Standing(r, o)') <= Cardinality(Standing(r, o))
  <2>1. Standing(r, o)' \in SUBSET Standing(r, o)
    BY <1>2 DEF Standing, Core, TypeOK
  <2> QED  BY <1>1, <2>1, StandingIsFinite
<1>3. \A r \in Reviewers : stats[r].total \in Int /\ stats[r].overrides \in Int
  BY ThemisAssumption DEF Core, TypeOK, Stats
<1>4. \A r \in Reviewers :
         /\ Cardinality(Standing(r, "APPROVED")')
               <= stats'[r].total - stats'[r].overrides
         /\ Cardinality(Standing(r, "REJECTED")') <= stats'[r].overrides
  <2> SUFFICES ASSUME NEW r \in Reviewers
               PROVE  /\ Cardinality(Standing(r, "APPROVED")')
                            <= stats[r].total - stats[r].overrides
                      /\ Cardinality(Standing(r, "REJECTED")') <= stats[r].overrides
    OBVIOUS
  <2>1. /\ Cardinality(Standing(r, "APPROVED")) <= stats[r].total - stats[r].overrides
        /\ Cardinality(Standing(r, "REJECTED")) <= stats[r].overrides
    BY DEF Counts, OutcomesAreCounted
  <2>2. "APPROVED" \in Outcomes /\ "REJECTED" \in Outcomes
    BY DEF Outcomes
  <2> QED  BY <1>2, <1>3, <2>1, <2>2
<1>5. \A c \in Checkpoints : status'[c] \in Outcomes =>
         \E r \in Reviewers : c \in reviewed'[r]
  BY DEF Counts, OutcomesAreCounted, Outcomes
<1> QED  BY <1>1, <1>4, <1>5 DEF Counts, OutcomesAreCounted, Outcomes

\* A review of c by r: r has at most one more checkpoint standing with this
\* outcome, and nobody has more of anything else.
LEMMA ReviewStands ==
  ASSUME Core, Counts, NEW c \in Checkpoints, NEW r \in Reviewers,
         NEW o \in Outcomes,
         IsReviewedBy(c, r), status' = [status EXCEPT ![c] = o]
  PROVE  /\ ReviewsAreFinite'
         /\ \A d \in Checkpoints : status'[d] \in Outcomes =>
               \E q \in Reviewers : d \in reviewed'[q]
         /\ \A q \in Reviewers, s \in Outcomes :
               /\ Cardinality(Standing(q, s)') \in Nat
               /\ Cardinality(Standing(q, s)) \in Nat
               /\ Cardinality(Standing(q, s)') <=
                     IF q = r /\ s = o THEN Cardinality(Standing(q, s)) + 1
                     ELSE Cardinality(Standing(q, s))
<1>1. /\ \A q \in Reviewers : reviewed'[q] =
            IF q = r THEN reviewed[q] \cup {c} ELSE reviewed[q] \ {c}
      /\ status'[c] = o /\ \A d \in Checkpoints \ {c} : status'[d] = status[d]
  BY DEF IsReviewedBy, Core, TypeOK
<1>2. ReviewsAreFinite'
  <2> SUFFICES ASSUME NEW q \in Reviewers PROVE IsFiniteSet(reviewed'[q])
    BY DEF ReviewsAreFinite
  <2>1. IsFiniteSet(reviewed[q])
    BY DEF Counts, ReviewsAreFinite
  <2>2. IsFiniteSet(reviewed[q] \cup {c}) /\ IsFiniteSet(reviewed[q] \ {c})
    BY <2>1, FS_AddElement, FS_RemoveElement
  <2> QED  BY <1>1, <2>2
<1>3. ASSUME NEW d \in Checkpoints, status'[d] \in Outcomes
      PROVE  \E q \in Reviewers : d \in reviewed'[q]
  <2>1. CASE d = c
    BY <1>1, <2>1
  <2>2. CASE d # c
    <3>1. PICK q \in Reviewers : d \in reviewed[q]
      BY <1>1, <1>3, <2>2 DEF Counts, OutcomesAreCounted, Outcomes
    <3> QED  BY <1>1, <2>2, <3>1
  <2> QED  BY <2>1, <2>2
<1>4. ASSUME NEW q \in Reviewers, NEW s \in Outcomes
      PROVE  /\ Cardinality(Standing(q, s)') \in Nat
             /\ Cardinality(Standing(q, s)) \in Nat
             /\ Cardinality(Standing(q, s)') <=
                   IF q = r /\ s = o THEN Cardinality(Standing(q, s)) + 1
                   ELSE Cardinality(Standing(q, s))
  <2> DEFINE S == Standing(q, s)
             T == Standing(q, s)'
  <2>0. ASSUME NEW d \in T PROVE d \in S \/ (q = r /\ s = o /\ d = c)
    <3>1. d \in reviewed'[q] /\ status'[d] = s
      BY DEF Standing
    <3>2. d \in Checkpoints /\ (d # c => d \in reviewed[q])
      <4>1. d \in reviewed[q] \/ d = c
        BY <1>1, <3>1
      <4>2. reviewed[q] \in SUBSET Checkpoints
        BY DEF Core, TypeOK
      <4> QED  BY <4>1, <4>2
    <3>3. CASE d = c
      BY <1>1, <3>1, <3>3
    <3>4. CASE d # c
      BY <1>1, <3>1, <3>2, <3>4 DEF Standing
    <3> QED  BY <3>3, <3>4
  <2>1. ReviewsAreFinite
    BY DEF Counts
  <2>2. /\ IsFiniteSet(S) /\ Cardinality(S) \in Nat
        /\ \A U \in SUBSET S : Cardinality(U) \in Nat /\ Cardinality(U) <= Cardinality(S)
    BY <2>1, StandingIsFinite
  <2>3. CASE q = r /\ s = o
    <3>1. T \in SUBSET (S \cup {c})
      BY <2>0, <2>3
    <3> HIDE DEF S, T
    <3>2. /\ IsFiniteSet(S \cup {c})
          /\ Cardinality(S \cup {c}) \in {Cardinality(S), Cardinality(S) + 1}
          /\ Cardinality(S \cup {c}) \in Nat
      <4>1. /\ IsFiniteSet(S \cup {c})
            /\ Cardinality(S \cup {c}) =
                  IF c \in S THEN Cardinality(S) ELSE Cardinality(S) + 1
        BY <2>2, FS_AddElement, Zenon
      <4> QED  BY <2>2, <4>1
    <3>3. /\ IsFiniteSet(T) /\ Cardinality(T) <= Cardinality(S \cup {c})
      BY <3>1, <3>2, FS_Subset
    <3>4. Cardinality(T) \in Nat
      BY <3>3, FS_CardinalityType
    <3>5. Cardinality(T) <= Cardinality(S) + 1
      BY <2>2, <3>2, <3>3, <3>4
    <3> QED  BY <2>2, <2>3, <3>4, <3>5 DEF S, T
  <2>4. CASE ~(q = r /\ s = o)
    <3>1. T \in SUBSET S
      BY <2>0, <2>4
    <3> HIDE DEF S, T
    <3>2. Cardinality(T) \in Nat /\ Cardinality(T) <= Cardinality(S)
      BY <2>2, <3>1
    <3> QED  BY <2>2, <2>4, <3>2 DEF S, T
  <2> QED  BY <2>3, <2>4
<1> QED  BY <1>2, <1>3, <1>4

\* A review is counted when it is made: an approval as a review, an override
\* as both.
LEMMA ReviewCounted ==
  ASSUME Core, Counts, NEW c \in Checkpoints, NEW r \in Reviewers,
         \/ \E sig \in Signatures : SubmissionApproves(c, r, sig)
         \/ SubmitOverride(c, r)
  PROVE  Counts'
<1> DEFINE n(q, s) == Cardinality(Standing(q, s))
<1>1. \A q \in Reviewers : /\ stats[q].total \in Int /\ stats[q].overrides \in Int
                           /\ n(q, "APPROVED") <= stats[q].total - stats[q].overrides
                           /\ n(q, "REJECTED") <= stats[q].overrides
  BY ThemisAssumption DEF Core, TypeOK, Stats, Counts, OutcomesAreCounted
<1>2. PICK o \in Outcomes :
         /\ IsReviewedBy(c, r) /\ status' = [status EXCEPT ![c] = o]
         /\ \A q \in Reviewers \ {r} : stats'[q] = stats[q]
         /\ stats'[r].total = stats[r].total + 1
         /\ stats'[r].overrides =
               IF o = "REJECTED" THEN stats[r].overrides + 1 ELSE stats[r].overrides
  <2>1. CASE SubmitOverride(c, r)
    <3>1. "REJECTED" \in Outcomes
      BY DEF Outcomes
    <3> QED  BY <2>1, <3>1 DEF SubmitOverride, Overridden, Core, TypeOK
  <2>2. CASE \E sig \in Signatures : SubmissionApproves(c, r, sig)
    <3>1. "APPROVED" \in Outcomes /\ "APPROVED" # "REJECTED"
      BY DEF Outcomes
    <3>2. /\ IsReviewedBy(c, r) /\ status' = [status EXCEPT ![c] = "APPROVED"]
          /\ stats' = [stats EXCEPT ![r] = Reviewed(stats[r], RubberStamp(c))]
      BY <2>2 DEF SubmissionApproves
    <3> QED  BY <3>1, <3>2 DEF Reviewed, Core, TypeOK
  <2> QED  BY <2>1, <2>2
<1>3. /\ ReviewsAreFinite'
      /\ \A d \in Checkpoints : status'[d] \in Outcomes =>
            \E q \in Reviewers : d \in reviewed'[q]
      /\ \A q \in Reviewers, s \in Outcomes :
            /\ n(q, s)' \in Nat /\ n(q, s) \in Nat
            /\ n(q, s)' <= IF q = r /\ s = o THEN n(q, s) + 1 ELSE n(q, s)
  BY <1>2, ReviewStands
<1>4. /\ "APPROVED" \in Outcomes /\ "REJECTED" \in Outcomes
      /\ o = "REJECTED" \/ (o = "APPROVED" /\ o # "REJECTED")
  BY <1>2 DEF Outcomes
<1> HIDE DEF n
<1>5. ASSUME NEW q \in Reviewers
      PROVE  /\ n(q, "APPROVED")' <= stats'[q].total - stats'[q].overrides
             /\ n(q, "REJECTED")' <= stats'[q].overrides
  <2>1. CASE q = r
    BY <1>1, <1>2, <1>3, <1>4, <2>1
  <2>2. CASE q # r
    BY <1>1, <1>2, <1>3, <1>4, <2>2
  <2> QED  BY <2>1, <2>2
<1> QED  BY <1>3, <1>5 DEF Counts, OutcomesAreCounted, Outcomes, n

\* Nothing has been reviewed when the engine starts.
LEMMA InitCounts == Init => Counts
<1> SUFFICES ASSUME Init PROVE Counts
  OBVIOUS
<1>1. \A r \in Reviewers : /\ reviewed[r] = {}
                           /\ stats[r].total = 0 /\ stats[r].overrides = 0
                           /\ Standing(r, "APPROVED") = {}
                           /\ Standing(r, "REJECTED") = {}
  BY DEF Init, Standing
<1>2. IsFiniteSet({}) /\ Cardinality({}) = 0
  BY FS_EmptySet
<1>3. \A c \in Checkpoints : status[c] \notin {"APPROVED", "REJECTED"}
  BY DEF Init
<1>4. ASSUME NEW r \in Reviewers
      PROVE  /\ IsFiniteSet(reviewed[r])
             /\ Cardinality(Standing(r, "APPROVED"))
                   <= stats[r].total - stats[r].overrides
             /\ Cardinality(Standing(r, "REJECTED")) <= stats[r].overrides
  <2> DEFINE A == Standing(r, "APPROVED")
             B == Standing(r, "REJECTED")
  <2>1. /\ reviewed[r] = {} /\ A = {} /\ B = {}
        /\ stats[r].total = 0 /\ stats[r].overrides = 0
    BY <1>1
  <2> HIDE DEF A, B
  <2>2. Cardinality(A) = 0 /\ Cardinality(B) = 0 /\ IsFiniteSet(reviewed[r])
    BY <1>2, <2>1, Zenon
  <2>3. Cardinality(A) <= stats[r].total - stats[r].overrides
        /\ Cardinality(B) <= stats[r].overrides
    BY <2>1, <2>2
  <2> QED  BY <2>2, <2>3 DEF A, B
<1> QED  BY <1>3, <1>4 DEF Counts, ReviewsAreFinite, OutcomesAreCounted

\* Only reviews give a checkpoint an outcome, and they are counted.
LEMMA StepCounts == Core /\ Counts /\ [Next]_vars => Counts'
<1> SUFFICES ASSUME Core, Counts, [Next]_vars PROVE Counts'
  OBVIOUS
<1> DEFINE Quiet == /\ UNCHANGED <<stats, reviewed>>
                    /\ \A c \in Checkpoints, o \in Outcomes :
                          status'[c] = o => status[c] = o
<1> USE DEF Core, TypeOK
<1>1. ASSUME UNCHANGED <<status, stats, reviewed>> PROVE Quiet
  BY <1>1
<1>2. ASSUME NEW c \in Checkpoints, CreateCheckpoint(c) PROVE Quiet
  BY <1>2 DEF CreateCheckpoint, historyVars, Outcomes
<1>3. ASSUME NEW c \in Checkpoints, SubmissionAborts(c) PROVE Quiet
  BY <1>3 DEF SubmissionAborts, historyVars, Outcomes
<1> HIDE DEF Quiet, Core, TypeOK
<1>4. ASSUME NEW c \in Checkpoints, NEW r \in Reviewers, NEW sig \in Signatures,
             SubmitApproval(c, r, sig)
      PROVE  Counts'
  <2>1. CASE SubmissionAborts(c)
    BY <1>3, <2>1, NoReview DEF Quiet
  <2>2. CASE SubmissionRefused(c, r, sig)
    BY <1>1, <2>2, NoReview DEF SubmissionRefused, vars, engineVars, historyVars, Quiet
  <2>3. CASE SubmissionApproves(c, r, sig)
    BY <2>3, ReviewCounted
  <2> QED  BY <1>4, <2>1, <2>2, <2>3 DEF SubmitApproval
<1>5. ASSUME NEW c \in Checkpoints, NEW r \in Reviewers, SubmitOverride(c, r)
      PROVE  Counts'
  BY <1>5, ReviewCounted
<1>6. ASSUME Quiet PROVE Counts'
  BY <1>6, NoReview DEF Quiet
<1> QED
  BY <1>1, <1>2, <1>4, <1>5, <1>6
  DEF Next, RegisterReviewer, StateChanges, Sign, TimePasses, vars, engineVars,
      historyVars

-----------------------------------------------------------------------------
(* Theorems *)

\* The inductive invariant.
THEOREM Invariance == Spec => []IndInv
<1>1. IndInv <=> Core /\ Counts
  BY DEF IndInv, Core, Counts
<1> QED  BY <1>1, InitCore, StepCore, InitCounts, StepCounts, PTL DEF Spec

\* Every checkpoint that stands approved or rejected has a reviewer, and what
\* stands of a reviewer is covered by the reviewer's statistics.
THEOREM OutcomesCounted == Spec => []OutcomesAreCounted
<1>1. IndInv => OutcomesAreCounted
  BY DEF IndInv
<1> QED  BY <1>1, Invariance, PTL

\* Every reachable state is well typed.
THEOREM TypeCorrect == Spec => []TypeOK
<1>1. IndInv => TypeOK
  BY DEF IndInv
<1> QED  BY <1>1, Invariance, PTL

\* No path reaches APPROVED without a signature with a reviewer's key over
\* the digest the checkpoint was paused with.
THEOREM ApprovedSigned == Spec => []ApprovedWasSigned
<1>1. IndInv => ApprovedWasSigned
  BY DEF IndInv
<1> QED  BY <1>1, Invariance, PTL

\* No checkpoint is aborted unless its state changed during the pause.
THEOREM AbortedMutated == Spec => []AbortedWasMutated
<1>1. IndInv => AbortedWasMutated
  BY DEF IndInv
<1> QED  BY <1>1, Invariance, PTL

\* A step that approves a checkpoint finds its state as it was paused and a
\* signature with a key that is a reviewer's at that moment.
THEOREM ApprovalCurrent == Spec => ApprovalIsCurrent
<1> DEFINE Approves(c) == status[c] # "APPROVED" /\ status'[c] = "APPROVED"
           Current(c) == /\ Digest[exec[c]] = paused[c]
                         /\ \E r \in Reviewers : <<reviewerKey[r], paused[c]>> \in signed
<1>1. IndInv /\ [Next]_vars => \A c \in Checkpoints : Approves(c) => Current(c)
  <2> SUFFICES ASSUME IndInv, [Next]_vars, NEW c \in Checkpoints, Approves(c)
               PROVE  Current(c)
    OBVIOUS
  <2> USE DEF IndInv, TypeOK
  <2>1. ASSUME NEW d \in Checkpoints, NEW r \in Reviewers,
               NEW sig \in Signatures, SubmitApproval(d, r, sig)
        PROVE  Current(c)
    <3>1. SubmissionApproves(d, r, sig) /\ d = c
      BY <2>1 DEF SubmitApproval, SubmissionAborts, SubmissionRefused,
                  SubmissionApproves, vars, engineVars
    <3>2. sig = <<reviewerKey[r], paused[c]>> /\ sig \in Keys \X Digests
      BY <3>1 DEF SubmissionApproves, Verifies
    <3>3. sig \in signed
      BY <2>1, <3>2, ThemisAssumption DEF SubmitApproval, Submittable
    <3> QED  BY <3>1, <3>2, <3>3 DEF SubmissionApproves
  <2>2. ASSUME NEW d \in Checkpoints, CreateCheckpoint(d) PROVE FALSE
    BY <2>2 DEF CreateCheckpoint
  <2>3. ASSUME NEW d \in Checkpoints, NEW r \in Reviewers, SubmitOverride(d, r)
        PROVE  FALSE
    BY <2>3 DEF SubmitOverride
  <2>4. ASSUME UNCHANGED status PROVE FALSE
    BY <2>4
  <2> QED
    BY <2>1, <2>2, <2>3, <2>4
    DEF Next, RegisterReviewer, StateChanges, Sign, TimePasses, vars, engineVars
<1> QED  BY <1>1, Invariance, PTL DEF Spec, ApprovalIsCurrent
=============================================================================
