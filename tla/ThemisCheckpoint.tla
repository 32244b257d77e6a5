-------------------------- MODULE ThemisCheckpoint --------------------------
(***************************************************************************)
(* ThemisCheckpointEngine (governance/themis.py): a workflow is paused at  *)
(* a checkpoint bound to the digest of its execution state, and a human    *)
(* approves it with a signature over that digest or overrides it.  Around  *)
(* the engine: the host, whose execution state may change during the       *)
(* pause, the reviewers, who sign digests, and the clock.                  *)
(*                                                                         *)
(* A signature that verifies is a pair <<key, digest>> that was signed;    *)
(* any other string is BadSignature (it parses but verifies under no key)  *)
(* or NotHex (bytes.fromhex raises).  Dwell times are kept up to           *)
(* MinDwell, the only value they are compared with.                        *)
(*                                                                         *)
(* signed, registered and mutated are history variables: every signature   *)
(* made, every key that was ever a reviewer's, and the checkpoints whose   *)
(* digest changed after the pause; approver is the key that verified the   *)
(* latest approval of a checkpoint, and reviewed has, for each reviewer,   *)
(* the checkpoints whose latest review is theirs.  The engine reads none   *)
(* of them but signed, which stands for the cryptography.                  *)
(***************************************************************************)
EXTENDS Integers, FiniteSets

CONSTANTS
    Checkpoints,     \* checkpoint ids, in the order-free world of uuids
    Reviewers,       \* reviewer ids
    Keys,            \* key pairs of people, reviewers or not
    ExecStates,      \* execution states of the host
    Digest,          \* compute_state_hash: states may share a digest
    MinDwell,        \* min_inspection_dwell_ms, in ticks
    MaxReviews,      \* bound: reviews counted of one reviewer
    NoKey, BadSignature, NotHex

Digests == {Digest[x] : x \in ExecStates}
Signatures == (Keys \X Digests) \cup {BadSignature, NotHex}

ASSUME ThemisAssumption ==
    /\ Digest = [x \in ExecStates |-> Digest[x]]
    /\ MinDwell \in Nat
    /\ MaxReviews \in Nat
    /\ NoKey \notin Keys
    /\ {BadSignature, NotHex} \cap (Keys \X Digests) = {}

VARIABLES
    status,        \* status of a checkpoint, IDLE before it is created
    paused,        \* its paused_state_hash
    dwell,         \* time since presentation_timestamp_ms
    reviewerKey,   \* authorized_reviewer_keys
    stats,         \* _reviewer_stats
    exec,          \* the host's execution state of the workflow
    signed, registered, mutated, approver, reviewed

engineVars == <<status, paused, dwell, reviewerKey, stats>>
historyVars == <<signed, registered, mutated, approver, reviewed>>
vars == <<engineVars, exec, historyVars>>

CheckpointStatus == {"IDLE", "PENDING_HUMAN", "APPROVED", "REJECTED", "ABORTED"}
Stats == [total : 0 .. MaxReviews, overrides : 0 .. MaxReviews,
          rubber : 0 .. MaxReviews]

TypeOK ==
    /\ status \in [Checkpoints -> CheckpointStatus]
    /\ paused \in [Checkpoints -> Digests]
    /\ dwell \in [Checkpoints -> 0 .. MinDwell]
    /\ reviewerKey \in [Reviewers -> Keys \cup {NoKey}]
    /\ stats \in [Reviewers -> Stats]
    /\ exec \in [Checkpoints -> ExecStates]
    /\ signed \subseteq Keys \X Digests
    /\ registered \subseteq Keys
    /\ mutated \subseteq Checkpoints
    /\ approver \in [Checkpoints -> Keys \cup {NoKey}]
    /\ reviewed \in [Reviewers -> SUBSET Checkpoints]

Init ==
    /\ status = [c \in Checkpoints |-> "IDLE"]
    /\ exec \in [Checkpoints -> ExecStates]
    /\ paused = [c \in Checkpoints |-> Digest[exec[c]]]
    /\ dwell = [c \in Checkpoints |-> 0]
    /\ reviewerKey = [r \in Reviewers |-> NoKey]
    /\ stats = [r \in Reviewers |-> [total |-> 0, overrides |-> 0, rubber |-> 0]]
    /\ signed = {}
    /\ registered = {}
    /\ mutated = {}
    /\ approver = [c \in Checkpoints |-> NoKey]
    /\ reviewed = [r \in Reviewers |-> {}]

Created(c) == status[c] # "IDLE"

-----------------------------------------------------------------------------
(* The engine *)

RegisterReviewer(r, k) ==
    /\ reviewerKey' = [reviewerKey EXCEPT ![r] = k]
    /\ registered' = registered \cup {k}
    /\ UNCHANGED <<status, paused, dwell, stats, exec, signed, mutated, approver,
                   reviewed>>

\* Mutated form of CreateCheckpoint: the digest of an earlier state is kept.
CreateCheckpointStale(c) ==
    /\ ~Created(c)
    /\ status' = [status EXCEPT ![c] = "PENDING_HUMAN"]
    /\ dwell' = [dwell EXCEPT ![c] = 0]
    /\ UNCHANGED <<paused, reviewerKey, stats, exec, historyVars>>

CreateCheckpoint(c) ==
    /\ ~Created(c)
    /\ status' = [status EXCEPT ![c] = "PENDING_HUMAN"]
    /\ paused' = [paused EXCEPT ![c] = Digest[exec[c]]]
    /\ dwell' = [dwell EXCEPT ![c] = 0]
    /\ UNCHANGED <<reviewerKey, stats, exec, historyVars>>

\* submit_approval looks at the state before it looks at the reviewer: a
\* submission by anybody aborts the checkpoint when the state has drifted.
SubmissionAborts(c) ==
    /\ Created(c)
    /\ Digest[exec[c]] # paused[c]
    /\ status' = [status EXCEPT ![c] = "ABORTED"]
    /\ UNCHANGED <<paused, dwell, reviewerKey, stats, exec, historyVars>>

\* Mutated form of Verifies: the signature is checked over any digest.
VerifiesAnyDigest(r, sig, c) ==
    /\ reviewerKey[r] # NoKey
    /\ sig \in {reviewerKey[r]} \X Digests

Verifies(r, sig, c) ==
    /\ reviewerKey[r] # NoKey
    /\ sig = <<reviewerKey[r], paused[c]>>

\* The answer is REJECTED (unknown reviewer, bad signature) or an exception
\* (unknown checkpoint, signature that is not hex); nothing is stored.
SubmissionRefused(c, r, sig) ==
    /\ Created(c) => Digest[exec[c]] = paused[c] /\ ~Verifies(r, sig, c)
    /\ UNCHANGED vars

RubberStamp(c) == dwell[c] < MinDwell

\* Mutated forms of Reviewed and Overridden: flagged reviews are not counted
\* as reviews, nor are overrides.
ReviewedUnlessFlagged(s, fast) ==
    IF fast THEN [s EXCEPT !.rubber = @ + 1] ELSE [s EXCEPT !.total = @ + 1]
OverriddenOnly(s) == [s EXCEPT !.overrides = @ + 1]

\* The statistics s of a reviewer after one more review.
Reviewed(s, fast) ==
    [total |-> s.total + 1, overrides |-> s.overrides,
     rubber |-> IF fast THEN s.rubber + 1 ELSE s.rubber]
Overridden(s) ==
    [total |-> s.total + 1, overrides |-> s.overrides + 1, rubber |-> s.rubber]

\* The latest review of c is one by r.
IsReviewedBy(c, r) ==
    reviewed' = [q \in Reviewers |->
                    IF q = r THEN reviewed[q] \cup {c} ELSE reviewed[q] \ {c}]

\* Mutated form of SubmissionApproves: the current state is not hashed again.
SubmissionApprovesUnseen(c, r, sig) ==
    /\ Created(c)
    /\ Verifies(r, sig, c)
    /\ stats[r].total < MaxReviews
    /\ stats' = [stats EXCEPT ![r] = Reviewed(@, RubberStamp(c))]
    /\ status' = [status EXCEPT ![c] = "APPROVED"]
    /\ approver' = [approver EXCEPT ![c] = reviewerKey[r]]
    /\ IsReviewedBy(c, r)
    /\ UNCHANGED <<paused, dwell, reviewerKey, exec, signed, registered, mutated>>

SubmissionApproves(c, r, sig) ==
    /\ Created(c)
    /\ Digest[exec[c]] = paused[c]
    /\ Verifies(r, sig, c)
    /\ stats[r].total < MaxReviews
    /\ stats' = [stats EXCEPT ![r] = Reviewed(@, RubberStamp(c))]
    /\ status' = [status EXCEPT ![c] = "APPROVED"]
    /\ approver' = [approver EXCEPT ![c] = reviewerKey[r]]
    /\ IsReviewedBy(c, r)
    /\ UNCHANGED <<paused, dwell, reviewerKey, exec, signed, registered, mutated>>

\* Only a signature that somebody made can be submitted, or a broken one.
Submittable == signed \cup {BadSignature, NotHex}

SubmitApproval(c, r, sig) ==
    /\ sig \in Submittable
    /\ \/ SubmissionAborts(c)
       \/ SubmissionRefused(c, r, sig)
       \/ SubmissionApproves(c, r, sig)

\* An override with a category of the taxonomy; the others and unknown
\* checkpoints raise before anything is stored.  The reviewer need not be
\* registered.
SubmitOverride(c, r) ==
    /\ Created(c)
    /\ stats[r].total < MaxReviews
    /\ status' = [status EXCEPT ![c] = "REJECTED"]
    /\ stats' = [stats EXCEPT ![r] = Overridden(@)]
    /\ IsReviewedBy(c, r)
    /\ UNCHANGED <<paused, dwell, reviewerKey, exec, signed, registered, mutated,
                   approver>>

-----------------------------------------------------------------------------
(* The host, the reviewers and the clock *)

StateChanges(c, x) ==
    /\ x # exec[c]
    /\ exec' = [exec EXCEPT ![c] = x]
    /\ mutated' = IF Created(c) /\ Digest[x] # paused[c]
                  THEN mutated \cup {c} ELSE mutated
    /\ UNCHANGED <<engineVars, signed, registered, approver, reviewed>>

\* Somebody signs the digest that a pending checkpoint shows.
Sign(c, k) ==
    /\ status[c] = "PENDING_HUMAN"
    /\ signed' = signed \cup {<<k, paused[c]>>}
    /\ UNCHANGED <<engineVars, exec, registered, mutated, approver, reviewed>>

TimePasses ==
    /\ dwell' = [c \in Checkpoints |->
                   IF Created(c) /\ dwell[c] < MinDwell
                   THEN dwell[c] + 1 ELSE dwell[c]]
    /\ UNCHANGED <<status, paused, reviewerKey, stats, exec, historyVars>>

Next ==
    \/ \E r \in Reviewers, k \in Keys : RegisterReviewer(r, k)
    \/ \E c \in Checkpoints : CreateCheckpoint(c)
    \/ \E c \in Checkpoints, r \in Reviewers, sig \in Signatures :
          SubmitApproval(c, r, sig)
    \/ \E c \in Checkpoints, r \in Reviewers : SubmitOverride(c, r)
    \/ \E c \in Checkpoints, x \in ExecStates : StateChanges(c, x)
    \/ \E c \in Checkpoints, k \in Keys : Sign(c, k)
    \/ TimePasses

Spec == Init /\ [][Next]_vars

-----------------------------------------------------------------------------
(* Properties *)

\* No path leads to APPROVED without a signature, over the digest that the
\* checkpoint was paused with, made with a key that was a reviewer's
\* (themis.py:103,116,132): not through an abort, an override, a changed
\* reviewer key or a second submission in between.
ApprovedWasSigned ==
    \A c \in Checkpoints : status[c] = "APPROVED" =>
        /\ approver[c] \in registered
        /\ <<approver[c], paused[c]>> \in signed

\* A step that approves does so for the state the workflow has at that
\* moment and under a key that is a reviewer's at that moment, whatever was
\* signed or registered before (themis.py:102,127).
ApprovalIsCurrent ==
    [][\A c \in Checkpoints :
         status[c] # "APPROVED" /\ status'[c] = "APPROVED" =>
            /\ Digest[exec[c]] = paused[c]
            /\ \E r \in Reviewers : <<reviewerKey[r], paused[c]>> \in signed]_vars

\* A checkpoint is aborted only if its execution state really got another
\* digest after the pause; equal states written differently do not abort it
\* (themis.py:60,103).
AbortedWasMutated ==
    \A c \in Checkpoints : status[c] = "ABORTED" => c \in mutated

\* The reviewer statistics account for the outcomes: every checkpoint that
\* stands approved or rejected was reviewed by somebody, and no reviewer has
\* more approvals standing than reviews counted that were not overrides, nor
\* more rejections than overrides, however often the checkpoints were reviewed
\* again, by others too, or aborted in between (themis.py:150,189).
Standing(r, outcome) == {c \in reviewed[r] : status[c] = outcome}
OutcomesAreCounted ==
    /\ \A c \in Checkpoints : status[c] \in {"APPROVED", "REJECTED"} =>
          \E r \in Reviewers : c \in reviewed[r]
    /\ \A r \in Reviewers :
          /\ Cardinality(Standing(r, "APPROVED"))
                <= stats[r].total - stats[r].overrides
          /\ Cardinality(Standing(r, "REJECTED")) <= stats[r].overrides

\* What the proofs need besides: flagged reviews and overrides are disjoint
\* parts of the reviews counted, a reviewer's key has been registered, and a
\* checkpoint whose state is not the one it was paused with has been mutated;
\* a reviewer has reviewed finitely many (themis.py:56,150-152,189-190).
StatsAddUp ==
    \A r \in Reviewers : stats[r].rubber + stats[r].overrides <= stats[r].total
DriftIsMutation ==
    \A c \in Checkpoints :
        Created(c) /\ Digest[exec[c]] # paused[c] => c \in mutated
ReviewsAreFinite == \A r \in Reviewers : IsFiniteSet(reviewed[r])
KeysAreRegistered ==
    \A r \in Reviewers : reviewerKey[r] # NoKey => reviewerKey[r] \in registered
IndInv ==
    /\ TypeOK
    /\ KeysAreRegistered
    /\ StatsAddUp
    /\ ApprovedWasSigned
    /\ AbortedWasMutated
    /\ DriftIsMutation
    /\ ReviewsAreFinite
    /\ OutcomesAreCounted

\* themis.py:97: "Checkpoint '{checkpoint_id}' not found or already resolved."
ResolvedIsFinal ==
    [][\A c \in Checkpoints :
         status[c] \in {"APPROVED", "REJECTED", "ABORTED"} =>
            status'[c] = status[c]]_vars
=============================================================================
