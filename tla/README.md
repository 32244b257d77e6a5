# TLA+ verification of the agentic governance runtime

This directory holds TLA+ models of the runtime in `src/src/agentic_gov`, TLC
configurations that check them on small instances, and TLAPS proofs of the
properties that matter most. File names below are relative to
`src/src/agentic_gov` unless they start with `src/`. `PROJECT.json` has, for
every definition that models code, the lines it stands for, and the list of
hazards that the properties are aimed at.

## 1. Inventory

The runtime is a library inside an agent host. Everything but the telemetry
sink is synchronous: a call runs to its end before another starts, so the
interleavings are those of *calls*. The host decides their order, runs tools
itself and reports outcomes later; clocks move between any two calls.

| Part | State | Operations | What can be hard | What makes it correct |
|---|---|---|---|---|
| Trust engine, `core/trust.py` | score, state and history of each agent, created at the first read | get_score, get_state, set_state, apply_penalty, record_successful_turn, can_dispatch_tools | lazy creation against set_state; late successes after a quarantine; thresholds | a struck agent at a critical score is quarantined; quarantine is lifted by the operator only; refusals have a budget |
| Dependency breaker, `governance/circuit_breakers.py` | state, failure count, trip time of each tool | get_state, can_dispatch, record_success, record_failure_or_timeout | outcomes of admitted calls arrive after a trip; half open is only entered by a read | closed iff below the threshold; quiet period; an open breaker does not stay open for good |
| Loop ceiling, PSI drift, same file | turns of each session; none | increment_and_check, reset, evaluate_drift | never called by the runtime; several loops of a session between their question and their tool call; resets meanwhile | tool calls of a session are capped, loops end |
| Tool gate, `security/tool_gate.py` | the allowed tools | validate_tool_call | `set()` means the default tools | verdicts by its checks |
| Runtime, `middleware.py` | owns the others | inspect_input, validate_tool, sanitize_output, record_decision_node, register_agent | one step reads and changes trust, breaker and gate | the order trust, breaker, gate; penalties for refusals |
| Themis checkpoints, `governance/themis.py` | checkpoints with digest and status, reviewer keys, statistics | register_reviewer, create_checkpoint, submit_approval, submit_override | the host's state changes between pause, signature and submission; keys change; resolved checkpoints are submitted again | no approval without a signature over the paused digest; approval is current; aborts are due to mutations |
| Telemetry sink, `telemetry/storage.py` | queue, pool, memory buffer, worker task | initialize, enqueue_event, _flush_loop, _write_batch, aclose, exit handler | tasks interleave at awaits; the database fails at any await; cancellation in the middle of a batch; process exit | what may be lost, and when; nothing held twice; rows late by one batch at most; aclose returns; the queue drains |
| Identity, `core/identity.py` | key versions of each agent; nonces with timestamps | register_agent, rotate_key, get_active_public_keys, sign_envelope, verify_envelope, check_and_add | envelopes delayed, repeated, damaged; clocks differ; a full store; two clock readings in one verification | an envelope is accepted once; the store is bounded; rotation keeps the old key for a while |
| Decision ledger, `ledger/atlas.py` | nodes, order, two edge indices, memoized root | create_action_node, get_node, compute_dag_root_hash, generate/verify_inclusion_proof, verify_node_integrity | the memo; proofs kept while the ledger grows; node objects handed out, whose holders may write any field | root is current; a proof that verifies is exact; an object that verifies has the edges of the node whose hash it carries |
| Salt store, `ledger/privacy.py` | salts and records by payload id | generate_and_store_salt, execute_gdpr_article_17_erasure | a recording that fails half way; reused ids | erasure cannot be undone |
| Timestamp anchor, `ledger/anchor.py` | none | anchor_root_hash, verify_anchor_receipt | receipts kept while the ledger grows, altered and signed again | an unaltered receipt verifies for the ledger of its moment alone |
| Prompt interceptor, `security/interceptor.py` | a model that may not be loaded | inspect_input | two of three layers may give no answer, on any prompt, and then pass it | what passes although nobody vouched for it |
| Agent loops, as in `src/examples/langgraph_integration.py` | where each loop is | the host's order of inspect_input, validate_tool, running the tool | an agent is restricted by one loop while another has passed its checks and not yet started its tool; outcomes reported twice or never | a restricted loop starts what it was cleared for and no more |
| Policy registry and gates, `governance/policy.py` | policies and hashes by rule id | register_policy, get_committed_id, validate_retrieval_query, ... | never called by the runtime | – |
| Output sanitizer, `security/sanitization.py` | none | sanitize_output, wrap_untrusted_context | – | – |
| Explainability, OTel, exporter, `telemetry/*` | none | assemble, format, print | – | – |

Interactions: `validate_tool` reads the trust engine, then the breaker, then
the gate, and feeds a refusal back into the trust engine
(`middleware.py:118-157`). The host feeds outcomes into the breaker and the
trust engine. `record_decision_node` draws a salt, stores the record, inserts a
node and enqueues an event (`middleware.py:163-190`). The anchor takes the
ledger's root. Envelopes, checkpoints and the runtime share nothing. Hosts tie
the rest together: the example scans the prompt, has the tool call validated,
sanitizes and records the answer and pauses for approval.

## 2. Modules

    TrustEngine  DependencyBreaker  ToolGate     LoopCeiling  PromptInterceptor
             \          |          /                  |          |
              GovernanceRuntime . . . . . . . . . . AgentWorkflows
               |             |                      |        |
           MCRuntime  GovernanceRuntimeProofs <- WorkflowProofs  MCWorkflows

    ThemisCheckpoint  NonceReplayStore ReplayGuard  EventFates   AuditLog
      |       |               |         .            .             .
      |       |           IdentityChannel     TelemetrySink  DecisionLedger
      |       |             |         |          |       |     |        |
    MCThemis  |       MCIdentity      |    MCTelemetry   |  MCLedger    |
         ThemisProofs          IdentityProofs      SinkProofs    LedgerProofs

Lines are EXTENDS. Dots lead to a specification that is used as an instance:
GovernanceRuntime is composed with the loops, and ReplayGuard, EventFates and
AuditLog are the abstract ones that the modules below them implement. The arrow
is the runtime's theorem, cited in the proofs about the loops.

* **TrustEngine, DependencyBreaker, ToolGate** are the three parts of
  `validate_tool`: their state and one operator for each method. `known` in
  TrustEngine is the set of agents with an entry in `_scores`; every read of an
  agent (`Read`) creates its entries, because `get_score` does. The breaker's
  failure count stops at the threshold and its trip time is kept as an age that
  stops behind the recovery time: the code only compares them with these two
  numbers. A query of the gate is the set of checks it fails.
* **GovernanceRuntime** composes the three and adds the host. One action for
  each way out of `validate_tool` (`BlockedByTrust`, `FallbackByBreaker`,
  `RejectedByGate`, `Admitted`). Nothing in the code ties an admitted call to
  the outcome that the host reports to the breaker, so a call is reported
  never, once or twice (`Reports`): `pending` counts the reports to come, and
  they arrive late and in any order (`ToolSucceeded`, `ToolFailed`).
  `TurnSucceeded`, `HostPenalises`, `OperatorSetsState` and `TimePasses` are
  the other things that happen. `strikes`, `successes` and `sinceFailure` are
  history variables that the properties need.
* **LoopCeiling** has the counter of `LoopCeilingBreaker`,
  **PromptInterceptor** the decision of `inspect_input` over what its three
  layers find and which of them answer.
* **AgentWorkflows** composes these two with an instance of GovernanceRuntime.
  Loops, several of which may share an agent and a session, run turns
  concurrently: ask the ceiling (`TakeTurn`), scan the prompt (`Inspect`), have
  the call validated (`Validate` or `Refused`), start the tool (`Start`) and
  get its result (`ToolReturns`). The check and the start are two steps, and
  anything may happen between them. The order of scan and validation is that
  of the example; the question to the ceiling before each turn is what the
  docs ask for: the example, a single turn, does not ask. Reports to the
  breaker, penalties, resets of the count, restrictions and time happen beside
  the loops. `lateTools` (tools that a loop started since its agent lost the
  right to dispatch) is history, as are `calls`, `carried` and `resets`.
* **ThemisCheckpoint** is the checkpoint engine with the host's execution
  states (some sharing a digest), people who sign digests, changing reviewer
  keys and a clock. `submit_approval` has three outcomes in the order of the
  code: `SubmissionAborts`, `SubmissionRefused`, `SubmissionApproves`.
* **TelemetrySink** is the sink's event loop. An action is what a task does
  from one await to the next; `pc` says where `initialize`, the worker and
  `aclose` are. `_write_batch` is a sub-procedure of two writers, with the
  awaits for the connection, each insertion and the release; each of them may
  raise (`WriteFails`), the worker may be cancelled at each
  (`WorkerCancelled`), and the process may exit at each (`Exit`). An insertion
  under way when something is raised may or may not have taken effect.
  The sink starts with a database configured or without (`dsn`).
* **EventFates** is what a sink promises: every event it accepts is pending
  until it is stored in a table, passed over for want of one, kept in memory,
  or lost. What memory keeps is lost with the process; nothing else is lost
  before the sink is being stopped; what is stored, passed over or lost stays
  so. TelemetrySink implements it; the fate of an event follows from where the
  sink has it, and after `Exit` the memory buffer is nowhere.
* **NonceReplayStore** has the store's operators on a sequence of entries,
  **IdentityChannel** the key versions, envelopes, a transport that loses,
  delays, reorders, repeats and damages them, and `verify_envelope` in the
  order of the code: freshness, nonce (registered here), hash and signature.
  `Slip` is the time between its two readings of the clock. Damage is to body,
  hash or signature; nonce and timestamp are not covered by the signature and
  arrive as sent. `seen`, a history variable, has every nonce the store was
  ever asked about.
* **ReplayGuard** is what replay protection promises: a receiver that remembers
  all it was shown, valid or not, accepts nothing a second time, and may forget
  only when it was shown as much as it has room for. IdentityChannel, whose
  store evicts by the clock and by its capacity, implements it.
* **DecisionLedger** has the nodes, the two indices, the memoized root, salts
  and records, proofs and anchors in the host's hands, and
  `record_decision_node`. A hash is represented by what was hashed: node `n` by
  its number with the contents in `sealed`, a root by its set of nodes, the
  signature of an anchor receipt by the root it was made for. A node object
  carries its own hash and signature, as in the code, and
  `verify_node_integrity` compares it with these (`HashOf`,
  `SignatureVerifies`), not with the hash it was looked up by. Whoever got an
  object may write over it the fields of another node, all of them or mixed
  with its own, or a body, hash or signature of nobody's (`Alterations`); the
  keys sign only nodes as they are made. Of a receipt its keeper may write the
  root, and make the local signature again, which needs no key
  (`AlterReceipt`).
* **AuditLog** is what the ledger promises to those who look from outside:
  entries are only added; what is shown in an entry's place is that entry or
  another one under that one's own number, or does not verify; evidence is
  exact while it holds and void after the next entry; and what an entry was
  about cannot be told again once it was forgotten. DecisionLedger implements
  it: an entry is what was hashed, evidence is what of the kept proofs and
  receipts verifies now, and what can be told is what the salt store can still
  link.

Operators called "mutated form of" something are wrong variants of the
definition after them. Nothing in a specification uses them; they show that a
property notices such a mistake.

## 3. Runs

`tlc -config X.cfg M` for each line; all with the bounds in the cfg.

| Run | Checks | Bounds and why they are enough |
|---|---|---|
| runtime_trust | CriticalScoreIsQuarantined, StrikeBudget, IndInv, QuarantineIsSticky | The program's own threshold 20, penalties and rate 1, so every reachable score; one agent, because agents share no entry; two tools, one not allowed. 22 successful turns and 6 strikes: a fourth refusal is survived only with 21 turns (100 < 80 + 21), a fifth never within the bound. The breaker is at its smallest, it only decides whether a call gets to the gate. |
| runtime_breaker | ClosedIffBelowThreshold, QuietPeriod, OpenIsProbed | Threshold 2, recovery time 2, three reports to come: a trip with one outcome still missing, a late failure that restarts the time, a late success, a failed probe; a call reported twice and one never. Tools share no entry. `allowed_tools` is given as the empty set, so the default tools are used. |
| themis | ApprovedWasSigned, AbortedWasMutated, OutcomesAreCounted, IndInv, ApprovalIsCurrent | Two checkpoints (a signature for one may serve the other), two reviewers, two keys (keys are replaced), three states of which two share a digest, one review each. Symmetric in all three sets. |
| workflows | ToolCallsAreCapped, RestrictedLoopsStartOneTool, IndInv, LoopsEnd | Two loops of one agent in one session, two turns, one reset: both loops past the question at the reset, and more calls than turns afterwards; a loop restricted between its check and its start has a turn left for a second tool. Threshold 50 and one penalty (a failed signature), so that one refusal quarantines; a breaker that trips at the first failure and recovers at the first tick; one tool allowed, one not; all three layers on. |
| telemetry | LossIsOneCancelledBatch, OneWayThrough, RowsAreLateByOneBatch, MemoryIsComplete, IndInv, AcloseTerminates, QueueIsDrained, ImplementsEventFates | With a database and without. Batches of two and five events: two full batches and a rest, so the worker and aclose hold batches at the same time; all three kinds of event. |
| identity_replay | AcceptedOnce, StoreIsBounded, MemoryIsPerfect, IndInv, RetentionIsBounded, ImplementsReplayGuard | Three envelopes for a store of two, clocks a tick off either way, lifetime one tick above the drift, a verification that may take one tick. |
| ledger | CachedRootIsCurrent, ValidProofIsExact, AnchorIsOfItsMoment, SignedEdges, IndInv, ErasureIsPermanent, ImplementsAuditLog | Three nodes with any parents among them and one foreign hash; one kept proof or anchor, of any moment, the anchor by the authority or local, its root altered and its signature made again or not, or else one altered node object, possibly put back (`MaxHeld`: what is kept or altered is compared with the ledger and never with each other); one payload stored under one id again and again. |

IndInv is each module's inductive invariant, of which its TypeOK is a part.

What they show: **CriticalScoreIsQuarantined** no order of refusals, penalties,
turns and operator actions leaves a struck agent at a critical score free.
**StrikeBudget** bounds how often an agent can be refused and still dispatch.
**QuarantineIsSticky** late successes lift nothing. **ClosedIffBelowThreshold**
and **QuietPeriod** hold although outcomes of calls admitted before a trip
arrive after it, some twice and some never. **OpenIsProbed** an open breaker is
probed in the end.
**ApprovedWasSigned** is the human-in-the-loop guarantee, over all
re-submissions, overrides and key changes; **ApprovalIsCurrent** ties it to the
state and key of the moment. **OutcomesAreCounted** says that the statistics of
the reviewers account for every outcome that stands, after any re-reviews, by
any of them, and aborts in between. **LossIsOneCancelledBatch** is all the sink
can lose while the process lives; **OneWayThrough** no event is queued or
written twice by the two writers; **RowsAreLateByOneBatch** rows are in order
until aclose writes beside the worker, and then only the worker's one batch
can come late; **MemoryIsComplete** without a pool the buffer and the queue are
the whole log, in order; **ImplementsEventFates** says in one refinement which
events may be lost and when, that a fate is final, and that memory keeps
nothing beyond the process.
**ToolCallsAreCapped** is the loop ceiling for concurrent loops: each of them
asks before it acts, so all together stay below the limit, and a reset adds at
most the turns that were under way. **RestrictedLoopsStartOneTool** an agent
may lose the right to dispatch between the gate's yes and the start of the
tool, which asks nobody again; that one tool still starts, and no second one.
**LoopsEnd** no order of blocked prompts, refusals and failures keeps a loop
going. **AcceptedOnce** is replay protection,
**MemoryIsPerfect** says that the bounded store tells a seen envelope from a
new one as if it forgot nothing but what overflowed, **ImplementsReplayGuard**
adds that it overflows no earlier than it has to, and **RetentionIsBounded**
that eviction from the left only still forgets nonces in time.
**CachedRootIsCurrent**, **ValidProofIsExact** and **AnchorIsOfItsMoment** are
about evidence that is kept while the ledger grows: an unaltered receipt
verifies for the ledger of its moment and no other, and so does a local one
whose root was altered, unless its signature was made again. **SignedEdges** is
about node objects that their receivers wrote into: one that verifies shows the
parents of the node whose hash it carries. **ErasureIsPermanent** is about
payloads stored again; **ImplementsAuditLog** is what they amount to for an
auditor.

### Where code and text disagree

Five runs end in a violation of something the repository says:

* **restriction_lost** (`RestrictedCannotDispatch`, `core/trust.py:103`):
  `set_state` on an agent whose score nobody has read is undone by the first
  read, which writes ACTIVE (`trust.py:38`).
* **resolved_reopened** (`ResolvedIsFinal`, `governance/themis.py:97`, "already
  resolved"): no status is ever looked at, so approved, rejected and aborted
  checkpoints are resolved again.
* **close_drops_batch** (`CloseLosesNothing`, `telemetry/storage.py:150`):
  `aclose` cancels the worker in the middle of a write and the rest of its
  batch is in no table and no buffer. `telemetry` shows that this is the only
  loss.
* **rotation_grace** (`PreviousKeyHasGrace`, `core/identity.py:100`): the grace
  period is measured from the creation of a key, so a rotated key keeps only
  what is left of it, and nothing if it is older.
* **nonce_lifetime** (`AcceptedOnce`): with the default limits, which are
  equal, an envelope is accepted twice when the clock moves between the two
  readings of one verification. `identity_replay` shows that a lifetime one
  reading longer is enough.
Three more lie in what a single function does. The model has them as the code
does, so the properties above claim no more than is left:

* `src/src/agentic_gov/telemetry/storage.py:21-22` ("atexit handler ensuring
  zero event loss") and `src/MASTER_TECHNICAL_REPORT.md:622` ("zero lost events
  on shutdown"): at exit, what is queued moves to a list in the memory of the
  ending process (`storage.py:182`), and nothing writes that list, or what
  failed writes put there before, anywhere. Batches of writes under way are in
  neither. EventFates therefore counts as lost, when the process ends,
  everything that is in no table.
* `src/src/agentic_gov/ledger/atlas.py:164` ("Verifies node hash integrity")
  and `src/MASTER_TECHNICAL_REPORT.md:674` ("guarantees **tamper evidence**"):
  the recomputed hash is compared with the hash in the same object (line 182),
  and `get_node` hands that object out. The object of one node, overwritten
  with all that another one holds, verifies when it is looked up by the first
  one's hash, and shows the other's content. SignedEdges and AuditLog are
  therefore about the hash that the object carries.
* `src/README.md:628` ("When critical security or governance controls cannot
  establish that an action is safe and authorized, the default should be to
  prevent execution"): a similarity search or judge that raises, times out or
  answers with an error lets the prompt pass (`interceptor.py:168-170`,
  `:189-207`), and `inspect_input` reports it safe. The report describes the
  layers as failing open (`src/MASTER_TECHNICAL_REPORT.md:465`, `:468`).

Other differences are single missing calls that need no run:
`src/MASTER_TECHNICAL_REPORT.md:526` and line 233 give a Layer 1 match of the
prompt a penalty of 25, but `inspect_input` tells the trust engine nothing; the
same report (line 249) and `src/README.md:311` have drift downgrade an agent to
SHADOW_MODE, but `evaluate_drift` only returns a receipt that says so;
`src/MASTER_TECHNICAL_REPORT.md:214-219` has the ceiling end a loop, but
GovernanceRuntime owns a ceiling and never asks it (the model's hosts do). The
model has the penalty and the downgrade as steps of the host or the operator.

### Fairness

* `GovernanceRuntime!Fairness`: the clock moves, and every agent keeps calling
  `validate_tool` on every tool. The runtime has no timer, so this is what its
  recovery rests on; nothing is assumed of outcomes, operators or turns. It is
  assumed for OpenIsProbed only.
* `TelemetrySink!Fairness`: weak fairness of `initialize`, the worker and
  `aclose`, each as a whole. The asyncio loop runs every ready task, and an
  await on the database ends with an answer or an exception. No outcome is
  favoured, and nobody has to enqueue, initialize, close or exit. The pool is
  assumed to close once its connections are released, as asyncpg does.

* `AgentWorkflows!FairSpec`: weak fairness of each loop. A host that has begun
  a turn goes on with it, starts what it was allowed, and every tool returns or
  fails, as a call with a timeout does. Nothing is assumed of resets, operators
  or the clock. LoopsEnd needs it; the bound on resets is part of what LoopsEnd
  says.

The telemetry runs switch off the deadlock check: the process may exit.

## 4. Proofs

For every value of the constants that satisfies the ASSUMEs of the modules (a
threshold below 100, a natural recovery rate, a positive failure threshold,
natural times and bounds; a key that is no key, signatures that are no
signatures).

**GovernanceRuntimeProofs**: `Init => IndInv`, `IndInv /\ [Next]_vars =>
IndInv'`, one lemma for each group of actions. What IndInv adds to the
properties:

* `ScoreIsEarned`: for an agent that is not quarantined, score + 25 * strikes
  is at most 100 + what its turns earned. StrikeBudget follows from it with
  CriticalScoreIsQuarantined: an agent that dispatches has a score above the
  threshold. It is not inductive without `UnknownIsPristine`, because the first
  read of an agent writes a full score and ACTIVE.
* `TripIsLastFailure` and `HalfOpenIsRecovered`: at the threshold the trip time
  is the time of the last failure, and a half-open breaker stays behind its
  recovery time. With ClosedIffBelowThreshold they give QuietPeriod: who is
  admitted at the threshold found the breaker half open, so the last failure is
  old enough.

Proved from it: TypeOK, CriticalScoreIsQuarantined, StrikeBudget,
ClosedIffBelowThreshold as invariants, QuietPeriod and QuarantineIsSticky as
action properties. OpenIsWornOut is the part of OpenIsProbed that is no
liveness: while a breaker stays open the reports to come only run out, only
one of a failure restarts the recovery time, and behind that the next call
asked for ends it.

**ThemisProofs**: the same for checkpoints. IndInv adds `KeysAreRegistered` (a
reviewer's key was registered, which gives the approver of ApprovedWasSigned),
`DriftIsMutation` (a state with another digest than the paused one was mutated,
which gives AbortedWasMutated) and `StatsAddUp` (the statistics' type: rubber
stamps and overrides are parts of the reviews). Proved: TypeOK,
ApprovedWasSigned, AbortedWasMutated and OutcomesAreCounted as invariants,
ApprovalIsCurrent as an action property. OutcomesAreCounted compares the
statistics with the sets of checkpoints whose latest review is a reviewer's and
whose outcome stands. It is inductive, because a review adds one checkpoint to
one of these sets and one to the count, and takes from the others; the sets
have to be finite for that (`ReviewsAreFinite`), the checkpoints do not.

**LedgerProofs**: the same for the ledger. A proof is kept while the ledger
grows, so IndInv says what it was when issued: `ProofsAgree` (it describes the
first `total` nodes, and a proof whose total is today's has the edges of
today). `AnchorsAgree` says that the root and the signature of a receipt,
altered or not, are of roots the ledger had. `EdgesAreSealed` ties both indices
to the contents that were hashed, which writing into a node object does not
touch. `NodesAreSigned` says that each node was made under its own number and
that no object carries a signature not made yet: an object that verifies has
the contents that were hashed under the number it carries, so SignedEdges
follows, and a later node cannot make an object verify that did not.
`SaltsAreDrawn` makes every new salt differ from those in the hashes, which
gives ErasureIsPermanent. Proved: TypeOK, CachedRootIsCurrent,
ValidProofIsExact, AnchorIsOfItsMoment and SignedEdges as invariants,
ErasureIsPermanent as an action property. Assumed of the cryptography: hashes
do not collide, nothing is signed but nodes as they are made, and no salt is
drawn twice.

AuditLogImplemented is the refinement of AuditLog. An insertion is `Record`: it
adds one entry (GrownByOne), leaves what the others show, voids all proofs and
receipts that held, because the memo is cleared and their root is that of a
smaller ledger, and makes no forgotten entry tellable (NeverRetold). Stored and
erased salts are `Forget`, an altered node is `Touch`, a proof is `Prove`, a
local receipt, or one that was altered and signed again, is `Anchor`, and the
rest, the filling of the memo included, is a stutter.

Of an authority's signature the code looks at the presence only
(`ledger/anchor.py:104`); nothing is shown of altered receipts of that kind,
nor of local ones that were signed again but that they hold until the next
entry.

**WorkflowProofs**: the loops, for any finite set of them, any agents, sessions
and ceiling.

* The lemma RuntimeIsUsed is what carries over: each step of a loop is a step
  of GovernanceRuntime or leaves its variables alone, as the actions are built.
  Through it the theorems of GovernanceRuntimeProofs hold of the loops:
  StrikesBudgetedInLoops and GuaranteesInLoops state them.
* IndInv is TypeOK, `TurnsAreCounted`, RestrictedLoopsStartOneTool and
  `LateToolsWereCleared`. TurnsAreCounted: calls made and turns under way
  together are at most the turns counted, up to the ceiling, and those carried
  over a reset. ToolCallsAreCapped alone is not inductive: it does not know of
  loops that have asked and not yet called. The steps need the cardinality of
  the sets of loops in a turn.
* OneToolAtMost is the invariant RestrictedLoopsStartOneTool. It is not
  inductive without LateToolsWereCleared: a loop that started a tool late is
  no longer cleared and its agent is still restricted, so the next clearance
  needs the right back, which ends the count.
* LoopsWearOut is the part of LoopsEnd that is no liveness: the work left to a
  loop (five for each turn it may still ask for, and its place in the turn) is
  a bounded number that each of its steps lowers and only a reset of its
  session raises. That loops are not stuck in between is the fairness, and
  with TLC.

**IdentityProofs**: the nonce store and the channel, for any number of
envelopes, agents and clocks and any capacity. IndInv has two parts. `StoreInv`
needs nothing of the lifetimes: what is stored was sent, each nonce is there
once, no entry is further ahead than the drift and none further behind an older
entry than twice the drift. TypeCorrect and StoreBounded follow from it.
`Remembered` says that an envelope that was seen, accepted or not, is in the
store, or was dropped by a full one, until it is no longer fresh; `SeenInv`
says that nothing else is in the store. Remembered is preserved under

    LongEnough == Ttl >= MaxDrift + Slip

where Slip is the time between the two readings of the clock, and under it
AcceptedOnce, MemoryIsPerfect and the refinement of ReplayGuard are proved: a
verification that finds the nonce new is a `Show`, and the other steps are
stutters, because the nonces that Evict takes are those of stale envelopes and
the one that Add drops was stored with Capacity others before it. The program's
defaults (5.0 s and 5000 ms) satisfy LongEnough only if no time passes between
the readings; the run nonce_lifetime is what happens if any does.
RetentionBounded needs only that a verification takes no longer than `Ttl +
MaxDrift`, which the defaults satisfy by a wide margin.

**SinkProofs**: the sink, for any batch size and any number and kinds of
events. `Data`, the part of IndInv besides TypeOK and LossIsOneCancelledBatch:

* `QueueIsTail`: the queue holds the events from the last one taken to the last
  one enqueued. So whatever left the queue is numbered below whatever is in it.
* `BatchesApart`: the batches are ordered, were taken off the queue and share
  no event, although aclose takes its batch while the worker writes.
* `RowsOnce`: a writer has inserted what it has passed and nothing of what is
  ahead; until aclose, rows are in order and below the rest of the batch.
* `BufferOnce`: a failed batch is in memory once and is no batch any more;
  without a pool, memory is all that was taken.
* `Phases`: which tasks can be where, who cancelled and what exit leaves.

LossIsOneCancelledBatch, OneWayThrough and MemoryIsComplete follow from it, and
FatesImplemented, the refinement of EventFates: a step of the sink accepts one
event or settles some, the fate `lost` appears while the process lives only
when the worker is cancelled, and with its end for whatever memory kept.

RowsAlmostOrdered (RowsAreLateByOneBatch) has an invariant of its own, LateInv.
Its part `CloserIsBehind` says that what aclose writes is newer than whatever
it found; and the rows that are late, together with the events by which the
worker can still be late, are never more than a batch: when aclose is called
no row is late and these are the rest of one batch, a late row was one of them
before, and the batches taken later are of events that aclose did not see.

QueueIsWornOut and AcloseIsWornOut are what QueueIsDrained and AcloseTerminates
rest on: each step of the worker takes events off the queue or advances the
write of a bounded batch, and each step of aclose takes from the work it has
left, to which nobody adds. The second needs that a pool which aclose is
closing is not opened again (`PoolStaysClosed`), although initialize may still
be under way: it can then no longer be connecting.

Only model-checked: liveness (OpenIsProbed, AcloseTerminates, QueueIsDrained,
LoopsEnd), which is outside what TLAPS proves here: the temporal steps need
ENABLED. What is proved of them are the action properties OpenWearsOut,
AcloseWearsOut and QueueWearsOut, and WorkIsUsedUp with the invariant
WorkIsBounded for the loops: they say what the steps use up; that the steps are
taken is left to TLC.

Every invariant, action property and refinement that a passing run checks is
also proved. Assumed throughout of the cryptography: hashes do not collide and
signatures verify for their key and digest only.

## 5. Not modelled

* `governance/policy.py`: the runtime constructs the registry, the purpose gate
  and the freshness attestor and calls none of them. The gate and the attestor
  decide on their arguments and keep nothing. The registry keeps policies by
  reference and their hashes; nothing reads the policies again, so that one
  that was changed after registration no longer matches its hash has no effect
  inside the program and no interleaving to check.
* `PSIDriftInterceptor.evaluate_drift`: a number computed from two samples; no
  state, and nobody is told. Its consequence is the operator's step.
* `OutputSanitizer` and the patterns, embeddings and prompts of the
  interceptor: text.
* Hashing, signatures, serialization: by what they decide.
* `get_children` and `get_parents` hand out the live index sets
  (`ledger/atlas.py:139-145`); the model alters node objects and receipts, and
  neither these sets nor the proofs that the host keeps.
* A submission with another state than the one the workflow is in: the caller
  of `submit_approval` passes the state (`governance/themis.py:87`), and the
  model's callers pass the real one. ApprovalIsCurrent and AbortedWasMutated
  hold under that contract only.
* Nobody looks for records of recordings that failed half way
  (`ledger/privacy.py:32`): they are modelled, but no property is about them.
* The trust engine's history and agents' roles and permissions (never read),
  receipts and their latencies.
* `decompose_intent`, explainability records, OpenTelemetry attributes, the
  exporter and its command line: formatting, without state.
* Threads: no class takes a lock, and the models take each synchronous call as
  one step, as it is for hosts on one event loop.
* What outlives the process: nothing is read back at a start, so there is no
  recovery to model; the sink's exit handler is.
