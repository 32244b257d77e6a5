--------------------------- MODULE DecisionLedger ---------------------------
(***************************************************************************)
(* The audit ledger: AtlasMerkleDAG (ledger/atlas.py), the salts of        *)
(* EphemeralSaltStore (ledger/privacy.py) and the anchoring of the root    *)
(* (ledger/anchor.py), with record_decision_node (middleware.py), which    *)
(* writes a decision through all of them.                                  *)
(*                                                                         *)
(* Every node has an action id of its own and SHA3-256 does not collide,   *)
(* so the n-th node is known by the number n: as its action id, as its     *)
(* hash and as the agent's signature over that hash.  `sealed' keeps the   *)
(* nodes as they were made.  The root hash of a set of nodes stands for    *)
(* that set.  Salts are 32 random bytes, numbered as they are drawn.       *)
(*                                                                         *)
(* get_node hands out the ledger's own ActionNode, and its holder may      *)
(* write any field of it, the hash and the signature included; the keys    *)
(* sign nothing but nodes as they are made.  proofs and anchors are what   *)
(* the host got from the ledger and keeps; of a receipt it may write the   *)
(* root, and make the local signature, which needs no key, again.  That    *)
(* signature stands for the root it was made for; `total' is a history     *)
(* variable.                                                               *)
(***************************************************************************)
EXTENDS Integers, Sequences, FiniteSets

CONSTANTS
    Agents,       \* signers of nodes
    Foreign,      \* parent hashes that are the hash of no node
    PayloadIds,   \* ids under which salts and records are stored
    Data,         \* input payloads
    MaxNodes,     \* bound: nodes
    MaxSalts,     \* bound: salts drawn
    MaxHeld,      \* bound: proofs and receipts that the host keeps and
                  \* nodes that are altered, at the same time
    NoRecord

ASSUME LedgerAssumption ==
    /\ MaxNodes \in Nat /\ MaxSalts \in Nat
    /\ MaxHeld \in Nat
    /\ Foreign \cap (1 .. MaxNodes) = {}
    /\ NoRecord \notin Data \X (1 .. MaxSalts)

VARIABLES
    nodes,              \* the ActionNodes in the order of _ordered_hashes
    sealed,             \* history: their contents when they were hashed
    parent_to_children, \* _parent_to_children
    child_to_parents,   \* _child_to_parents
    cached_root,        \* _cached_root_hash
    records,            \* _operational_store and _salts, by payload id
    drawn,              \* how many salts were drawn
    published,          \* the nodes enqueued as telemetry events
    proofs, anchors

graphVars == <<nodes, sealed, parent_to_children, child_to_parents>>
saltVars == <<records, drawn>>
hostVars == <<published, proofs, anchors>>
vars == <<graphVars, cached_root, saltVars, hostVars>>

NodeHashes == 1 .. MaxNodes
NoRoot == {0}    \* the root of no set of nodes
OtherHash == 0   \* the hash of no node as it was made
NoSignature == 0 \* a signature that nobody made
Hashes == NodeHashes \cup Foreign
Recorded == DOMAIN nodes

\* `body' stands for the fields but the parents: as they were signed, the
\* same in another order (rules, keys) or another spelling of a number, or
\* changed.  The input hash is the hash of <<payload, salt>>.
Inputs == Data \X (1 .. MaxSalts)
Bodies == {"signed", "reordered", "changed"}
ActionNode == [action_id : NodeHashes, agent : Agents, parents : SUBSET Hashes,
               input : Inputs, body : Bodies,
               node_hash : NodeHashes \cup {OtherHash},
               signature : NodeHashes \cup {NoSignature}]
Proof == [target : NodeHashes, index : 0 .. MaxNodes - 1, total : NodeHashes,
          parents : SUBSET Hashes, children : SUBSET NodeHashes,
          root : SUBSET NodeHashes]
AnchorReceipt == [root : SUBSET NodeHashes, signature : SUBSET NodeHashes,
                  is_mock : BOOLEAN, total : 0 .. MaxNodes]

TypeOK ==
    /\ nodes \in Seq(ActionNode) /\ Len(nodes) <= MaxNodes
    /\ sealed \in Seq(ActionNode) /\ Len(sealed) = Len(nodes)
    /\ parent_to_children \in [Hashes -> SUBSET NodeHashes]
    /\ child_to_parents \in [NodeHashes -> SUBSET Hashes]
    /\ cached_root \in (SUBSET NodeHashes) \cup {NoRoot}
    /\ records \in [PayloadIds -> Inputs \cup {NoRecord}]
    /\ drawn \in 0 .. MaxSalts
    /\ published \in Seq(NodeHashes)
    /\ proofs \subseteq Proof
    /\ anchors \subseteq AnchorReceipt

Init ==
    /\ nodes = <<>>
    /\ sealed = <<>>
    /\ parent_to_children = [h \in Hashes |-> {}]
    /\ child_to_parents = [n \in NodeHashes |-> {}]
    /\ cached_root = NoRoot
    /\ records = [p \in PayloadIds |-> NoRecord]
    /\ drawn = 0
    /\ published = <<>>
    /\ proofs = {}
    /\ anchors = {}

-----------------------------------------------------------------------------
(* Salts *)

\* Mutated form of NewSalt: one salt for everything.
FixedSalt == 1

NewSalt == drawn + 1

\* A payload id that is stored again gets a new salt and a new record.
GenerateAndStoreSalt(p, d) ==
    /\ drawn < MaxSalts
    /\ drawn' = NewSalt
    /\ records' = [records EXCEPT ![p] = <<d, NewSalt>>]

Erase(p) ==
    /\ records' = [records EXCEPT ![p] = NoRecord]
    /\ UNCHANGED <<graphVars, cached_root, drawn, hostVars>>

-----------------------------------------------------------------------------
(* The graph *)

\* Mutated form of InvalidateRoot: the cache survives an insertion.
KeepRoot == UNCHANGED cached_root

InvalidateRoot == cached_root' = NoRoot

\* Mutated form of LinkChildren: a parent keeps its latest child only.
LinkChild(n, parents) ==
    [h \in Hashes |-> IF h \in parents THEN {n} ELSE parent_to_children[h]]

LinkChildren(n, parents) ==
    [h \in Hashes |->
        parent_to_children[h] \cup (IF h \in parents THEN {n} ELSE {})]

CreateActionNode(a, input, parents) ==
    LET n == Len(nodes) + 1
        node == [action_id |-> n, agent |-> a, parents |-> parents,
                 input |-> input, body |-> "signed",
                 node_hash |-> n, signature |-> n]
    IN  /\ n <= MaxNodes
        /\ nodes' = Append(nodes, node)
        /\ sealed' = Append(sealed, node)
        /\ child_to_parents' = [child_to_parents EXCEPT ![n] = parents]
        /\ parent_to_children' = LinkChildren(n, parents)
        /\ InvalidateRoot

\* compute_dag_root_hash: what it returns, and what it leaves in the cache.
\* The root of the empty ledger is not cached.
Root == IF cached_root # NoRoot THEN cached_root ELSE Recorded
CacheRoot == cached_root' = IF Recorded = {} THEN cached_root ELSE Root

ComputeRoot == CacheRoot /\ UNCHANGED <<graphVars, saltVars, hostVars>>

Altered == {n \in Recorded : nodes[n] # sealed[n]}
Held(altered) ==
    Cardinality(proofs) + Cardinality(anchors) + Cardinality(altered)
MayKeep == Held(Altered) < MaxHeld

GenerateProof(h) ==
    /\ h \in Recorded
    /\ MayKeep
    /\ CacheRoot
    /\ proofs' = proofs \cup
          {[target |-> h, index |-> h - 1, total |-> Len(nodes),
            parents |-> child_to_parents[h],
            children |-> parent_to_children[h], root |-> Root]}
    /\ UNCHANGED <<graphVars, saltVars, published, anchors>>

\* Mutated form of ProofHolds: the root is not compared.
ProofOfTarget(p) == p.target \in Recorded

\* verify_inclusion_proof: its answer, and its effect for a known target.
ProofHolds(p) == p.target \in Recorded /\ Root = p.root
VerifyProof(p) ==
    /\ p.target \in Recorded
    /\ CacheRoot
    /\ UNCHANGED <<graphVars, saltVars, hostVars>>

\* The contents are hashed in canonical form: parents and rules sorted, keys
\* and numbers as RFC 8785 has them.  Other contents than those of a node as it
\* was made have another hash.
Hashed(node) == <<node.action_id, node.agent, node.parents, node.input,
                  IF node.body = "reordered" THEN "signed" ELSE node.body>>
HashOf(node) ==
    LET id == node.action_id
    IN  IF id \in Recorded /\ Hashed(node) = Hashed(sealed[id]) THEN id ELSE OtherHash

\* A signature verifies under the key it was made with, over the hash it was
\* made for.
SignatureVerifies(signature, hash, key) ==
    signature = hash /\ hash \in Recorded /\ key = sealed[hash].agent

\* Mutated form of VerifyNodeIntegrity: the hash is not computed again.
VerifySignatureOnly(h, key) ==
    /\ h \in Recorded
    /\ SignatureVerifies(nodes[h].signature, nodes[h].node_hash, key)

\* The object is compared with the hash and the signature it carries itself.
VerifyNodeIntegrity(h, key) ==
    /\ h \in Recorded
    /\ HashOf(nodes[h]) = nodes[h].node_hash
    /\ SignatureVerifies(nodes[h].signature, nodes[h].node_hash, key)

-----------------------------------------------------------------------------
(* The runtime and the host *)

\* record_decision_node.  Its payload id is the clock's nanoseconds, that
\* is, one that is not in the store.
RecordDecisionNode(a, p, d, parents) ==
    /\ records[p] = NoRecord
    /\ GenerateAndStoreSalt(p, d)
    /\ CreateActionNode(a, <<d, NewSalt>>, parents)
    /\ published' = Append(published, Len(nodes) + 1)
    /\ UNCHANGED <<proofs, anchors>>

\* A payload that cannot be serialized raises after its salt was stored and
\* before the node is.  The same effect as a call of the salt store alone.
RecordingFails(p, d) ==
    /\ GenerateAndStoreSalt(p, d)
    /\ UNCHANGED <<graphVars, cached_root, hostVars>>

\* What its holder may write over the object of node h: the fields of another
\* node, all of them or mixed with those of h, with another body, and with a
\* hash or a signature that is nobody's.  One bound more: what was overwritten
\* is first restored.
Overwritten(c, k, b, seal) ==
    [sealed[c] EXCEPT !.body = b, !.parents = sealed[k].parents,
                      !.node_hash = seal[1], !.signature = seal[2]]
Seals(h, m) == {<<h, h>>, <<m, m>>, <<OtherHash, h>>, <<h, NoSignature>>}
Mixed(h, m) == {Overwritten(c, k, b, seal) :
                   c \in {h, m}, k \in {h, m}, b \in Bodies, seal \in Seals(h, m)}
Alterations(h) == UNION {Mixed(h, m) : m \in Recorded}
AlterNode(h, node) ==
    /\ h \in Altered => node = sealed[h]
    /\ Held(Altered \cup {h}) <= MaxHeld
    /\ nodes' = [nodes EXCEPT ![h] = node]
    /\ UNCHANGED <<sealed, parent_to_children, child_to_parents, cached_root,
                   saltVars, hostVars>>

\* The authority answers, or the receipt is made locally: because the anchor
\* is configured so, or the authority cannot be reached, is too slow, or its
\* answer is empty or has another status than 200.
AnchorRoot(is_mock) ==
    /\ MayKeep
    /\ CacheRoot
    /\ anchors' = anchors \cup {[root |-> Root, signature |-> Root,
                                is_mock |-> is_mock, total |-> Len(nodes)]}
    /\ UNCHANGED <<graphVars, saltVars, published, proofs>>

\* Somebody writes the root of today over that of an older receipt, and may
\* make the signature again: a local one is a hash of the receipt itself.
AlterReceipt(receipt, resigned) ==
    /\ anchors' = (anchors \ {receipt}) \cup
          {[receipt EXCEPT !.root = Root,
                           !.signature = IF resigned THEN Root ELSE @]}
    /\ UNCHANGED <<graphVars, cached_root, saltVars, published, proofs>>

\* Mutated form of VerifyAnchor: the local signature is not made again.
VerifyAnchorByRoot(receipt, root) == receipt.root = root

\* Of an authority's signature only its presence is looked at.
VerifyAnchor(receipt, root) ==
    /\ receipt.root = root
    /\ receipt.is_mock => receipt.signature = receipt.root

Next ==
    \/ \E a \in Agents, p \in PayloadIds, d \in Data,
          parents \in SUBSET (Recorded \cup Foreign) :
          RecordDecisionNode(a, p, d, parents)
    \/ \E p \in PayloadIds, d \in Data : RecordingFails(p, d)
    \/ \E p \in PayloadIds : Erase(p)
    \/ \E h \in Recorded : \E node \in Alterations(h) : AlterNode(h, node)
    \/ \E h \in Recorded : GenerateProof(h)
    \/ \E p \in proofs : VerifyProof(p)
    \/ ComputeRoot
    \/ \E is_mock \in BOOLEAN : AnchorRoot(is_mock)
    \/ \E r \in anchors, resigned \in BOOLEAN : AlterReceipt(r, resigned)

Spec == Init /\ [][Next]_vars

-----------------------------------------------------------------------------
(* Properties *)

\* The memoized root is never stale, whichever calls fill the cache between
\* two insertions (atlas.py:130,151,159).
CachedRootIsCurrent == cached_root \in {NoRoot, Recorded}

\* An inclusion proof that verifies now is exact now: although only its
\* target and its root are compared, its size, its parents and its children
\* are those the ledger has, and later nodes void it rather
\* than leave it incomplete (atlas.py:201,215).
ValidProofIsExact ==
    \A p \in proofs : ProofHolds(p) =>
        /\ p.total = Len(nodes)
        /\ p.parents = child_to_parents[p.target]
        /\ p.children = parent_to_children[p.target]

\* A receipt as it was issued verifies against the current root exactly as
\* long as no node was added since; and a local one that still has the
\* signature it was issued with verifies for no ledger but that of its moment,
\* whatever root was written over it.  With a signature made again it does:
\* the local receipt dates nothing (anchor.py:76,95-101, atlas.py:130).
IssuedRoot(r) == 1 .. r.total
AnchorIsOfItsMoment ==
    \A r \in anchors : r.signature = IssuedRoot(r) =>
        /\ r.root = IssuedRoot(r) => (VerifyAnchor(r, Root) <=> r.total = Len(nodes))
        /\ r.is_mock => (VerifyAnchor(r, Root) => r.total = Len(nodes))

\* The hash covers the graph: the parents that an object shows, if it verifies
\* under any key, are the edges of both indices for the node whose hash it
\* carries, whatever its holder wrote into it, and whichever hash it was
\* looked up by (atlas.py:93,123-127,178-187).
Verifies(n) == \E k \in Agents : VerifyNodeIntegrity(n, k)
SignedEdges ==
    \A n \in Recorded : Verifies(n) =>
        LET own == nodes[n].node_hash
        IN  \A h \in Hashes :
                /\ h \in nodes[n].parents <=> h \in child_to_parents[own]
                /\ h \in nodes[n].parents <=> own \in parent_to_children[h]

\* Erasure cannot be undone: once no stored salt and record lead to a node's
\* input hash, none ever does again, also if the same payload is stored
\* again under the same id (privacy.py:29,53-54).
Linkable(n) == \E p \in PayloadIds : records[p] = sealed[n].input
ErasureIsPermanent ==
    [][\A n \in Recorded : ~Linkable(n) => ~Linkable(n)']_vars

\* Taken together the ledger is an AuditLog.  Its entries are what was hashed,
\* but for the body; a node that verifies shows the number it carries as its
\* hash and what its object holds now; the evidence is in the kept proofs and
\* the local receipts that verify now (atlas.py:123-130,178-187,201-215,
\* anchor.py:95-101, privacy.py:29,53-54).
Contents == [agent : Agents, parents : SUBSET Hashes, input : Inputs]
Content(node) ==
    [agent |-> node.agent, parents |-> node.parents, input |-> node.input]
Claim(p) == [target |-> p.target, total |-> p.total,
             parents |-> p.parents, children |-> p.children]
Entries == [n \in Recorded |-> Content(sealed[n])]
Shown ==
    [n \in Recorded |->
        IF Verifies(n) THEN <<nodes[n].node_hash, Content(nodes[n])>> ELSE NoRecord]
Told == {n \in Recorded : Linkable(n)}
Evidence == {Claim(p) : p \in {q \in proofs : ProofHolds(q)}}
Anchored == \E r \in anchors : r.is_mock /\ VerifyAnchor(r, Root)
Log == INSTANCE AuditLog WITH
    Nothing <- NoRecord,
    entries <- Entries, shown <- Shown, told <- Told,
    evidence <- Evidence, anchored <- Anchored
ImplementsAuditLog == Log!Spec

\* What the proofs need besides: the indices hold the parents as they were
\* hashed and nothing else, each node was made under its own number, and no
\* object carries a signature that is not made yet; a proof describes a ledger
\* of the size it names, and one of today's size has the edges of today; a
\* receipt names roots the ledger had; every salt in the store or in a hash
\* was drawn (atlas.py:103-130,201-208, anchor.py:79, privacy.py:29-33).
EdgesAreSealed ==
    /\ \A n \in Recorded : child_to_parents[n] = sealed[n].parents
    /\ \A h \in Hashes : parent_to_children[h] =
                            {n \in Recorded : h \in sealed[n].parents}
NodesAreSigned ==
    \A n \in Recorded :
        /\ sealed[n].action_id = n /\ sealed[n].body = "signed"
        /\ nodes[n].signature \in Recorded \cup {NoSignature}
ProofIsOfItsMoment(p) ==
    /\ p.target \in 1 .. p.total /\ p.total <= Len(nodes)
    /\ p.root = 1 .. p.total
    /\ p.total = Len(nodes) => /\ p.parents = child_to_parents[p.target]
                               /\ p.children = parent_to_children[p.target]
ProofsAgree == \A p \in proofs : ProofIsOfItsMoment(p)
PastRoots == {1 .. k : k \in 0 .. Len(nodes)}
AnchorsAgree == \A r \in anchors : r.root \in PastRoots /\ r.signature \in PastRoots
SaltsAreDrawn ==
    /\ \A p \in PayloadIds : records[p] # NoRecord => records[p][2] <= drawn
    /\ \A n \in Recorded : sealed[n].input[2] <= drawn
IndInv ==
    /\ TypeOK
    /\ CachedRootIsCurrent
    /\ EdgesAreSealed
    /\ NodesAreSigned
    /\ ProofsAgree
    /\ AnchorsAgree
    /\ SaltsAreDrawn
=============================================================================
