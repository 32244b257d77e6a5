---------------------------- MODULE LedgerProofs ----------------------------
(* Proofs about DecisionLedger, for any number of nodes, salts, payloads,  *)
(* agents, foreign parents and kept proofs and anchors.                    *)
EXTENDS DecisionLedger, TLAPS

\* A set of the first numbers determines how many they are.
LEMMA FirstNumbers ==
  ASSUME NEW m \in Nat, NEW n \in Nat, 1 .. m = 1 .. n
  PROVE  m = n
<1>1. CASE m < n
  <2>1. n \in 1 .. n /\ n \notin 1 .. m
    BY <1>1
  <2> QED  BY <2>1
<1>2. CASE n < m
  <2>1. m \in 1 .. m /\ m \notin 1 .. n
    BY <1>2
  <2> QED  BY <2>1
<1> QED  BY <1>1, <1>2

\* The recorded nodes are the first Len(nodes) hashes.
LEMMA RecordedNodes ==
  ASSUME TypeOK
  PROVE  /\ Len(nodes) \in 0 .. MaxNodes
         /\ Recorded = 1 .. Len(nodes)
         /\ Recorded \in SUBSET NodeHashes
         /\ \A n \in Recorded : nodes[n] \in ActionNode /\ sealed[n] \in ActionNode
  BY LedgerAssumption DEF TypeOK, Recorded, NodeHashes

\* What the ledger answers as its root is the set of all its nodes.
LEMMA RootIsRecorded ==
  ASSUME CachedRootIsCurrent
  PROVE  Root = Recorded
  BY DEF CachedRootIsCurrent, Root

\* The inductive invariant holds in the empty ledger.
LEMMA InitInd == Init => IndInv
<1> SUFFICES ASSUME Init PROVE IndInv
  OBVIOUS
<1> USE LedgerAssumption DEF Init
<1>1. Recorded = {}
  BY DEF Recorded
<1>2. TypeOK
  <2>1. /\ nodes \in Seq(ActionNode) /\ sealed \in Seq(ActionNode)
        /\ published \in Seq(NodeHashes) /\ Len(nodes) = 0 /\ Len(sealed) = 0
    OBVIOUS
  <2>2. /\ parent_to_children \in [Hashes -> SUBSET NodeHashes]
        /\ child_to_parents \in [NodeHashes -> SUBSET Hashes]
        /\ records \in [PayloadIds -> Inputs \cup {NoRecord}]
    OBVIOUS
  <2>3. drawn \in 0 .. MaxSalts /\ 0 <= MaxNodes
    OBVIOUS
  <2> QED  BY <2>1, <2>2, <2>3 DEF TypeOK
<1>3. EdgesAreSealed
  BY <1>1 DEF EdgesAreSealed
<1>4. /\ NodesAreSigned /\ ProofsAgree /\ AnchorsAgree /\ SaltsAreDrawn
      /\ CachedRootIsCurrent
  BY <1>1 DEF NodesAreSigned, ProofsAgree, AnchorsAgree, SaltsAreDrawn,
              CachedRootIsCurrent
<1> QED  BY <1>2, <1>3, <1>4 DEF IndInv

\* A new salt is a number not drawn before, and storing it keeps the store's
\* type.
LEMMA SaltIsNew ==
  ASSUME TypeOK, NEW p \in PayloadIds, NEW d \in Data, GenerateAndStoreSalt(p, d)
  PROVE  /\ drawn' = drawn + 1 /\ drawn' \in 0 .. MaxSalts
         /\ NewSalt = drawn + 1 /\ NewSalt \in 1 .. MaxSalts
         /\ <<d, NewSalt>> \in Inputs
         /\ records' \in [PayloadIds -> Inputs \cup {NoRecord}]
         /\ \A q \in PayloadIds :
               records'[q] = IF q = p THEN <<d, NewSalt>> ELSE records[q]
<1> USE LedgerAssumption DEF TypeOK, GenerateAndStoreSalt, NewSalt
<1>1. drawn + 1 \in 1 .. MaxSalts /\ drawn' = drawn + 1
  OBVIOUS
<1>2. <<d, NewSalt>> \in Inputs
  BY <1>1 DEF Inputs
<1> QED  BY <1>1, <1>2

\* An insertion appends one node, whose edges enter both indices, and forgets
\* the root.
LEMMA InsertionInd ==
  ASSUME IndInv,
         NEW a \in Agents, NEW p \in PayloadIds, NEW d \in Data,
         NEW parents \in SUBSET (Recorded \cup Foreign),
         RecordDecisionNode(a, p, d, parents)
  PROVE  IndInv'
<1> DEFINE n == Len(nodes) + 1
           node == [action_id |-> n, agent |-> a, parents |-> parents,
                    input |-> <<d, NewSalt>>, body |-> "signed",
                    node_hash |-> n, signature |-> n]
<1> USE LedgerAssumption
<1>1. /\ TypeOK /\ EdgesAreSealed /\ NodesAreSigned /\ ProofsAgree
      /\ AnchorsAgree /\ SaltsAreDrawn
  BY DEF IndInv
<1>2. /\ drawn' = drawn + 1 /\ drawn' \in 0 .. MaxSalts
      /\ NewSalt = drawn + 1
      /\ <<d, NewSalt>> \in Inputs
      /\ records' \in [PayloadIds -> Inputs \cup {NoRecord}]
      /\ \A q \in PayloadIds :
            records'[q] = IF q = p THEN <<d, NewSalt>> ELSE records[q]
  BY <1>1, SaltIsNew DEF RecordDecisionNode
<1>3. /\ Len(nodes) \in Nat /\ Recorded = 1 .. Len(nodes)
      /\ n \in NodeHashes /\ parents \in SUBSET Hashes
  BY <1>1, RecordedNodes
  DEF RecordDecisionNode, CreateActionNode, NodeHashes, Hashes
<1>4. node \in ActionNode
  BY <1>2, <1>3 DEF ActionNode, Bodies
<1>5. /\ nodes' = Append(nodes, node) /\ sealed' = Append(sealed, node)
      /\ cached_root' = NoRoot
      /\ child_to_parents' = [child_to_parents EXCEPT ![n] = parents]
      /\ parent_to_children' = LinkChildren(n, parents)
      /\ published' = Append(published, n)
      /\ proofs' = proofs /\ anchors' = anchors
  BY DEF RecordDecisionNode, CreateActionNode, InvalidateRoot
<1>6. /\ nodes' \in Seq(ActionNode) /\ sealed' \in Seq(ActionNode)
      /\ Len(nodes') = n /\ Len(sealed') = n
      /\ Recorded' = Recorded \cup {n}
      /\ sealed'[n] = node /\ nodes'[n] = node
      /\ \A m \in Recorded : sealed'[m] = sealed[m] /\ nodes'[m] = nodes[m]
  BY <1>1, <1>3, <1>4, <1>5 DEF TypeOK, Recorded
<1>7. /\ child_to_parents' \in [NodeHashes -> SUBSET Hashes]
      /\ parent_to_children' \in [Hashes -> SUBSET NodeHashes]
  BY <1>1, <1>3, <1>5 DEF TypeOK, LinkChildren
<1>8. TypeOK'
  <2>1. published' \in Seq(NodeHashes)
    BY <1>1, <1>3, <1>5 DEF TypeOK
  <2>2. Len(nodes') <= MaxNodes /\ Len(sealed') = Len(nodes')
    BY <1>3, <1>6 DEF NodeHashes
  <2>3. /\ cached_root' \in (SUBSET NodeHashes) \cup {NoRoot}
        /\ proofs' \subseteq Proof
        /\ anchors' \subseteq AnchorReceipt
    BY <1>1, <1>5 DEF TypeOK
  <2> QED  BY <1>2, <1>6, <1>7, <2>1, <2>2, <2>3 DEF TypeOK
<1>9. CachedRootIsCurrent'
  BY <1>5 DEF CachedRootIsCurrent
<1>10. EdgesAreSealed'
  <2>1. n \notin Recorded
    BY <1>3
  <2>2. ASSUME NEW m \in Recorded' PROVE child_to_parents'[m] = sealed'[m].parents
    <3>1. CASE m = n
      BY <3>1, <1>1, <1>3, <1>5, <1>6 DEF TypeOK
    <3>2. CASE m # n
      BY <3>2, <1>1, <1>3, <1>5, <1>6 DEF TypeOK, EdgesAreSealed
    <3> QED  BY <3>1, <3>2
  <2>3. ASSUME NEW h \in Hashes
        PROVE  parent_to_children'[h] = {m \in Recorded' : h \in sealed'[m].parents}
    <3>1. parent_to_children[h] = {m \in Recorded : h \in sealed[m].parents}
      BY <1>1 DEF EdgesAreSealed
    <3>2. parent_to_children'[h]
            = parent_to_children[h] \cup (IF h \in parents THEN {n} ELSE {})
      BY <1>5 DEF LinkChildren
    <3>3. sealed'[n].parents = parents
      BY <1>6
    <3> QED  BY <2>1, <3>1, <3>2, <3>3, <1>6
  <2> QED  BY <2>2, <2>3 DEF EdgesAreSealed
<1>11. ProofsAgree' /\ AnchorsAgree'
  <2>1. \A q \in proofs : q.total \in NodeHashes
    BY <1>1 DEF TypeOK, Proof
  <2>2. \A k \in 0 .. Len(nodes) : k \in 0 .. Len(nodes')
    BY <1>3, <1>6
  <2>3. AnchorsAgree'
    BY <1>1, <1>5, <2>2 DEF AnchorsAgree, PastRoots
  <2>4. ProofsAgree'
    BY <1>1, <1>3, <1>5, <1>6, <2>1
    DEF ProofsAgree, ProofIsOfItsMoment, NodeHashes
  <2> QED  BY <2>3, <2>4
<1>12. SaltsAreDrawn'
  <2>1. ASSUME NEW q \in PayloadIds, records'[q] # NoRecord
        PROVE  records'[q][2] <= drawn'
    <3>1. CASE q = p
      BY <3>1, <1>2, <1>1 DEF TypeOK
    <3>2. CASE q # p
      <4>1. records[q] \in Inputs /\ records[q][2] <= drawn
        BY <3>2, <2>1, <1>1, <1>2 DEF TypeOK, SaltsAreDrawn
      <4>2. records[q][2] \in Int /\ drawn \in Int
        BY <4>1, <1>1 DEF TypeOK, Inputs
      <4> QED  BY <3>2, <4>1, <4>2, <1>2
    <3> QED  BY <3>1, <3>2
  <2>2. ASSUME NEW m \in Recorded' PROVE sealed'[m].input[2] <= drawn'
    <3>1. CASE m = n
      BY <3>1, <1>1, <1>2, <1>6 DEF TypeOK
    <3>2. CASE m # n
      <4>1. /\ sealed'[m] = sealed[m] /\ sealed[m] \in ActionNode
            /\ sealed[m].input[2] <= drawn
        BY <3>2, <1>1, <1>6, RecordedNodes DEF SaltsAreDrawn
      <4>2. sealed[m].input[2] \in Int /\ drawn \in Int
        BY <4>1, <1>1 DEF TypeOK, ActionNode, Inputs
      <4> QED  BY <4>1, <4>2, <1>2
    <3> QED  BY <3>1, <3>2
  <2> QED  BY <2>1, <2>2 DEF SaltsAreDrawn
<1>13. NodesAreSigned'
  BY <1>1, <1>6 DEF NodesAreSigned
<1> QED  BY <1>8, <1>9, <1>10, <1>11, <1>12, <1>13 DEF IndInv

\* A salt stored without a node leaves the graph alone.
LEMMA StoringInd ==
  ASSUME IndInv, NEW p \in PayloadIds, NEW d \in Data, RecordingFails(p, d)
  PROVE  IndInv'
<1> USE LedgerAssumption
<1>1. TypeOK /\ SaltsAreDrawn
  BY DEF IndInv
<1>2. /\ drawn' = drawn + 1 /\ drawn' \in 0 .. MaxSalts
      /\ NewSalt = drawn + 1
      /\ <<d, NewSalt>> \in Inputs
      /\ records' \in [PayloadIds -> Inputs \cup {NoRecord}]
      /\ \A q \in PayloadIds :
            records'[q] = IF q = p THEN <<d, NewSalt>> ELSE records[q]
  BY <1>1, SaltIsNew DEF RecordingFails
<1>3. UNCHANGED <<graphVars, cached_root, hostVars>>
  BY DEF RecordingFails
<1>4. SaltsAreDrawn'
  <2>1. ASSUME NEW q \in PayloadIds, records'[q] # NoRecord
        PROVE  records'[q][2] <= drawn'
    <3>1. CASE q = p
      BY <3>1, <1>2, <1>1 DEF TypeOK
    <3>2. CASE q # p
      <4>1. records[q] \in Inputs /\ records[q][2] <= drawn
        BY <3>2, <2>1, <1>1, <1>2 DEF TypeOK, SaltsAreDrawn
      <4>2. records[q][2] \in Int /\ drawn \in Int
        BY <4>1, <1>1 DEF TypeOK, Inputs
      <4> QED  BY <3>2, <4>1, <4>2, <1>2
    <3> QED  BY <3>1, <3>2
  <2>2. ASSUME NEW m \in Recorded' PROVE sealed'[m].input[2] <= drawn'
    <3>1. /\ m \in Recorded /\ sealed'[m] = sealed[m] /\ sealed[m] \in ActionNode
          /\ sealed[m].input[2] <= drawn
      BY <1>1, <1>3, RecordedNodes DEF SaltsAreDrawn, Recorded, graphVars
    <3>2. sealed[m].input[2] \in Int /\ drawn \in Int
      BY <3>1, <1>1 DEF TypeOK, ActionNode, Inputs
    <3> QED  BY <3>1, <3>2, <1>2
  <2> QED  BY <2>1, <2>2 DEF SaltsAreDrawn
<1>5. TypeOK'
  BY <1>1, <1>2, <1>3 DEF TypeOK, graphVars, hostVars
<1>6. (CachedRootIsCurrent /\ EdgesAreSealed /\ NodesAreSigned /\ ProofsAgree
         /\ AnchorsAgree)'
  BY <1>3
  DEF IndInv, CachedRootIsCurrent, EdgesAreSealed, NodesAreSigned, ProofsAgree,
      AnchorsAgree, ProofIsOfItsMoment, PastRoots, Recorded, graphVars, hostVars
<1> QED  BY <1>4, <1>5, <1>6 DEF IndInv

\* Erasing a record and altering a node object leave indices, seals, root and
\* evidence alone.
LEMMA ErasureInd ==
  ASSUME IndInv, NEW p \in PayloadIds, Erase(p)
  PROVE  IndInv'
<1> USE DEF IndInv, TypeOK, Erase, graphVars, hostVars
<1>1. /\ records' \in [PayloadIds -> Inputs \cup {NoRecord}]
      /\ \A q \in PayloadIds :
            records'[q] = IF q = p THEN NoRecord ELSE records[q]
  OBVIOUS
<1>2. SaltsAreDrawn'
  BY <1>1 DEF SaltsAreDrawn, Recorded
<1>3. (CachedRootIsCurrent /\ EdgesAreSealed /\ NodesAreSigned /\ ProofsAgree
         /\ AnchorsAgree)'
  BY DEF CachedRootIsCurrent, EdgesAreSealed, NodesAreSigned, ProofsAgree,
         AnchorsAgree, ProofIsOfItsMoment, PastRoots, Recorded
<1> QED  BY <1>1, <1>2, <1>3

\* What a holder may write is a node, with a signature that was made or none.
LEMMA AlterationsAreNodes ==
  ASSUME TypeOK, NEW h \in Recorded, NEW node \in Alterations(h)
  PROVE  node \in ActionNode /\ node.signature \in Recorded \cup {NoSignature}
<1>1. PICK m \in Recorded : node \in Mixed(h, m)
  BY DEF Alterations
<1>2. PICK c \in {h, m}, k \in {h, m}, b \in Bodies, seal \in Seals(h, m) :
         node = Overwritten(c, k, b, seal)
  BY <1>1 DEF Mixed
<1>3. /\ sealed[c] \in ActionNode /\ Recorded \in SUBSET NodeHashes
      /\ sealed[k].parents \in SUBSET Hashes
  BY RecordedNodes DEF ActionNode
<1>4. /\ seal[1] \in Recorded \cup {OtherHash}
      /\ seal[2] \in Recorded \cup {NoSignature}
  BY DEF Seals
<1> QED  BY <1>2, <1>3, <1>4 DEF Overwritten, ActionNode

LEMMA AlterationInd ==
  ASSUME IndInv, NEW h \in Recorded, NEW node \in Alterations(h), AlterNode(h, node)
  PROVE  IndInv'
<1>1. TypeOK /\ node \in ActionNode /\ node.signature \in Recorded \cup {NoSignature}
  BY AlterationsAreNodes DEF IndInv
<1>2. /\ nodes' \in Seq(ActionNode) /\ Len(nodes') = Len(nodes)
      /\ Recorded' = Recorded /\ nodes'[h] = node
      /\ \A n \in Recorded \ {h} : nodes'[n] = nodes[n]
  BY <1>1 DEF AlterNode, TypeOK, Recorded
<1>3. TypeOK'
  BY <1>1, <1>2 DEF AlterNode, TypeOK, saltVars, hostVars
<1>4. (CachedRootIsCurrent /\ EdgesAreSealed /\ ProofsAgree /\ AnchorsAgree
         /\ SaltsAreDrawn)'
  BY <1>2
  DEF IndInv, AlterNode, CachedRootIsCurrent, EdgesAreSealed, ProofsAgree,
      AnchorsAgree, ProofIsOfItsMoment, PastRoots, SaltsAreDrawn,
      saltVars, hostVars
<1>5. NodesAreSigned'
  BY <1>1, <1>2 DEF IndInv, NodesAreSigned, AlterNode
<1> QED  BY <1>3, <1>4, <1>5 DEF IndInv

\* Filling the cache leaves the ledger with its current root.
LEMMA CacheIsCurrent ==
  ASSUME IndInv, CacheRoot, UNCHANGED nodes
  PROVE  /\ CachedRootIsCurrent'
         /\ cached_root' \in (SUBSET NodeHashes) \cup {NoRoot}
<1>1. TypeOK /\ CachedRootIsCurrent
  BY DEF IndInv
<1>2. Recorded' = Recorded /\ Recorded \in SUBSET NodeHashes
  BY <1>1, RecordedNodes DEF Recorded
<1> QED
  BY <1>1, <1>2, RootIsRecorded DEF CacheRoot, CachedRootIsCurrent, TypeOK

\* Asking for the root, checking a proof, issuing a proof or an anchor: the
\* graph and the salts stay, and what is issued is of this moment.
LEMMA EvidenceInd ==
  ASSUME IndInv, CacheRoot, UNCHANGED <<graphVars, saltVars, published>>,
         proofs' \subseteq Proof, \A p \in proofs' : ProofIsOfItsMoment(p),
         anchors' \subseteq AnchorReceipt,
         \A r \in anchors' : r.root \in PastRoots /\ r.signature \in PastRoots
  PROVE  IndInv'
<1>1. TypeOK' /\ CachedRootIsCurrent'
  BY CacheIsCurrent DEF IndInv, TypeOK, graphVars, saltVars
<1>2. EdgesAreSealed' /\ NodesAreSigned' /\ SaltsAreDrawn'
  BY DEF IndInv, EdgesAreSealed, NodesAreSigned, SaltsAreDrawn, Recorded,
         graphVars, saltVars
<1>3. ProofsAgree' /\ AnchorsAgree'
  BY DEF ProofsAgree, AnchorsAgree, ProofIsOfItsMoment, PastRoots, graphVars
<1> QED  BY <1>1, <1>2, <1>3 DEF IndInv

LEMMA ProofInd ==
  ASSUME IndInv, NEW h \in Recorded, GenerateProof(h)
  PROVE  IndInv'
<1> DEFINE p == [target |-> h, index |-> h - 1, total |-> Len(nodes),
                 parents |-> child_to_parents[h],
                 children |-> parent_to_children[h], root |-> Root]
<1>1. TypeOK /\ ProofsAgree /\ AnchorsAgree /\ Root = Recorded
  BY RootIsRecorded DEF IndInv
<1>2. /\ Len(nodes) \in 0 .. MaxNodes /\ Recorded = 1 .. Len(nodes)
      /\ Recorded \in SUBSET NodeHashes
  BY <1>1, RecordedNodes
<1>3. h \in 1 .. Len(nodes) /\ h \in NodeHashes /\ Len(nodes) \in NodeHashes
      /\ h - 1 \in 0 .. MaxNodes - 1
  BY <1>2, LedgerAssumption DEF NodeHashes
<1>4. p \in Proof
  BY <1>1, <1>2, <1>3 DEF Proof, TypeOK, Hashes
<1>5. ProofIsOfItsMoment(p)
  BY <1>1, <1>2, <1>3 DEF ProofIsOfItsMoment
<1>6. proofs' = proofs \cup {p} /\ anchors' = anchors /\ CacheRoot
      /\ UNCHANGED <<graphVars, saltVars, published>>
  BY DEF GenerateProof
<1>7. /\ proofs' \subseteq Proof /\ \A q \in proofs' : ProofIsOfItsMoment(q)
      /\ anchors' \subseteq AnchorReceipt
      /\ \A r \in anchors' : r.root \in PastRoots /\ r.signature \in PastRoots
  BY <1>1, <1>4, <1>5, <1>6 DEF TypeOK, ProofsAgree, AnchorsAgree
<1> QED  BY <1>6, <1>7, EvidenceInd

LEMMA AnchorInd ==
  ASSUME IndInv, NEW is_mock \in BOOLEAN, AnchorRoot(is_mock)
  PROVE  IndInv'
<1> DEFINE r == [root |-> Root, signature |-> Root, is_mock |-> is_mock,
                 total |-> Len(nodes)]
<1>1. TypeOK /\ ProofsAgree /\ AnchorsAgree /\ Root = Recorded
  BY RootIsRecorded DEF IndInv
<1>2. /\ Len(nodes) \in 0 .. MaxNodes /\ Recorded = 1 .. Len(nodes)
      /\ Recorded \in SUBSET NodeHashes
  BY <1>1, RecordedNodes
<1>3. anchors' = anchors \cup {r} /\ proofs' = proofs /\ CacheRoot
      /\ UNCHANGED <<graphVars, saltVars, published>>
  BY DEF AnchorRoot
<1>4. r \in AnchorReceipt /\ Root \in PastRoots
  BY <1>1, <1>2 DEF AnchorReceipt, PastRoots
<1>5. /\ proofs' \subseteq Proof /\ \A q \in proofs' : ProofIsOfItsMoment(q)
      /\ anchors' \subseteq AnchorReceipt
      /\ \A s \in anchors' : s.root \in PastRoots /\ s.signature \in PastRoots
  BY <1>1, <1>3, <1>4 DEF TypeOK, ProofsAgree, AnchorsAgree
<1> QED  BY <1>3, <1>5, EvidenceInd

\* What is written into a receipt is a root that the ledger had.
LEMMA ReceiptInd ==
  ASSUME IndInv, NEW r \in anchors, NEW resigned \in BOOLEAN,
         AlterReceipt(r, resigned)
  PROVE  IndInv'
<1> DEFINE altered == [r EXCEPT !.root = Root,
                                !.signature = IF resigned THEN Root ELSE @]
<1>1. TypeOK /\ AnchorsAgree /\ r \in AnchorReceipt
  BY DEF IndInv, TypeOK
<1>2. Root \in SUBSET NodeHashes /\ Root \in PastRoots
  BY <1>1, RootIsRecorded, RecordedNodes DEF IndInv, PastRoots
<1>3. /\ altered \in AnchorReceipt /\ altered.root = Root
      /\ altered.signature \in {Root, r.signature}
  BY <1>1, <1>2 DEF AnchorReceipt
<1>4. anchors' \subseteq anchors \cup {altered}
  BY DEF AlterReceipt
<1> HIDE DEF altered
<1>5. TypeOK'
  BY <1>1, <1>3, <1>4 DEF TypeOK, AlterReceipt, graphVars, saltVars
<1>6. AnchorsAgree'
  BY <1>1, <1>2, <1>3, <1>4 DEF AnchorsAgree, PastRoots, AlterReceipt, graphVars
<1>7. (CachedRootIsCurrent /\ EdgesAreSealed /\ NodesAreSigned /\ ProofsAgree
         /\ SaltsAreDrawn)'
  BY DEF IndInv, AlterReceipt, CachedRootIsCurrent, EdgesAreSealed,
         NodesAreSigned, ProofsAgree, ProofIsOfItsMoment, SaltsAreDrawn,
         Recorded, graphVars, saltVars
<1> QED  BY <1>5, <1>6, <1>7 DEF IndInv

\* Every step preserves the inductive invariant.
LEMMA StepInd == IndInv /\ [Next]_vars => IndInv'
<1> SUFFICES ASSUME IndInv, [Next]_vars PROVE IndInv'
  OBVIOUS
<1>1. ASSUME CacheRoot, UNCHANGED <<graphVars, saltVars, hostVars>> PROVE IndInv'
  <2>1. /\ proofs' \subseteq Proof /\ \A q \in proofs' : ProofIsOfItsMoment(q)
        /\ anchors' \subseteq AnchorReceipt
        /\ \A s \in anchors' : s.root \in PastRoots /\ s.signature \in PastRoots
    BY <1>1 DEF IndInv, TypeOK, ProofsAgree, AnchorsAgree, hostVars
  <2> QED  BY <1>1, <2>1, EvidenceInd DEF hostVars
<1>2. ASSUME UNCHANGED vars PROVE IndInv'
  BY <1>2
  DEF IndInv, TypeOK, CachedRootIsCurrent, EdgesAreSealed, NodesAreSigned,
      ProofsAgree, AnchorsAgree, ProofIsOfItsMoment, PastRoots, SaltsAreDrawn,
      Recorded, vars, graphVars, saltVars, hostVars
<1> QED
  BY <1>1, <1>2, InsertionInd, StoringInd, ErasureInd, AlterationInd, ProofInd,
     AnchorInd, ReceiptInd
  DEF Next, ComputeRoot, VerifyProof

\* The inductive invariant of the ledger holds in every reachable state.
THEOREM Invariance == Spec => []IndInv
  BY InitInd, StepInd, PTL DEF Spec

\* Nodes, indices, records, proofs and anchors stay in their sets.
THEOREM TypeCorrect == Spec => []TypeOK
<1>1. IndInv => TypeOK
  BY DEF IndInv
<1> QED  BY <1>1, Invariance, PTL

\* The memoized root is never stale, whatever filled the cache.
THEOREM RootCurrent == Spec => []CachedRootIsCurrent
<1>1. IndInv => CachedRootIsCurrent
  BY DEF IndInv
<1> QED  BY <1>1, Invariance, PTL

\* A proof that verifies, however old, has the size and the edges that the
\* ledger has now.
THEOREM ProofExact == Spec => []ValidProofIsExact
<1>1. IndInv => ValidProofIsExact
  <2> SUFFICES ASSUME IndInv, NEW p \in proofs, ProofHolds(p)
               PROVE  /\ p.total = Len(nodes)
                      /\ p.parents = child_to_parents[p.target]
                      /\ p.children = parent_to_children[p.target]
    BY DEF ValidProofIsExact
  <2>1. p.root = Recorded /\ Recorded = 1 .. Len(nodes) /\ Len(nodes) \in Nat
    BY RootIsRecorded, RecordedNodes, LedgerAssumption DEF ProofHolds, IndInv
  <2>2. p.root = 1 .. p.total /\ p.total \in Nat
    BY DEF IndInv, ProofsAgree, ProofIsOfItsMoment, TypeOK, Proof, NodeHashes
  <2>3. p.total = Len(nodes)
    BY <2>1, <2>2, FirstNumbers
  <2> QED  BY <2>3 DEF IndInv, ProofsAgree, ProofIsOfItsMoment
<1> QED  BY <1>1, Invariance, PTL

\* A receipt as it was issued verifies exactly as long as no node was added,
\* and a local one verifies no later under the signature it was issued with.
THEOREM AnchorExact == Spec => []AnchorIsOfItsMoment
<1>1. IndInv => AnchorIsOfItsMoment
  <2> SUFFICES
        ASSUME IndInv, NEW r \in anchors, r.signature = IssuedRoot(r)
        PROVE  /\ r.root = IssuedRoot(r) =>
                     (VerifyAnchor(r, Root) <=> r.total = Len(nodes))
               /\ r.is_mock => (VerifyAnchor(r, Root) => r.total = Len(nodes))
    BY DEF AnchorIsOfItsMoment
  <2>1. Root = 1 .. Len(nodes) /\ Len(nodes) \in Nat
    BY RootIsRecorded, RecordedNodes, LedgerAssumption DEF IndInv
  <2>2. r.signature = 1 .. r.total /\ r.total \in Nat
    BY DEF IndInv, IssuedRoot, TypeOK, AnchorReceipt
  <2>3. 1 .. r.total = 1 .. Len(nodes) <=> r.total = Len(nodes)
    BY <2>1, <2>2, FirstNumbers
  <2> QED  BY <2>1, <2>2, <2>3 DEF VerifyAnchor, IssuedRoot
<1> QED  BY <1>1, Invariance, PTL

\* An object that verifies holds what was hashed under the number it carries as
\* its hash.
LEMMA VerifiedHolds ==
  ASSUME IndInv, NEW n \in Recorded, Verifies(n)
  PROVE  LET own == nodes[n].node_hash
         IN  /\ own \in Recorded /\ nodes[n].action_id = own
             /\ nodes[n].signature = own
             /\ Hashed(nodes[n]) = Hashed(sealed[own])
<1>1. /\ HashOf(nodes[n]) = nodes[n].node_hash /\ nodes[n].node_hash \in Recorded
      /\ nodes[n].signature = nodes[n].node_hash
  BY DEF Verifies, VerifyNodeIntegrity, SignatureVerifies
<1>2. OtherHash \notin Recorded
  BY RecordedNodes DEF IndInv, OtherHash
<1> QED  BY <1>1, <1>2 DEF HashOf

\* The parents shown by an object that verifies are the edges of both indices
\* for the node whose hash it carries, whatever was written into it.
THEOREM EdgesSigned == Spec => []SignedEdges
<1>1. IndInv => SignedEdges
  <2> SUFFICES ASSUME IndInv, NEW n \in Recorded, Verifies(n), NEW h \in Hashes
               PROVE  LET own == nodes[n].node_hash
                      IN  /\ h \in nodes[n].parents <=> h \in child_to_parents[own]
                          /\ h \in nodes[n].parents <=> own \in parent_to_children[h]
    BY DEF SignedEdges
  <2>1. PICK own \in Recorded : /\ own = nodes[n].node_hash
                                /\ Hashed(nodes[n]) = Hashed(sealed[own])
    BY VerifiedHolds
  <2>2. nodes[n].parents = sealed[own].parents
    BY <2>1 DEF Hashed
  <2> QED  BY <2>1, <2>2 DEF IndInv, EdgesAreSealed
<1> QED  BY <1>1, Invariance, PTL

\* No step makes the input of a node linkable again: a new salt is in no hash.
LEMMA NeverRetold ==
  ASSUME IndInv, [Next]_vars, NEW n \in Recorded, ~Linkable(n)
  PROVE  ~Linkable(n)'
<1> SUFFICES ASSUME NEW q \in PayloadIds, records'[q] = sealed'[n].input
             PROVE  FALSE
  BY DEF Linkable
<1>1. /\ TypeOK /\ sealed[n] \in ActionNode /\ sealed[n].input \in Inputs
      /\ sealed[n].input # NoRecord
      /\ sealed[n].input[2] \in Int /\ sealed[n].input[2] <= drawn
      /\ drawn \in Int /\ Recorded = 1 .. Len(nodes)
  <2>1. TypeOK /\ SaltsAreDrawn /\ drawn \in Int
    BY LedgerAssumption DEF IndInv, TypeOK
  <2>2. sealed[n] \in ActionNode /\ Recorded = 1 .. Len(nodes)
    BY <2>1, RecordedNodes
  <2>3. sealed[n].input \in Inputs
    BY <2>2 DEF ActionNode
  <2>4. sealed[n].input # NoRecord /\ sealed[n].input[2] \in Int
    BY <2>3, LedgerAssumption DEF Inputs
  <2> QED  BY <2>1, <2>2, <2>3, <2>4 DEF SaltsAreDrawn
<1>2. ASSUME NEW p \in PayloadIds, NEW d \in Data, GenerateAndStoreSalt(p, d),
             sealed'[n] = sealed[n]
      PROVE  FALSE
  <2>1. records'[q] = IF q = p THEN <<d, drawn + 1>> ELSE records[q]
    BY <1>1, <1>2, SaltIsNew
  <2>2. CASE q = p
    <3>1. sealed[n].input = <<d, drawn + 1>>
      BY <2>1, <2>2, <1>2
    <3>2. sealed[n].input[2] = drawn + 1
      BY <3>1
    <3> QED  BY <3>2, <1>1
  <2>3. CASE q # p
    BY <2>1, <2>3, <1>2 DEF Linkable
  <2> QED  BY <2>2, <2>3
<1>3. ASSUME NEW a \in Agents, NEW p \in PayloadIds, NEW d \in Data,
             NEW parents \in SUBSET (Recorded \cup Foreign),
             RecordDecisionNode(a, p, d, parents)
      PROVE  FALSE
  <2>1. sealed'[n] = sealed[n]
    BY <1>1, <1>3 DEF RecordDecisionNode, CreateActionNode, TypeOK
  <2> QED  BY <2>1, <1>2, <1>3 DEF RecordDecisionNode
<1>4. ASSUME NEW p \in PayloadIds, NEW d \in Data, RecordingFails(p, d)
      PROVE  FALSE
  BY <1>2, <1>4 DEF RecordingFails, graphVars
<1>5. ASSUME NEW p \in PayloadIds, Erase(p) PROVE FALSE
  <2>1. /\ sealed'[n] = sealed[n]
        /\ records'[q] = IF q = p THEN NoRecord ELSE records[q]
    BY <1>1, <1>5 DEF Erase, graphVars, TypeOK
  <2> QED  BY <2>1, <1>1 DEF Linkable
<1>6. ASSUME UNCHANGED <<sealed, records>> PROVE FALSE
  BY <1>6 DEF Linkable
<1> QED
  BY <1>3, <1>4, <1>5, <1>6
  DEF Next, AlterNode, GenerateProof, VerifyProof, ComputeRoot, AnchorRoot,
      AlterReceipt, vars, graphVars, saltVars

\* A node whose salt is gone is never linked to a stored payload again.
THEOREM ErasurePermanent == Spec => ErasureIsPermanent
<1> DEFINE Stays == \A n \in Recorded : ~Linkable(n) => ~Linkable(n)'
<1>1. IndInv /\ [Next]_vars => Stays
  BY NeverRetold
<1> QED  BY <1>1, Invariance, PTL DEF Spec, ErasureIsPermanent

-----------------------------------------------------------------------------
(* The ledger is an AuditLog *)

\* Two functions that agree up to n, where the longer one has c, are a
\* sequence and the sequence with c appended.
LEMMA GrownByOne ==
  ASSUME NEW S, NEW n \in Nat, NEW c \in S,
         NEW f \in [1 .. n -> S], NEW g \in [1 .. n + 1 -> S],
         \A i \in 1 .. n : g[i] = f[i], g[n + 1] = c
  PROVE  g = Append(f, c)
<1>1. f \in Seq(S) /\ Len(f) = n
  OBVIOUS
<1> DEFINE app == Append(f, c)
<1>2. /\ app \in [1 .. n + 1 -> S]
      /\ \A i \in 1 .. n : app[i] = f[i]
      /\ app[n + 1] = c
  <2>1. app \in Seq(S) /\ Len(app) = n + 1
    BY <1>1
  <2>2. app[n + 1] = c /\ \A i \in 1 .. n : app[i] = f[i]
    BY <1>1
  <2> HIDE DEF app
  <2>3. app \in [1 .. Len(app) -> S]
    BY <2>1
  <2> QED  BY <2>1, <2>2, <2>3
<1> HIDE DEF app
<1>3. \A i \in 1 .. n + 1 : g[i] = app[i]
  <2>1. \A i \in 1 .. n + 1 : i \in 1 .. n \/ i = n + 1
    OBVIOUS
  <2> QED  BY <1>2, <2>1
<1>4. g = app
  BY <1>2, <1>3
<1> QED  BY <1>4 DEF app

\* The nodes in the words of the AuditLog: an object that verifies shows the
\* entry whose number it carries.
Showable == (NodeHashes \X Contents) \cup {NoRecord}
EntriesOfNodes ==
    /\ Len(nodes) \in Nat /\ Recorded = 1 .. Len(nodes)
    /\ Entries \in [1 .. Len(nodes) -> Contents]
    /\ Shown \in [1 .. Len(nodes) -> Showable]
    /\ \A n \in Recorded :
          /\ Entries[n] = Content(sealed[n])
          /\ Shown[n] \in {NoRecord} \cup {<<m, Entries[m]>> : m \in Recorded}

LEMMA EntriesAreNodes == IndInv => EntriesOfNodes
<1> SUFFICES ASSUME IndInv PROVE EntriesOfNodes
  OBVIOUS
<1>1. /\ Len(nodes) \in Nat /\ Recorded = 1 .. Len(nodes)
      /\ Recorded \in SUBSET NodeHashes
      /\ \A n \in Recorded : nodes[n] \in ActionNode /\ sealed[n] \in ActionNode
  BY RecordedNodes, LedgerAssumption DEF IndInv
<1>2. \A n \in Recorded : Content(sealed[n]) \in Contents
  BY <1>1 DEF ActionNode, Content, Contents
<1>3. /\ Entries \in [1 .. Len(nodes) -> Contents]
      /\ \A n \in Recorded : Entries[n] = Content(sealed[n])
  BY <1>1, <1>2 DEF Entries
<1>4. ASSUME NEW n \in Recorded
      PROVE  Shown[n] \in {NoRecord} \cup {<<m, Entries[m]>> : m \in Recorded}
  <2>1. CASE Verifies(n)
    <3>1. PICK own \in Recorded : /\ own = nodes[n].node_hash
                                  /\ Hashed(nodes[n]) = Hashed(sealed[own])
      BY <2>1, VerifiedHolds
    <3>2. Content(nodes[n]) = Content(sealed[own])
      BY <3>1 DEF Hashed, Content
    <3>3. Shown[n] = <<own, Entries[own]>>
      BY <1>3, <2>1, <3>1, <3>2 DEF Shown
    <3> QED  BY <3>3
  <2>2. CASE ~Verifies(n)
    BY <2>2 DEF Shown
  <2> QED  BY <2>1, <2>2
<1>5. Shown \in [1 .. Len(nodes) -> Showable]
  <2>1. \A n \in Recorded : Shown[n] \in Showable
    BY <1>1, <1>3, <1>4 DEF Showable
  <2> QED  BY <1>1, <2>1 DEF Shown
<1> QED  BY <1>1, <1>3, <1>4, <1>5 DEF EntriesOfNodes

\* The root is that of the first nodes, and among the kept proofs those hold that
\* have the ledger's size.
HeldBySize ==
    /\ Root = 1 .. Len(nodes)
    /\ \A p \in proofs : ProofHolds(p) <=> p.total = Len(nodes)

LEMMA HoldsBySize == IndInv => HeldBySize
<1> SUFFICES ASSUME IndInv PROVE HeldBySize
  OBVIOUS
<1>1. Root = 1 .. Len(nodes) /\ Recorded = 1 .. Len(nodes) /\ Len(nodes) \in Nat
  BY RootIsRecorded, RecordedNodes, LedgerAssumption DEF IndInv
<1>2. ASSUME NEW p \in proofs PROVE ProofHolds(p) <=> p.total = Len(nodes)
  <2>1. p.root = 1 .. p.total /\ p.total \in Nat /\ p.target \in 1 .. p.total
    BY DEF IndInv, ProofsAgree, ProofIsOfItsMoment, TypeOK, Proof, NodeHashes
  <2>2. p.root = Root <=> p.total = Len(nodes)
    BY <1>1, <2>1, FirstNumbers
  <2> QED  BY <1>1, <2>1, <2>2 DEF ProofHolds
<1> QED  BY <1>1, <1>2 DEF HeldBySize

\* What stays when nodes, seals and records do.
LEMMA SameNodes ==
  ASSUME IndInv, UNCHANGED <<nodes, sealed>>
  PROVE  /\ Recorded' = Recorded /\ Entries' = Entries /\ Shown' = Shown
         /\ records' = records => Told' = Told
  BY DEF Recorded, Entries, Shown, Verifies, VerifyNodeIntegrity, HashOf,
         SignatureVerifies, Told, Linkable

\* What stays when no node is added and the evidence is kept.
LEMMA SameEvidence ==
  ASSUME IndInv, IndInv', Len(nodes') = Len(nodes)
  PROVE  /\ proofs' = proofs => Evidence' = Evidence
         /\ anchors' = anchors => Anchored' = Anchored
<1>1. HeldBySize /\ HeldBySize'
  BY HoldsBySize, PTL
<1> QED  BY <1>1 DEF HeldBySize, Evidence, Anchored, VerifyAnchor

\* A node object that is left alone when another node is inserted verifies as
\* before: it carries no signature that is only made now.
LEMMA SameVerdict ==
  ASSUME IndInv, NEW m \in Recorded, nodes'[m] = nodes[m],
         \A k \in Recorded : k \in Recorded' /\ sealed'[k] = sealed[k],
         OtherHash \notin Recorded'
  PROVE  Verifies(m)' <=> Verifies(m)
<1> DEFINE node == nodes[m]
<1>1. node.signature \in Recorded \cup {NoSignature} /\ OtherHash \notin Recorded
  BY RecordedNodes DEF IndInv, NodesAreSigned, NodeHashes, OtherHash
<1>2. ASSUME node.signature = node.node_hash, node.node_hash \in Recorded
      PROVE  HashOf(node)' = node.node_hash <=> HashOf(node) = node.node_hash
  BY <1>1, <1>2 DEF HashOf, Hashed, OtherHash
<1>3. ASSUME NEW k \in Agents
      PROVE  VerifyNodeIntegrity(m, k)' <=> VerifyNodeIntegrity(m, k)
  BY <1>1, <1>2 DEF VerifyNodeIntegrity, SignatureVerifies, OtherHash, NoSignature
<1> QED  BY <1>3 DEF Verifies

\* Inserting a node is Record: the entry shows itself and can be told, no other
\* is told anew, and no proof or receipt holds any more.
LEMMA InsertionRecords ==
  ASSUME IndInv, IndInv', NEW a \in Agents, NEW p \in PayloadIds, NEW d \in Data,
         NEW parents \in SUBSET (Recorded \cup Foreign),
         RecordDecisionNode(a, p, d, parents)
  PROVE  \E c \in Contents : Log!Record(c)
<1> DEFINE node == [action_id |-> Len(nodes) + 1, agent |-> a,
                    parents |-> parents, input |-> <<d, NewSalt>>,
                    body |-> "signed", node_hash |-> Len(nodes) + 1,
                    signature |-> Len(nodes) + 1]
           c == Content(node)
<1>0. TypeOK /\ TypeOK'
  BY DEF IndInv
<1>1. EntriesOfNodes /\ EntriesOfNodes' /\ HeldBySize'
  BY EntriesAreNodes, HoldsBySize, PTL
<1>2. PICK n \in Nat : n = Len(nodes) + 1
  BY <1>1 DEF EntriesOfNodes
<1>3. /\ nodes' = Append(nodes, node) /\ sealed' = Append(sealed, node)
      /\ proofs' = proofs /\ anchors' = anchors
      /\ Len(sealed) = Len(nodes)
  BY <1>0 DEF RecordDecisionNode, CreateActionNode, TypeOK
<1>4. /\ c \in Contents /\ c = Content(node) /\ node.agent \in Agents
      /\ node.action_id = n /\ node.node_hash = n /\ node.signature = n
  <2>1. parents \in SUBSET Hashes
    BY <1>0, RecordedNodes DEF Hashes
  <2>2. <<d, NewSalt>> \in Inputs
    BY <1>0, SaltIsNew DEF RecordDecisionNode
  <2> QED  BY <1>2, <2>1, <2>2 DEF Contents, Content
<1>5. node.input = <<d, NewSalt>>
  OBVIOUS
<1> HIDE DEF node, c
<1>6. /\ Len(nodes') = n /\ Recorded = 1 .. Len(nodes) /\ Recorded' = 1 .. n
      /\ nodes'[n] = node /\ sealed'[n] = node
      /\ \A m \in Recorded : nodes'[m] = nodes[m] /\ sealed'[m] = sealed[m]
  BY <1>0, <1>1, <1>2, <1>3 DEF TypeOK, Recorded, EntriesOfNodes
<1>7. n \in Recorded' /\ \A m \in Recorded : m \in Recorded'
  BY <1>2, <1>6
<1>8. Entries' = Append(Entries, c)
  <2>1. Entries'[n] = c /\ \A m \in 1 .. Len(nodes) : Entries'[m] = Entries[m]
    BY <1>1, <1>4, <1>6, <1>7 DEF EntriesOfNodes
  <2> QED  BY <1>1, <1>2, <1>4, <1>6, <2>1, GrownByOne DEF EntriesOfNodes
<1>9. Shown' = Append(Shown, <<n, c>>)
  <2>1. Verifies(n)'
    <3>1. HashOf(nodes[n])' = n
      BY <1>4, <1>6, <1>7 DEF HashOf
    <3> QED
      BY <1>4, <1>6, <1>7, <3>1
      DEF Verifies, VerifyNodeIntegrity, SignatureVerifies
  <2>2. \A m \in Recorded : Verifies(m)' <=> Verifies(m)
    <3>1. OtherHash \notin Recorded'
      BY <1>2, <1>6 DEF OtherHash
    <3> QED  BY <3>1, SameVerdict, <1>6, <1>7
  <2>3. Shown'[n] = <<n, c>>
    BY <1>4, <1>6, <1>7, <2>1 DEF Shown
  <2>4. \A m \in 1 .. Len(nodes) : Shown'[m] = Shown[m]
    BY <1>6, <1>7, <2>2 DEF Shown
  <2>5. n \in NodeHashes
    BY <1>0, <1>2, <1>6 DEF TypeOK, NodeHashes
  <2>6. /\ <<n, c>> \in Showable
        /\ Shown \in [1 .. Len(nodes) -> Showable] /\ Shown' \in [1 .. n -> Showable]
    BY <1>1, <1>4, <1>6, <2>5 DEF EntriesOfNodes, Showable
  <2> DEFINE S == Showable  pair == <<n, c>>
  <2>7. pair \in S /\ Shown \in [1 .. Len(nodes) -> S] /\ Shown' \in [1 .. n -> S]
        /\ Shown'[n] = pair
    BY <2>3, <2>6
  <2> HIDE DEF S, pair
  <2>8. Shown' = Append(Shown, pair)
    BY <1>1, <1>2, <2>4, <2>7, GrownByOne DEF EntriesOfNodes
  <2> QED  BY <2>8 DEF pair
<1>10. Told' = Told \cup {n}
  <2>1. /\ records[p] = NoRecord
        /\ \A q \in PayloadIds :
              records'[q] = IF q = p THEN <<d, NewSalt>> ELSE records[q]
    BY <1>0, SaltIsNew DEF RecordDecisionNode
  <2>2. Linkable(n)'
    BY <1>5, <1>6, <2>1 DEF Linkable
  <2>3. ASSUME NEW m \in Recorded PROVE Linkable(m)' <=> Linkable(m)
    <3>1. [Next]_vars
      BY DEF Next
    <3>2. Linkable(m)' => Linkable(m)
      BY <3>1, NeverRetold
    <3>3. sealed[m].input # NoRecord
      <4>1. sealed[m] \in ActionNode
        BY <1>0, RecordedNodes
      <4> QED  BY <4>1, LedgerAssumption DEF ActionNode, Inputs
    <3>4. Linkable(m) => Linkable(m)'
      BY <1>6, <2>1, <3>3 DEF Linkable
    <3> QED  BY <3>2, <3>4
  <2>4. Recorded' = Recorded \cup {n}
    BY <1>1, <1>2, <1>6 DEF EntriesOfNodes
  <2> QED  BY <2>2, <2>3, <2>4 DEF Told
<1>11. Evidence' = {} /\ Anchored' = FALSE
  <2>1. \A q \in proofs : q.total \in Nat /\ q.total <= Len(nodes)
    BY DEF IndInv, TypeOK, Proof, NodeHashes, ProofsAgree, ProofIsOfItsMoment
  <2>2. \A r \in anchors : \E k \in 0 .. Len(nodes) : r.root = 1 .. k
    BY DEF IndInv, AnchorsAgree, PastRoots
  <2>3. \A q \in proofs' : ~ProofHolds(q)'
    BY <1>1, <1>2, <1>3, <1>6, <2>1 DEF HeldBySize, EntriesOfNodes
  <2>4. \A r \in anchors' : r.root # Root'
    <3>1. Root' = 1 .. n /\ Len(nodes) \in Nat
      BY <1>1, <1>6 DEF HeldBySize, EntriesOfNodes
    <3>2. \A k \in 0 .. Len(nodes) : 1 .. k # 1 .. n
      BY <1>2, <3>1, FirstNumbers
    <3> QED  BY <1>3, <2>2, <3>1, <3>2
  <2> QED  BY <2>3, <2>4 DEF Evidence, Anchored, VerifyAnchor
<1>12. Len(Entries) = Len(nodes)
  BY <1>1 DEF EntriesOfNodes
<1>13. Log!Record(c)
  BY <1>2, <1>8, <1>9, <1>10, <1>11, <1>12 DEF Log!Record
<1> QED  BY <1>4, <1>13

\* A salt stored without a node, or erased, can only make the log forget.
LEMMA SaltsForget ==
  ASSUME IndInv, IndInv', [Next]_vars, UNCHANGED <<graphVars, cached_root, hostVars>>
  PROVE  Log!Forget
<1>1. /\ Recorded' = Recorded /\ Entries' = Entries /\ Shown' = Shown
  BY SameNodes DEF graphVars
<1>2. Evidence' = Evidence /\ Anchored' = Anchored
  BY SameEvidence DEF graphVars, hostVars
<1>3. Told' \subseteq Told
  <2>1. \A n \in Recorded : Linkable(n)' => Linkable(n)
    BY NeverRetold
  <2> QED  BY <1>1, <2>1 DEF Told
<1> QED  BY <1>1, <1>2, <1>3 DEF Log!Forget

\* A node object that was overwritten shows an entry or does not verify.
LEMMA AlterationTouches ==
  ASSUME IndInv, IndInv', NEW h \in Recorded, NEW node \in Alterations(h),
         AlterNode(h, node)
  PROVE  Log!Touch(h)
<1>1. EntriesOfNodes /\ EntriesOfNodes' /\ TypeOK
  BY EntriesAreNodes, PTL DEF IndInv
<1>2. /\ Len(nodes') = Len(nodes) /\ Recorded' = Recorded
      /\ \A n \in Recorded \ {h} : nodes'[n] = nodes[n]
      /\ UNCHANGED <<sealed, records, proofs, anchors>>
  BY <1>1 DEF AlterNode, TypeOK, Recorded, saltVars, hostVars
<1>3. Entries' = Entries /\ Told' = Told
  BY <1>2 DEF Entries, Told, Linkable
<1>4. Evidence' = Evidence /\ Anchored' = Anchored
  BY <1>2, SameEvidence
<1>5. \A n \in Recorded \ {h} : Shown'[n] = Shown[n]
  BY <1>2 DEF Shown, Verifies, VerifyNodeIntegrity, HashOf, SignatureVerifies
<1>6. DOMAIN Entries = Recorded
  BY DEF Entries
<1>7. Shown'[h] \in {NoRecord} \cup {<<m, Entries[m]>> : m \in DOMAIN Entries}
  BY <1>1, <1>2, <1>3, <1>6 DEF EntriesOfNodes
<1>8. Shown' = [Shown EXCEPT ![h] = Shown'[h]]
  BY <1>1, <1>2, <1>5 DEF EntriesOfNodes
<1> QED  BY <1>3, <1>4, <1>7, <1>8 DEF Log!Touch

\* A proof describes its node as the entries have it.
LEMMA ProofProves ==
  ASSUME IndInv, IndInv', NEW h \in Recorded, GenerateProof(h)
  PROVE  Log!Prove(h)
<1>p. PICK p : p = [target |-> h, index |-> h - 1, total |-> Len(nodes),
                    parents |-> child_to_parents[h],
                    children |-> parent_to_children[h], root |-> Root]
  OBVIOUS
<1>1. EntriesOfNodes /\ TypeOK /\ HeldBySize /\ HeldBySize'
  BY EntriesAreNodes, HoldsBySize, PTL DEF IndInv
<1>2. /\ proofs' = proofs \cup {p} /\ UNCHANGED <<nodes, sealed, records, anchors>>
  BY <1>p DEF GenerateProof, graphVars, saltVars
<1>3. /\ Entries' = Entries /\ Shown' = Shown /\ Told' = Told
      /\ Anchored' = Anchored
  BY <1>2, SameNodes, SameEvidence
<1>4. Claim(p) = Log!Description(h)
  <2>1. h \in NodeHashes /\ h \in Hashes /\ DOMAIN Entries = Recorded
        /\ Len(Entries) = Len(nodes)
    BY <1>1, RecordedNodes DEF Hashes, EntriesOfNodes
  <2>2. child_to_parents[h] = Entries[h].parents
    BY <1>1 DEF EntriesOfNodes, IndInv, EdgesAreSealed, Content
  <2>3. parent_to_children[h] = {m \in DOMAIN Entries : h \in Entries[m].parents}
    BY <1>1, <2>1 DEF EntriesOfNodes, IndInv, EdgesAreSealed, Content
  <2> QED  BY <1>p, <2>1, <2>2, <2>3 DEF Claim, Log!Description
<1>5. Evidence' = Evidence \cup {Claim(p)}
  <2>1. \A q \in proofs : ProofHolds(q)' <=> ProofHolds(q)
    BY <1>1, <1>2 DEF HeldBySize
  <2>2. p.total = Len(nodes')
    BY <1>p, <1>2
  <2>3. p \in proofs' /\ ProofHolds(p)'
    BY <1>1, <1>2, <2>2 DEF HeldBySize
  <2>4. {q \in proofs' : ProofHolds(q)'} = {q \in proofs : ProofHolds(q)} \cup {p}
    BY <1>2, <2>1, <2>3
  <2> QED  BY <2>4 DEF Evidence
<1> QED  BY <1>3, <1>4, <1>5 DEF Log!Prove

\* A local receipt anchors the log as it is; that of an authority, of whose
\* signature only the presence is looked at, is no evidence.
LEMMA ReceiptAnchors ==
  ASSUME IndInv, IndInv', NEW is_mock \in BOOLEAN, AnchorRoot(is_mock)
  PROVE  Log!Anchor \/ UNCHANGED Log!logVars
<1>r. PICK r : r = [root |-> Root, signature |-> Root, is_mock |-> is_mock,
                    total |-> Len(nodes)]
  OBVIOUS
<1>1. HeldBySize /\ HeldBySize'
  BY HoldsBySize, PTL
<1>2. /\ anchors' = anchors \cup {r} /\ UNCHANGED <<nodes, sealed, records, proofs>>
  BY <1>r DEF AnchorRoot, graphVars, saltVars
<1>3. /\ Entries' = Entries /\ Shown' = Shown /\ Told' = Told
      /\ Evidence' = Evidence
  BY <1>2, SameNodes, SameEvidence
<1>4. /\ r.is_mock = is_mock /\ r.root = Root /\ r.signature = Root
      /\ Root' = Root
  BY <1>r, <1>1, <1>2 DEF HeldBySize
<1>5. CASE is_mock
  <2>1. Anchored'
    BY <1>2, <1>4, <1>5 DEF VerifyAnchor, Anchored
  <2> QED  BY <1>3, <2>1 DEF Log!Anchor, Anchored
<1>6. CASE ~is_mock
  <2>1. Anchored' = Anchored
    BY <1>2, <1>4, <1>6 DEF VerifyAnchor, Anchored
  <2> QED  BY <1>3, <2>1 DEF Log!logVars
<1> QED  BY <1>5, <1>6

\* Writing today's root into a local receipt anchors the log if the signature
\* is made for that root too, and voids no receipt that holds.
LEMMA AlteredReceipt ==
  ASSUME IndInv, IndInv', NEW r \in anchors, NEW resigned \in BOOLEAN,
         AlterReceipt(r, resigned)
  PROVE  Log!Anchor \/ UNCHANGED Log!logVars
<1> DEFINE altered == [r EXCEPT !.root = Root,
                                !.signature = IF resigned THEN Root ELSE @]
<1>1. HeldBySize /\ HeldBySize'
  BY HoldsBySize, PTL
<1>2. /\ anchors' = (anchors \ {r}) \cup {altered}
      /\ UNCHANGED <<nodes, sealed, records, proofs>>
  BY DEF AlterReceipt, graphVars, saltVars
<1>3. /\ Entries' = Entries /\ Shown' = Shown /\ Told' = Told
      /\ Evidence' = Evidence /\ Root' = Root
  BY <1>1, <1>2, SameNodes, SameEvidence DEF HeldBySize
<1>4. /\ altered.is_mock = r.is_mock /\ altered.root = Root
      /\ altered.signature \in {Root, r.signature}
  <2>1. r \in AnchorReceipt
    BY DEF IndInv, TypeOK
  <2> QED  BY <2>1 DEF AnchorReceipt
<1> HIDE DEF altered
<1>5. Anchored => Anchored'
  <2> SUFFICES ASSUME NEW s \in anchors, s.is_mock, VerifyAnchor(s, Root)
               PROVE  Anchored'
    BY DEF Anchored
  <2>1. CASE s = r
    BY <1>2, <1>3, <1>4, <2>1 DEF Anchored, VerifyAnchor
  <2>2. CASE s # r
    BY <1>2, <1>3, <2>2 DEF Anchored, VerifyAnchor
  <2> QED  BY <2>1, <2>2
<1>6. Anchored \in BOOLEAN /\ Anchored' \in BOOLEAN
  BY DEF Anchored
<1> QED  BY <1>3, <1>5, <1>6 DEF Log!Anchor, Log!logVars

\* The ledger's indices, proofs and receipts, its salts and the node objects
\* in the host's hands implement an append-only log: what verifies in the place
\* of an entry is an entry as it was recorded, with its own number, evidence is
\* exact while it holds and void after the next entry, and what was forgotten
\* is never told again.
THEOREM AuditLogImplemented == Spec => ImplementsAuditLog
<1>1. Init => Log!Init
  <2> SUFFICES ASSUME Init PROVE Log!Init
    OBVIOUS
  <2>1. Recorded = {} /\ proofs = {} /\ anchors = {}
    BY DEF Init, Recorded
  <2>2. Entries = <<>> /\ Shown = <<>>
    <3>1. DOMAIN Entries = {} /\ DOMAIN Shown = {}
      BY <2>1 DEF Entries, Shown
    <3> QED  BY <2>1, <3>1 DEF Entries, Shown
  <2>3. Told = {} /\ Evidence = {} /\ Anchored = FALSE
    BY <2>1 DEF Told, Evidence, Anchored
  <2> QED  BY <2>2, <2>3 DEF Log!Init
<1>2. IndInv /\ IndInv' /\ [Next]_vars => [Log!Next]_(Log!logVars)
  <2> SUFFICES ASSUME IndInv, IndInv', [Next]_vars
               PROVE  Log!Next \/ UNCHANGED Log!logVars
    OBVIOUS
  <2>1. DOMAIN Entries = Recorded
    BY DEF Entries
  <2>2. ASSUME NEW a \in Agents, NEW p \in PayloadIds, NEW d \in Data,
               NEW parents \in SUBSET (Recorded \cup Foreign),
               RecordDecisionNode(a, p, d, parents)
        PROVE  Log!Next
    BY <2>2, InsertionRecords DEF Log!Next
  <2>3. ASSUME NEW p \in PayloadIds, NEW d \in Data, RecordingFails(p, d)
        PROVE  Log!Next
    BY <2>3, SaltsForget DEF RecordingFails, Log!Next
  <2>4. ASSUME NEW p \in PayloadIds, Erase(p) PROVE Log!Next
    BY <2>4, SaltsForget DEF Erase, Log!Next
  <2>5. ASSUME NEW h \in Recorded, NEW node \in Alterations(h), AlterNode(h, node)
        PROVE  Log!Next
    BY <2>1, <2>5, AlterationTouches DEF Log!Next
  <2>6. ASSUME NEW h \in Recorded, GenerateProof(h) PROVE Log!Next
    BY <2>1, <2>6, ProofProves DEF Log!Next
  <2>7. ASSUME UNCHANGED <<nodes, sealed, records, proofs, anchors>>
        PROVE  UNCHANGED Log!logVars
    BY <2>7, SameNodes, SameEvidence DEF Log!logVars
  <2>8. ASSUME NEW is_mock \in BOOLEAN, AnchorRoot(is_mock)
        PROVE  Log!Next \/ UNCHANGED Log!logVars
    BY <2>8, ReceiptAnchors DEF Log!Next
  <2>9. ASSUME NEW r \in anchors, NEW resigned \in BOOLEAN,
               AlterReceipt(r, resigned)
        PROVE  Log!Next \/ UNCHANGED Log!logVars
    BY <2>9, AlteredReceipt DEF Log!Next
  <2> QED
    BY <2>2, <2>3, <2>4, <2>5, <2>6, <2>7, <2>8, <2>9
    DEF Next, ComputeRoot, VerifyProof, vars, graphVars, saltVars, hostVars
<1> QED
  BY <1>1, <1>2, Invariance, PTL DEF Spec, ImplementsAuditLog, Log!Spec
=============================================================================
