\* Three nodes with parents among them and one foreign hash; the host keeps one
\* proof or receipt, or else the holder of one node object overwrites it with
\* what another node holds, whole or in part; one payload is stored up to
\* three times under one id.
SPECIFICATION Spec
CONSTANTS
    Agents = {a1}
    Foreign = {f1}
    PayloadIds = {p1}
    Data = {d1}
    MaxNodes = 3
    MaxSalts = 3
    MaxHeld = 1
    NoRecord = NoRecord
INVARIANTS CachedRootIsCurrent ValidProofIsExact AnchorIsOfItsMoment SignedEdges IndInv
PROPERTIES ErasureIsPermanent ImplementsAuditLog
