------------------------------ MODULE AuditLog ------------------------------
(***************************************************************************)
(* What the audit ledger promises to those who look at it from outside.    *)
(* Entries are only ever added.  What is shown in the place of an entry is *)
(* that entry or, if somebody touched it, another entry under that one's   *)
(* own number, or nothing that verifies: never what nobody recorded, and   *)
(* never under another number.  Evidence describes the log exactly for as  *)
(* long as it holds, and the next entry voids all of it.  What an entry    *)
(* was about can be told until it is forgotten, and never again.           *)
(***************************************************************************)
EXTENDS Integers, Sequences

CONSTANTS
    Contents,    \* what an entry may say; its field `parents' names others
    Nothing      \* what an entry shows that does not verify

VARIABLES
    entries,     \* what was recorded, in order
    shown,       \* what a reader who verifies sees in each place: an entry
                 \* and its number
    told,        \* the entries of which it can be told what they were about
    evidence,    \* the descriptions of entries that hold, in proofs
    anchored     \* is there a local receipt that holds?

logVars == <<entries, shown, told, evidence, anchored>>

Init ==
    /\ entries = <<>>
    /\ shown = <<>>
    /\ told = {}
    /\ evidence = {}
    /\ anchored = FALSE

Record(c) ==
    /\ entries' = Append(entries, c)
    /\ shown' = Append(shown, <<Len(entries) + 1, c>>)
    /\ told' = told \cup {Len(entries) + 1}
    /\ evidence' = {}
    /\ anchored' = FALSE

Forget ==
    /\ told' \subseteq told
    /\ UNCHANGED <<entries, shown, evidence, anchored>>

Touch(n) ==
    /\ \E c \in {Nothing} \cup {<<m, entries[m]>> : m \in DOMAIN entries} :
          shown' = [shown EXCEPT ![n] = c]
    /\ UNCHANGED <<entries, told, evidence, anchored>>

Description(n) ==
    [target |-> n, total |-> Len(entries),
     parents |-> entries[n].parents,
     children |-> {m \in DOMAIN entries : n \in entries[m].parents}]

Prove(n) ==
    /\ evidence' = evidence \cup {Description(n)}
    /\ UNCHANGED <<entries, shown, told, anchored>>

Anchor ==
    /\ anchored' = TRUE
    /\ UNCHANGED <<entries, shown, told, evidence>>

Next ==
    \/ \E c \in Contents : Record(c)
    \/ Forget
    \/ \E n \in DOMAIN entries : Touch(n) \/ Prove(n)
    \/ Anchor

Spec == Init /\ [][Next]_logVars
=============================================================================
