---------------------------- MODULE ReplayGuard ----------------------------
(***************************************************************************)
(* What replay protection promises: a receiver that remembers every nonce  *)
(* it was ever shown, whatever the envelope was found to be, and accepts   *)
(* an envelope only the first time.  It forgets nonces only when it has    *)
(* been shown as many as it has room for, and what it forgets may be       *)
(* accepted once more.                                                     *)
(***************************************************************************)
EXTENDS Integers, FiniteSets

CONSTANTS Ids, Capacity

VARIABLES
    seen,
    accepted,    \* how often each was accepted; 2 is more than once
    forgotten

guardVars == <<seen, accepted, forgotten>>

Init ==
    /\ seen = {}
    /\ accepted = [e \in Ids |-> 0]
    /\ forgotten = {}

More(n) == IF n < 2 THEN n + 1 ELSE n

Show(e) ==
    /\ e \notin seen \/ e \in forgotten
    /\ seen' = seen \cup {e}
    /\ accepted' \in {accepted, [accepted EXCEPT ![e] = More(@)]}
    /\ \/ UNCHANGED forgotten
       \/ /\ Cardinality(seen) >= Capacity
          /\ forgotten \subseteq forgotten' /\ forgotten' \subseteq seen

Next == \E e \in Ids : Show(e)

Spec == Init /\ [][Next]_guardVars
=============================================================================
