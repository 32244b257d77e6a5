----------------------------- MODULE EventFates -----------------------------
(***************************************************************************)
(* What a telemetry sink promises of the events it accepts.  Each of them  *)
(* is pending until it is stored in a table, passed over because there is  *)
(* no table for it, kept in the memory of the process, or lost.  What is   *)
(* kept in memory is lost when the process ends, which nothing outlives    *)
(* but the tables; nothing else is lost before the sink is being stopped.  *)
(* What is stored, passed over or lost stays so.                           *)
(***************************************************************************)
EXTENDS Sequences

VARIABLES
    fate,       \* the fate of each accepted event, in order of acceptance
    stopping,
    ended       \* has the process ended?

fateVars == <<fate, stopping, ended>>

Init == fate = <<>> /\ stopping = FALSE /\ ended = FALSE

Accept ==
    /\ ~ended
    /\ fate' = Append(fate, "pending")
    /\ UNCHANGED <<stopping, ended>>

Becomes(was, is) ==
    /\ \/ is = was
       \/ was = "pending" /\ is \in {"stored", "skipped", "buffered"}
       \/ was = "pending" /\ is = "lost" /\ stopping'
       \/ was = "buffered" /\ is = "lost" /\ ended'
    /\ ended' => is \in {"stored", "skipped", "lost"}

\* Some events meet their fate, or the sink begins to stop, or the process
\* ends, or several of these at once.
Settle ==
    /\ ~ended
    /\ stopping => stopping'
    /\ ended' => stopping'
    /\ DOMAIN fate' = DOMAIN fate
    /\ \A e \in DOMAIN fate : Becomes(fate[e], fate'[e])

Next == Accept \/ Settle

Spec == Init /\ [][Next]_fateVars
=============================================================================
