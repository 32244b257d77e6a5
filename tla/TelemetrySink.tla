--------------------------- MODULE TelemetrySink ---------------------------
(***************************************************************************)
(* AsyncTelemetrySink (telemetry/storage.py): the tasks of one event loop  *)
(* around a queue.  The host enqueues events at any time; `init' is the    *)
(* coroutine initialize, `worker' the flush loop it starts, `closer' the   *)
(* coroutine aclose.  A task runs without interruption between two awaits, *)
(* and an action is what it does from one await to the next.  The process  *)
(* may exit at any time; then only the exit handler runs.                  *)
(*                                                                         *)
(* Events are numbered 1 .. enqueued.  A writer at position next of its    *)
(* batch awaits the connection (next = 1), the insertion of the item there *)
(* or, behind the last one, the release of the connection.                 *)
(***************************************************************************)
EXTENDS Integers, SequencesExt

CONSTANTS
    BatchSize,
    MaxEvents,    \* bound: events the host enqueues
    Kind          \* the type of each event

ASSUME SinkAssumption ==
    /\ BatchSize \in Nat \ {0}
    /\ MaxEvents \in Nat
    /\ Kind \in [1 .. MaxEvents -> {"GOVERNANCE_LOG", "MERKLE_NODE", "OTHER"}]

VARIABLES
    dsn,         \* db_dsn: is a database configured?
    queue,       \* _queue
    isRunning,   \* _is_running
    pool,        \* _pool: "none", "open" or "closed"
    mem,         \* _memory_log_buffer
    db,          \* the rows of both tables, in the order of insertion
    pc,          \* where each task is
    batch,       \* the batch of each writer
    next,        \* its position in the batch
    cancelled,   \* has worker_task.cancel() been called?
    enqueued,    \* how many events the host enqueued
    closedAt,    \* history: how many of them before aclose was called
    exited       \* has the process exited?

writeVars == <<batch, next, cancelled>>
sinkVars == <<dsn, queue, isRunning, pool, mem, db>>
hostVars == <<enqueued, closedAt, exited>>
vars == <<sinkVars, pc, writeVars, hostVars>>

Events == 1 .. MaxEvents
Writers == {"worker", "closer"}

TypeOK ==
    /\ dsn \in BOOLEAN
    /\ queue \in Seq(Events)
    /\ isRunning \in BOOLEAN
    /\ pool \in {"none", "open", "closed"}
    /\ mem \in Seq(Events)
    /\ db \in Seq(Events)
    /\ pc \in [init : {"idle", "connecting", "creating", "done"},
               worker : {"none", "new", "writing", "sleeping", "done"},
               closer : {"idle", "writing", "closing", "done"}]
    /\ batch \in [Writers -> Seq(Events)]
    /\ next \in [Writers -> 1 .. MaxEvents + 1]
    /\ cancelled \in BOOLEAN
    /\ enqueued \in 0 .. MaxEvents
    /\ closedAt \in 0 .. MaxEvents
    /\ exited \in BOOLEAN

Init ==
    /\ dsn \in BOOLEAN
    /\ queue = <<>>
    /\ isRunning = FALSE
    /\ pool = "none"
    /\ mem = <<>>
    /\ db = <<>>
    /\ pc = [init |-> "idle", worker |-> "none", closer |-> "idle"]
    /\ batch = [w \in Writers |-> <<>>]
    /\ next = [w \in Writers |-> 1]
    /\ cancelled = FALSE
    /\ enqueued = 0
    /\ closedAt = 0
    /\ exited = FALSE

-----------------------------------------------------------------------------
(* The host.  It calls initialize and aclose once each, aclose possibly     *)
(* while initialize is still waiting for the database.                      *)

EnqueueEvent ==
    /\ ~exited
    /\ enqueued < MaxEvents
    /\ enqueued' = enqueued + 1
    /\ queue' = Append(queue, enqueued + 1)
    /\ UNCHANGED <<dsn, isRunning, pool, mem, db, pc, writeVars, closedAt, exited>>

\* Without a database the worker starts in the same step.
Initialize ==
    /\ pc.init = "idle"
    /\ pc.closer = "idle"
    /\ isRunning' = TRUE
    /\ pc' = IF dsn THEN [pc EXCEPT !.init = "connecting"]
             ELSE [pc EXCEPT !.init = "done", !.worker = "new"]
    /\ UNCHANGED <<dsn, queue, pool, mem, db, writeVars, hostVars>>

PoolCreated ==
    /\ pc.init = "connecting"
    /\ pool' = "open"
    /\ pc' = [pc EXCEPT !.init = "creating"]
    /\ UNCHANGED <<dsn, queue, isRunning, mem, db, writeVars, hostVars>>

\* The tables are there, or connecting or creating failed: start the worker.
InitializeReturns ==
    /\ pc.init \in {"connecting", "creating"}
    /\ pc' = [pc EXCEPT !.init = "done", !.worker = "new"]
    /\ UNCHANGED <<sinkVars, writeVars, hostVars>>

-----------------------------------------------------------------------------
(* _write_batch, awaited by the worker and by aclose *)

\* Mutated forms of Buffered: no fallback; the latest batch in front.
BufferedNothing(items) == mem
BufferedInFront(items) == items \o mem

\* The fallback: the memory buffer extended by a batch.
Buffered(items) == mem \o items

Inserting(w) == pc[w] = "writing" /\ next[w] <= Len(batch[w])
Current(w) == batch[w][next[w]]

\* Items of a type that has no table are passed over.
HasTable(e) == Kind[e] \in {"GOVERNANCE_LOG", "MERKLE_NODE"}
Inserted(e) == IF HasTable(e) THEN Append(db, e) ELSE db

NotCancelled(w) == w = "worker" => ~cancelled

Insert(w) ==
    /\ Inserting(w)
    /\ NotCancelled(w)
    /\ pool = "open"
    /\ db' = Inserted(Current(w))
    /\ next' = [next EXCEPT ![w] = @ + 1]
    /\ UNCHANGED <<dsn, queue, isRunning, pool, mem, pc, batch, cancelled, hostVars>>

\* Where a writer goes behind the batch.  The worker sleeps; aclose cancels
\* the worker, if there is one, and awaits the closing of the pool.
Behind(w) ==
    IF w = "worker"
    THEN /\ pc' = [pc EXCEPT !.worker = "sleeping"]
         /\ UNCHANGED <<pool, cancelled>>
    ELSE /\ cancelled' = (pc.worker # "none")
         /\ pc' = [pc EXCEPT !.closer = IF pool = "none" THEN "done" ELSE "closing"]
         /\ pool' = IF pool = "none" THEN "none" ELSE "closed"

NoBatch(w) ==
    /\ batch' = [batch EXCEPT ![w] = <<>>]
    /\ next' = [next EXCEPT ![w] = 1]

\* The connection is released.
WriteReturns(w) ==
    /\ pc[w] = "writing"
    /\ ~Inserting(w)
    /\ NotCancelled(w)
    /\ Behind(w)
    /\ NoBatch(w)
    /\ UNCHANGED <<dsn, queue, isRunning, mem, db, hostVars>>

\* Mutated form of WriteFails: the batch is queued again as well.
WriteFailsRequeues(w) ==
    /\ pc[w] = "writing"
    /\ NotCancelled(w)
    /\ mem' = Buffered(batch[w])
    /\ queue' = batch[w] \o queue
    /\ Behind(w)
    /\ NoBatch(w)
    /\ UNCHANGED <<dsn, isRunning, db, hostVars>>

\* Acquiring, inserting or releasing raises: the whole batch goes to memory,
\* the items already inserted too.  The insertion that raised may have taken
\* effect.
WriteFails(w) ==
    /\ pc[w] = "writing"
    /\ NotCancelled(w)
    /\ mem' = Buffered(batch[w])
    /\ db' \in IF Inserting(w) /\ pool = "open" THEN {db, Inserted(Current(w))}
               ELSE {db}
    /\ Behind(w)
    /\ NoBatch(w)
    /\ UNCHANGED <<dsn, queue, isRunning, hostVars>>

-----------------------------------------------------------------------------
(* The worker *)

\* Mutated form of AtLoopTop: the worker waits for a pool.
AtLoopTopConnected ==
    pc.worker \in {"new", "sleeping"} /\ ~cancelled /\ pool # "none"

AtLoopTop == pc.worker \in {"new", "sleeping"} /\ ~cancelled

Least(m, n) == IF m <= n THEN m ELSE n
\* Mutated form of Collected: the latest event first.
CollectedReversed == Reverse(SubSeq(queue, 1, Least(BatchSize, Len(queue))))

Collected == SubSeq(queue, 1, Least(BatchSize, Len(queue)))
\* Mutated form of Left: one event too many is taken off the queue.
LeftShort == SubSeq(queue, Least(BatchSize, Len(queue)) + 2, Len(queue))

Left == SubSeq(queue, Least(BatchSize, Len(queue)) + 1, Len(queue))

\* One turn of the loop: take a batch and write it.  Without a pool the
\* batch goes to memory before the task next awaits.
Flush ==
    /\ AtLoopTop
    /\ isRunning \/ queue # <<>>
    /\ queue' = Left
    /\ IF Collected # <<>> /\ pool # "none"
       THEN /\ batch' = [batch EXCEPT !["worker"] = Collected]
            /\ pc' = [pc EXCEPT !.worker = "writing"]
            /\ UNCHANGED mem
       ELSE /\ mem' = Buffered(Collected)
            /\ pc' = [pc EXCEPT !.worker = "sleeping"]
            /\ UNCHANGED batch
    /\ UNCHANGED <<dsn, isRunning, pool, db, next, cancelled, hostVars>>

WorkerReturns ==
    /\ AtLoopTop
    /\ ~isRunning
    /\ queue = <<>>
    /\ pc' = [pc EXCEPT !.worker = "done"]
    /\ UNCHANGED <<sinkVars, writeVars, hostVars>>

\* Mutated form of WorkerCancelled: a write under way is not interrupted.
WorkerCancelledIdle ==
    /\ cancelled
    /\ pc.worker \in {"new", "sleeping"}
    /\ pc' = [pc EXCEPT !.worker = "done"]
    /\ UNCHANGED <<sinkVars, writeVars, hostVars>>

\* CancelledError is raised where the worker awaits.  It is not an Exception,
\* so _write_batch does not catch it: the batch is dropped.  An insertion
\* under way may have taken effect.
WorkerCancelled ==
    /\ cancelled
    /\ pc.worker \in {"new", "sleeping", "writing"}
    /\ db' \in IF Inserting("worker") THEN {db, Inserted(Current("worker"))}
               ELSE {db}
    /\ pc' = [pc EXCEPT !.worker = "done"]
    /\ NoBatch("worker")
    /\ UNCHANGED <<dsn, queue, isRunning, pool, mem, cancelled, hostVars>>

-----------------------------------------------------------------------------
(* aclose *)

Aclose ==
    /\ pc.closer = "idle"
    /\ isRunning' = FALSE
    /\ closedAt' = enqueued
    /\ queue' = <<>>
    /\ IF queue # <<>> /\ pool # "none"
       THEN /\ batch' = [batch EXCEPT !["closer"] = queue]
            /\ pc' = [pc EXCEPT !.closer = "writing"]
            /\ UNCHANGED <<mem, pool, cancelled>>
       ELSE /\ mem' = Buffered(queue)
            /\ Behind("closer")
            /\ UNCHANGED batch
    /\ UNCHANGED <<dsn, db, next, enqueued, exited>>

\* pool.close() returns once every connection has been released.
AcloseReturns ==
    /\ pc.closer = "closing"
    /\ pc.worker # "writing" /\ pc.init # "creating"
    /\ pc' = [pc EXCEPT !.closer = "done"]
    /\ UNCHANGED <<sinkVars, writeVars, hostVars>>

\* The process ends: the tasks are gone and the exit handler moves what is
\* queued to the memory buffer.
Exit ==
    /\ ~exited
    /\ exited' = TRUE
    /\ mem' = Buffered(queue)
    /\ queue' = <<>>
    /\ pc' = [init |-> "done", worker |-> "done", closer |-> "done"]
    /\ batch' = [w \in Writers |-> <<>>]
    /\ next' = [w \in Writers |-> 1]
    /\ UNCHANGED <<dsn, isRunning, pool, db, cancelled, enqueued, closedAt>>

InitSteps == PoolCreated \/ InitializeReturns
WriteSteps(w) == Insert(w) \/ WriteReturns(w) \/ WriteFails(w)
WorkerSteps ==
    WriteSteps("worker") \/ Flush \/ WorkerReturns \/ WorkerCancelled
CloserSteps == WriteSteps("closer") \/ AcloseReturns

Next ==
    \/ EnqueueEvent \/ Initialize \/ Aclose \/ Exit
    \/ InitSteps \/ WorkerSteps \/ CloserSteps

Spec == Init /\ [][Next]_vars

\* The event loop runs every task that is ready, and the database answers or
\* fails; nobody has to enqueue, initialize, close or exit.
Fairness ==
    /\ WF_vars(InitSteps)
    /\ WF_vars(WorkerSteps)
    /\ WF_vars(CloserSteps)

FairSpec == Spec /\ Fairness

-----------------------------------------------------------------------------
(* Properties *)

Rest(w) == SubSeq(batch[w], next[w], Len(batch[w]))
Stored == ToSet(db)
\* The memory buffer is a list of the process and ends with it.
Remembered == IF exited THEN {} ELSE ToSet(mem)
Held == ToSet(queue) \cup ToSet(batch["worker"]) \cup ToSet(batch["closer"])

\* The events of a type with a table that are nowhere any more.
Lost == {e \in 1 .. enqueued : HasTable(e)} \ (Stored \cup Remembered \cup Held)

\* While the process lives, failures of the database lose nothing, at any
\* point of a batch; the only loss is the batch the worker was writing when
\* aclose cancelled it (storage.py:115,141,145,167).
LossIsOneCancelledBatch ==
    ~exited /\ Lost # {} =>
        /\ cancelled /\ pc.worker = "done"
        /\ Cardinality(Lost) <= BatchSize

\* Every event takes one way through the sink: the queue, the two batches
\* and the tables never hold it twice, nor do the queue, the batches and the
\* memory buffer, whatever fails and however aclose overlaps the worker
\* (storage.py:104-109,145,157-159).  (A failed batch is in the memory
\* buffer and may be in the tables too.)
OneWayThrough ==
    /\ IsInjective(db \o Rest("worker") \o Rest("closer") \o queue)
    /\ IsInjective(mem \o batch["worker"] \o batch["closer"] \o queue)

\* Until aclose is called, rows are inserted in the order in which their
\* events were enqueued.  Then it writes what is queued while the worker still
\* writes its batch: of the events enqueued before, at most that one batch
\* gets its rows behind those of newer events (storage.py:106,125,157-163).
InOrder(s) == \A i, j \in DOMAIN s : i < j => s[i] < s[j]
LateRows ==
    {db[j] : j \in {k \in DOMAIN db :
                       \E i \in 1 .. k - 1 : db[k] < db[i] /\ db[i] <= closedAt}}
RowsAreLateByOneBatch ==
    /\ pc.closer = "idle" => InOrder(db)
    /\ Cardinality(LateRows) <= BatchSize

\* aclose returns: neither the batch it drained, nor the batch of the
\* worker it cancels, nor a pool it waits for keeps it (storage.py:163-170).
AcloseTerminates == pc.closer # "idle" ~> pc.closer = "done"

\* Once the worker has started, no event stays queued for good before aclose
\* (storage.py:100-114).
QueueIsDrained ==
    \A e \in Events :
        e \in ToSet(queue) /\ pc.worker # "none" /\ pc.closer = "idle"
            ~> e \notin ToSet(queue) \/ pc.closer # "idle"

\* What was enqueued before aclose is in a table, or at least in memory, when
\* aclose has returned (storage.py:150: "Drains all remaining items in queue
\* and flushes before returning.").
CloseLosesNothing ==
    pc.closer = "done" /\ ~exited =>
        {e \in 1 .. closedAt : HasTable(e)} \subseteq Stored \cup Remembered

\* As long as there is no pool - no database is configured, or it is not
\* connected yet or never - memory and queue together are a complete log of
\* what was enqueued, in order, across aclose and, in the ending process, the
\* exit handler (storage.py:109,145,159,182).
MemoryIsComplete ==
    pool = "none" => mem \o queue = [e \in 1 .. enqueued |-> e]

\* Every event meets one fate, wherever the failures of the database and the
\* two writers' overlap leave it (storage.py:104-145,174-182).  Only events of
\* a type without a table are passed over.  Before the process ends only a
\* cancelled worker loses any; with it all go that are in memory then, those
\* included that the exit handler has just moved there.
Fate(e) ==
    IF e \in Stored THEN "stored"
    ELSE IF e \in ToSet(mem) THEN (IF exited THEN "lost" ELSE "buffered")
    ELSE IF e \in Held THEN "pending"
    ELSE IF HasTable(e) THEN "lost"
    ELSE "skipped"
Fates == INSTANCE EventFates WITH
            fate <- [e \in 1 .. enqueued |-> Fate(e)],
            stopping <- cancelled \/ exited,
            ended <- exited
ImplementsEventFates == Fates!Spec

\* What the proofs need besides.  The queue holds the events from the last
\* one taken off it to the last one enqueued.
Taken == enqueued - Len(queue)
QueueIsTail ==
    /\ Taken >= 0
    /\ \A i \in DOMAIN queue : queue[i] = Taken + i

Ahead(w) == {batch[w][i] : i \in next[w] .. Len(batch[w])}

\* A writer's batch was taken off the queue, and not by the other writer too.
BatchesApart ==
    /\ \A w \in Writers :
          /\ pc[w] # "writing" => batch[w] = <<>>
          /\ next[w] <= Len(batch[w]) + 1
          /\ Len(batch[w]) <= Taken
          /\ InOrder(batch[w])
          /\ \A e \in ToSet(batch[w]) : e <= Taken
    /\ ToSet(batch["worker"]) \cap ToSet(batch["closer"]) = {}
    /\ Len(batch["worker"]) <= BatchSize

\* A writer has inserted what it has passed and nothing of what is ahead.
RowsOnce ==
    /\ IsInjective(db)
    /\ \A e \in ToSet(db) : e <= Taken
    /\ \A w \in Writers :
          /\ ToSet(db) \cap Ahead(w) = {}
          /\ \A i \in 1 .. next[w] - 1 :
                HasTable(batch[w][i]) => batch[w][i] \in ToSet(db)
    /\ pc.closer = "idle" =>
          /\ InOrder(db)
          /\ \A e \in ToSet(db), f \in Ahead("worker") : e < f

BufferOnce ==
    /\ IsInjective(mem)
    /\ \A e \in ToSet(mem) : e <= Taken
    /\ \A w \in Writers : ToSet(mem) \cap ToSet(batch[w]) = {}
    /\ pool = "none" => mem = [e \in 1 .. Taken |-> e]

Phases ==
    /\ pc.worker # "none" => pc.init = "done"
    /\ cancelled => pc.worker # "none" /\ pc.closer \in {"closing", "done"}
    /\ pool = "none" => \A w \in Writers : pc[w] # "writing"
    /\ exited => \A t \in DOMAIN pc : pc[t] = "done"

Data == QueueIsTail /\ BatchesApart /\ RowsOnce /\ BufferOnce /\ Phases
IndInv == TypeOK /\ Data /\ LossIsOneCancelledBatch
=============================================================================
