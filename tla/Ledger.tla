-------------------------------- MODULE Ledger --------------------------------
(***************************************************************************)
(* The ledgers of a gateway: records wait in a queue, a background task    *)
(* writes them to Postgres in batches and retries for as long as it takes, *)
(* streams write theirs themselves, and a shutdown drains what is left     *)
(* (settlement/batcher.py, attempt_batcher.py, and the lifespan in         *)
(* app.py).  The two batchers are the same program over different tables;  *)
(* the module is one of them.                                              *)
(*                                                                         *)
(* A step is what the event loop runs between two awaits.  A write that    *)
(* fails may have been committed: the answer was lost.                     *)
(*                                                                         *)
(* Abstractions: the queue is a set, as no property depends on its order,  *)
(* and neither on the interval after which a batch is written unfilled.    *)
(***************************************************************************)
EXTENDS Integers, FiniteSets

CONSTANTS
    Records,
    Streamed,     \* the records of streams, which may outlive drain_timeout_s
    Flushed,      \* those of them that enqueue_and_flush writes
    BatchSize,    \* settlement.batch_size
    QueueMax      \* settlement.queue_max

ASSUME LedgerAssumption ==
    /\ IsFiniteSet(Records)
    /\ Flushed \subseteq Streamed /\ Streamed \subseteq Records
    /\ BatchSize \in Nat \ {0} /\ QueueMax \in Nat \ {0}

VARIABLES
    rec,        \* what the producer of each record does
    queue,      \* _queue
    run,        \* where the task of run() is
    batch,      \* the batch it has in hand
    drain,      \* where drain() is; one runs at a time, under _drain_lock
    hand,       \* the batch drain() has in hand
    late,       \* whether the deadline of the drain has passed
    phase,      \* where the lifespan is
    closed,     \* _closed
    up,         \* whether Postgres answers
    rows,       \* the rows of each record in the table
    dropped,    \* the records counted by ledger_dropped
    intime      \* history: records put on the queue before the tasks were cancelled

producers == <<rec, queue, dropped, intime>>
workers == <<run, batch, drain, hand, late>>
shutdown == <<phase, closed>>
vars == <<producers, workers, shutdown, up, rows>>

Phases == {"serving", "streams", "tasks", "drain", "over"}

(* executemany of INSERT ... ON CONFLICT DO NOTHING, in one transaction.   *)
(* Defect: without ON CONFLICT, and without the primary key it names.      *)
InsertAgain(S) == rows' = [r \in Records |-> IF r \in S THEN rows[r] + 1 ELSE rows[r]]

Insert(S) == rows' = [r \in Records |-> IF r \in S /\ rows[r] = 0 THEN 1 ELSE rows[r]]

(* An attempt of _write_with_retry that is not the last one. *)
WriteFails(S) == Insert(S) \/ (~up /\ UNCHANGED rows)

(***************************************************************************)
(* Producers                                                               *)
(***************************************************************************)
Active == {r \in Streamed : rec[r] \in {"streaming", "flushing"}}

(* ActiveStreamTracker.enter, before the server stops taking requests. *)
StreamStarts(r) ==
    /\ r \in Streamed /\ rec[r] = "new" /\ phase = "serving"
    /\ rec' = [rec EXCEPT ![r] = "streaming"]
    /\ UNCHANGED <<queue, dropped, intime, workers, shutdown, up, rows>>

(* A record of a plain request, or of an attempt of a stream. *)
Enqueue(r) ==
    /\ r \notin Flushed
    /\ rec[r] = (IF r \in Streamed THEN "streaming" ELSE "new")
    /\ r \in Streamed \/ phase = "serving"
    /\ rec' = [rec EXCEPT ![r] = "over"]
    /\ queue' = IF ~closed /\ Cardinality(queue) < QueueMax THEN queue \cup {r} ELSE queue
    /\ dropped' = IF ~closed /\ Cardinality(queue) >= QueueMax THEN dropped \cup {r} ELSE dropped
    /\ intime' = IF ~closed /\ phase \in {"serving", "streams"} THEN intime \cup {r} ELSE intime
    /\ UNCHANGED <<workers, shutdown, up, rows>>

(* enqueue_and_flush: past the queue, until Postgres has it. *)
Flush(r) ==
    /\ r \in Flushed /\ rec[r] = "streaming"
    /\ rec' = [rec EXCEPT ![r] = IF closed THEN "over" ELSE "flushing"]
    /\ UNCHANGED <<queue, dropped, intime, workers, shutdown, up, rows>>

FlushFails(r) ==
    /\ rec[r] = "flushing" /\ ~closed
    /\ WriteFails({r})
    /\ UNCHANGED <<producers, workers, shutdown, up>>

(* The write is done, or the pool was closed under it. *)
FlushEnds(r) ==
    /\ rec[r] = "flushing"
    /\ rec' = [rec EXCEPT ![r] = "over"]
    /\ IF closed THEN UNCHANGED rows ELSE up /\ Insert({r})
    /\ UNCHANGED <<queue, dropped, intime, workers, shutdown, up>>

(***************************************************************************)
(* run()                                                                   *)
(***************************************************************************)
Get ==
    /\ run = "getting"
    /\ \E r \in queue : batch' = {r} /\ queue' = queue \ {r}
    /\ run' = "filling"
    /\ UNCHANGED <<rec, dropped, intime, drain, hand, late, shutdown, up, rows>>

(* Defect: the batch takes all there is. *)
FillUnbounded ==
    /\ run = "filling"
    /\ \E r \in queue : batch' = batch \cup {r} /\ queue' = queue \ {r}
    /\ UNCHANGED <<rec, dropped, intime, run, drain, hand, late, shutdown, up, rows>>

Fill ==
    /\ run = "filling" /\ Cardinality(batch) < BatchSize
    /\ \E r \in queue : batch' = batch \cup {r} /\ queue' = queue \ {r}
    /\ UNCHANGED <<rec, dropped, intime, run, drain, hand, late, shutdown, up, rows>>

(* Defect: the interval is not looked at. *)
FilledFull ==
    /\ run = "filling" /\ Cardinality(batch) = BatchSize
    /\ run' = "writing"
    /\ UNCHANGED <<producers, batch, drain, hand, late, shutdown, up, rows>>

(* The batch is full, or batch_interval_ms is over. *)
Filled ==
    /\ run = "filling"
    /\ run' = "writing"
    /\ UNCHANGED <<producers, batch, drain, hand, late, shutdown, up, rows>>

BatchFails ==
    /\ run \in {"writing", "cut"}
    /\ WriteFails(batch)
    /\ UNCHANGED <<producers, workers, shutdown, up>>

(* The batch is written; a cancelled run() goes on to drain. *)
BatchWritten ==
    /\ run \in {"writing", "cut"} /\ up
    /\ Insert(batch)
    /\ batch' = {}
    /\ run' = IF run = "cut" THEN "draining" ELSE "getting"
    /\ drain' = IF run = "cut" THEN "looking" ELSE drain
    /\ late' = IF run = "cut" THEN FALSE ELSE late
    /\ UNCHANGED <<producers, hand, shutdown, up>>

(***************************************************************************)
(* drain()                                                                 *)
(***************************************************************************)
(* Defect: the task is cancelled like the others, and its batch with it. *)
CancelDropsBatch ==
    /\ phase = "tasks" /\ run \in {"getting", "filling", "writing"}
    /\ batch' = {}
    /\ run' = "draining"
    /\ drain' = "looking"
    /\ late' = FALSE
    /\ UNCHANGED <<producers, hand, shutdown, up, rows>>

(* The CancelledError: a batch in hand is written first. *)
Cancel ==
    /\ phase = "tasks" /\ run \in {"getting", "filling", "writing"}
    /\ run' = IF batch = {} THEN "draining" ELSE "cut"
    /\ drain' = IF batch = {} THEN "looking" ELSE drain
    /\ late' = IF batch = {} THEN FALSE ELSE late
    /\ UNCHANGED <<producers, batch, hand, shutdown, up, rows>>

(* Up to batch_size records, all of the queue if it has fewer. *)
DrainTake ==
    /\ drain = "looking" /\ queue # {}
    /\ \E S \in SUBSET queue :
          /\ Cardinality(S) = BatchSize \/ (S = queue /\ Cardinality(S) < BatchSize)
          /\ hand' = S
          /\ queue' = queue \ S
    /\ drain' = "writing"
    /\ UNCHANGED <<rec, dropped, intime, run, batch, late, shutdown, up, rows>>

(* What follows a batch of drain(): the next look at the queue after a full *)
(* one, the end after the rest.                                             *)
DrainGoesOn ==
    /\ drain' = IF Cardinality(hand) = BatchSize THEN "looking" ELSE "done"
    /\ hand' = {}

DrainEmpty ==
    /\ drain = "looking" /\ queue = {}
    /\ drain' = "done"
    /\ UNCHANGED <<producers, run, batch, hand, late, shutdown, up, rows>>

DrainWritten ==
    /\ drain = "writing" /\ up
    /\ Insert(hand)
    /\ DrainGoesOn
    /\ UNCHANGED <<producers, run, batch, late, shutdown, up>>

DrainFails ==
    /\ drain = "writing" /\ ~late
    /\ WriteFails(hand)
    /\ UNCHANGED <<producers, workers, shutdown, up>>

(* Defect: what is given up is not counted. *)
DrainGivesUpUncounted ==
    /\ drain = "writing" /\ late /\ WriteFails(hand)
    /\ DrainGoesOn
    /\ UNCHANGED <<producers, run, batch, late, shutdown, up>>

(* Defect: a batch that fails past the deadline is tried again. *)
DrainInsists ==
    /\ drain = "writing" /\ late /\ WriteFails(hand)
    /\ UNCHANGED <<producers, workers, shutdown, up>>

(* A write that fails past the deadline: the batch is counted as dropped. *)
DrainGivesUp ==
    /\ drain = "writing" /\ late /\ WriteFails(hand)
    /\ dropped' = dropped \cup hand
    /\ DrainGoesOn
    /\ UNCHANGED <<rec, queue, intime, run, batch, late, shutdown, up>>

(* The ten seconds of _drain_timeout_s. *)
Deadline ==
    /\ drain \in {"looking", "writing"} /\ ~late
    /\ late' = TRUE
    /\ UNCHANGED <<producers, run, batch, drain, hand, shutdown, up, rows>>

(* Defect: the CancelledError is caught, and the task waits for records again. *)
RunSwallows ==
    /\ run = "draining" /\ drain = "done"
    /\ run' = "getting" /\ drain' = "off"
    /\ UNCHANGED <<producers, batch, hand, late, shutdown, up, rows>>

(* The end of the task: the CancelledError goes on after drain(). *)
RunEnds ==
    /\ run = "draining" /\ drain = "done"
    /\ run' = "off" /\ drain' = "off"
    /\ UNCHANGED <<producers, batch, hand, late, shutdown, up, rows>>

(***************************************************************************)
(* The finally of the lifespan                                             *)
(***************************************************************************)
Sigterm ==
    /\ phase = "serving"
    /\ phase' = "streams"
    /\ UNCHANGED <<producers, workers, closed, up, rows>>

(* ActiveStreamTracker.drain returns with no stream active, or at its timeout. *)
StreamsDrained ==
    /\ phase = "streams"
    /\ phase' = "tasks"
    /\ UNCHANGED <<producers, workers, closed, up, rows>>

(* TaskRegistry.drain has gathered the task, and the drain that follows starts. *)
TasksDrained ==
    /\ phase = "tasks" /\ run = "off"
    /\ phase' = "drain"
    /\ drain' = "looking" /\ late' = FALSE
    /\ UNCHANGED <<producers, run, batch, hand, closed, up, rows>>

Close ==
    /\ phase = "drain" /\ drain = "done"
    /\ phase' = "over" /\ closed' = TRUE
    /\ UNCHANGED <<producers, workers, up, rows>>

(* External: Postgres goes away and comes back. *)
Postgres ==
    /\ up' = ~up
    /\ UNCHANGED <<producers, workers, shutdown, rows>>

(* Without Redis at startup, the lifespan does not start run(). *)
Init ==
    /\ rec = [r \in Records |-> "new"]
    /\ queue = {} /\ dropped = {} /\ intime = {}
    /\ run \in {"getting", "off"}
    /\ batch = {}
    /\ drain = "off" /\ hand = {} /\ late = FALSE
    /\ phase = "serving" /\ closed = FALSE
    /\ up = TRUE
    /\ rows = [r \in Records |-> 0]

Producer(r) == StreamStarts(r) \/ Enqueue(r) \/ Flush(r) \/ FlushFails(r) \/ FlushEnds(r)

Run == Get \/ Fill \/ Filled \/ BatchFails \/ BatchWritten \/ Cancel \/ RunEnds

Drain == DrainTake \/ DrainEmpty \/ DrainWritten \/ DrainFails \/ DrainGivesUp \/ Deadline

Lifespan == Sigterm \/ StreamsDrained \/ TasksDrained \/ Close

Next == (\E r \in Records : Producer(r)) \/ Run \/ Drain \/ Lifespan \/ Postgres

(* The tasks run, time passes, and a write to a Postgres that answers is    *)
(* not put off for ever.  Nothing is assumed of Postgres itself, nor of     *)
(* producers and signals.                                                   *)
Fairness ==
    /\ WF_vars(Get) /\ WF_vars(Filled) /\ WF_vars(BatchWritten)
    /\ WF_vars(Cancel) /\ WF_vars(RunEnds)
    /\ WF_vars(DrainTake) /\ WF_vars(DrainEmpty)
    /\ WF_vars(Deadline) /\ WF_vars(DrainWritten \/ DrainGivesUp)
    /\ WF_vars(StreamsDrained) /\ WF_vars(TasksDrained) /\ WF_vars(Close)

Spec == Init /\ [][Next]_vars /\ Fairness

(***************************************************************************)
(* Properties                                                              *)
(***************************************************************************)
(* Type correctness, with the bound of the queue and of the batches. *)
LedgerTypeOK ==
    /\ rec \in [Records -> {"new", "streaming", "flushing", "over"}]
    /\ queue \subseteq Records /\ Cardinality(queue) <= QueueMax
    /\ run \in {"getting", "filling", "writing", "cut", "draining", "off"}
    /\ batch \subseteq Records /\ Cardinality(batch) <= BatchSize
    /\ drain \in {"off", "looking", "writing", "done"}
    /\ hand \subseteq Records /\ Cardinality(hand) <= BatchSize
    /\ late \in BOOLEAN
    /\ phase \in Phases
    /\ closed \in BOOLEAN /\ up \in BOOLEAN
    /\ rows \in [Records -> Nat]
    /\ dropped \subseteq Records
    /\ intime \subseteq Records

Written == {r \in Records : rows[r] > 0}

(* A record is written once, however often its write is tried again after   *)
(* an answer was lost, also by the cancelled task and by the drain.         *)
WrittenOnce == \A r \in Records : rows[r] <= 1

(* Nothing is lost in silence: when the gateway is down, each record that   *)
(* was put on the queue before the tasks were cancelled is written or       *)
(* counted as dropped (tests/integration/test_ledger.py,                    *)
(* test_ledger_survives_gateway_sigterm).                                   *)
NoSilentLoss == phase = "over" => intime \subseteq Written \cup dropped

(* Until then it is written, dropped, on the queue or in one hand.          *)
Accounted == intime \subseteq Written \cup dropped \cup queue \cup batch \cup hand

(* The drain of the shutdown ends whatever Postgres does, by its deadline.  *)
DrainEnds == phase = "drain" ~> phase = "over"

(* The whole shutdown ends if Postgres is back for good: the batch in hand  *)
(* of the cancelled task has no deadline.                                   *)
ShutdownEnds == (<>[]up) => (phase = "streams" ~> phase = "over")

(* With the task running and Postgres back for good, what is on the queue   *)
(* does not stay there, nor in a hand.                                      *)
Delivered ==
    (<>[](up /\ run # "off")) =>
        \A r \in Records : r \in queue ~> r \in Written \cup dropped

(* A ledger is an outbox: its records wait on the queue, or in the hand of  *)
(* the task or of the drain, of which only one is full at a time.           *)
Box == INSTANCE Outbox WITH Direct <- Flushed, Limit <- QueueMax + BatchSize,
                            pending <- queue \cup batch \cup hand,
                            table <- Written, refused <- dropped
=============================================================================
