----------------------------- MODULE Ledger_proofs -----------------------------
(***************************************************************************)
(* Theorems about Ledger, for any records, batch size and queue bound: the *)
(* queue and the batches keep their bounds, a record is written at most    *)
(* once, the shutdown loses no record in silence, and the whole implements *)
(* the outbox of Outbox.                                                   *)
(***************************************************************************)
EXTENDS Ledger, FiniteSetTheorems, TLAPS

(***************************************************************************)
(* Type correctness, with the bounds                                       *)
(***************************************************************************)
LEMMA AddOne ==
    ASSUME NEW S \in SUBSET Records, NEW r \in Records, NEW n \in Nat,
           Cardinality(S) < n
    PROVE  Cardinality(S \cup {r}) <= n
<1>1. IsFiniteSet(S)
  BY FS_Subset, LedgerAssumption
<1>2. Cardinality(S) \in Nat
  BY <1>1, FS_CardinalityType
<1>3. \/ Cardinality(S \cup {r}) = Cardinality(S)
      \/ Cardinality(S \cup {r}) = Cardinality(S) + 1
  BY <1>1, FS_AddElement
<1> QED
  BY <1>2, <1>3

LEMMA RemoveSome ==
    ASSUME NEW S \in SUBSET Records, NEW T, NEW n \in Nat, Cardinality(S) <= n
    PROVE  Cardinality(S \ T) <= n
<1>1. IsFiniteSet(S)
  BY FS_Subset, LedgerAssumption
<1>2. Cardinality(S \ T) <= Cardinality(S) /\ IsFiniteSet(S \ T)
  BY <1>1, FS_Subset
<1>3. Cardinality(S \ T) \in Nat /\ Cardinality(S) \in Nat
  BY <1>1, <1>2, FS_CardinalityType
<1> QED
  BY <1>2, <1>3

LEMMA SubsetBound ==
    ASSUME NEW S \in SUBSET Records, NEW T \in SUBSET S
    PROVE  /\ Cardinality(T) <= Cardinality(S)
           /\ Cardinality(T) \in Nat /\ Cardinality(S) \in Nat
<1>1. IsFiniteSet(S)
  BY FS_Subset, LedgerAssumption
<1>2. IsFiniteSet(T) /\ Cardinality(T) <= Cardinality(S)
  BY <1>1, FS_Subset
<1> QED
  BY <1>1, <1>2, FS_CardinalityType

LEMMA Sizes ==
    /\ Cardinality({}) <= QueueMax
    /\ Cardinality({}) <= BatchSize
    /\ \A r \in Records : Cardinality({r}) <= BatchSize
<1>1. Cardinality({}) = 0
  BY FS_EmptySet
<1>2. \A r \in Records : Cardinality({r}) = 1
  BY FS_Singleton
<1>3. BatchSize \in Nat /\ BatchSize >= 1 /\ QueueMax \in Nat
  BY LedgerAssumption
<1> QED
  BY <1>1, <1>2, <1>3

LEMMA InsertTyped ==
    ASSUME LedgerTypeOK, NEW S, Insert(S) \/ WriteFails(S)
    PROVE  rows' \in [Records -> Nat]
BY DEF LedgerTypeOK, WriteFails, Insert

LEMMA TypeInit == Init => LedgerTypeOK
<1> SUFFICES ASSUME Init PROVE LedgerTypeOK
  OBVIOUS
<1>1. /\ Cardinality(queue) <= QueueMax
      /\ Cardinality(batch) <= BatchSize
      /\ Cardinality(hand) <= BatchSize
  BY Sizes DEF Init
<1>2. rec \in [Records -> {"new", "streaming", "flushing", "over"}]
  BY DEF Init
<1>3. rows \in [Records -> Nat]
  BY DEF Init
<1> QED
  BY <1>1, <1>2, <1>3 DEF Init, LedgerTypeOK, Phases

LEMMA TypeStep == LedgerTypeOK /\ [Next]_vars => LedgerTypeOK'
<1> SUFFICES ASSUME LedgerTypeOK, [Next]_vars PROVE LedgerTypeOK'
  OBVIOUS
<1> USE LedgerAssumption
<1>1. ASSUME NEW r \in Records, Producer(r) PROVE LedgerTypeOK'
  <2>1. CASE StreamStarts(r) \/ Flush(r)
    BY <2>1 DEF StreamStarts, Flush, LedgerTypeOK, workers, shutdown
  <2>2. CASE Enqueue(r)
    <3>1. Cardinality(queue) < QueueMax => Cardinality(queue \cup {r}) <= QueueMax
      BY AddOne DEF LedgerTypeOK
    <3> QED
      BY <2>2, <3>1 DEF Enqueue, LedgerTypeOK, workers, shutdown
  <2>3. CASE FlushFails(r)
    BY <2>3, InsertTyped DEF FlushFails, LedgerTypeOK, producers, workers, shutdown
  <2>4. CASE FlushEnds(r)
    <3>1. rows' \in [Records -> Nat]
      BY <2>4, InsertTyped DEF FlushEnds, LedgerTypeOK
    <3> QED
      BY <2>4, <3>1 DEF FlushEnds, LedgerTypeOK, workers, shutdown
  <2> QED
    BY <1>1, <2>1, <2>2, <2>3, <2>4 DEF Producer
<1>2. CASE Get
  <2>1. PICK r \in queue : batch' = {r} /\ queue' = queue \ {r}
    BY <1>2 DEF Get
  <2>2. Cardinality(queue') <= QueueMax
    BY <2>1, RemoveSome DEF LedgerTypeOK
  <2>3. Cardinality(batch') <= BatchSize
    BY <2>1, Sizes DEF LedgerTypeOK
  <2> QED
    BY <1>2, <2>1, <2>2, <2>3 DEF Get, LedgerTypeOK, shutdown
<1>3. CASE Fill
  <2>1. PICK r \in queue : batch' = batch \cup {r} /\ queue' = queue \ {r}
    BY <1>3 DEF Fill
  <2>2. Cardinality(queue') <= QueueMax
    BY <2>1, RemoveSome DEF LedgerTypeOK
  <2>3. Cardinality(batch') <= BatchSize
    BY <1>3, <2>1, AddOne DEF Fill, LedgerTypeOK
  <2> QED
    BY <1>3, <2>1, <2>2, <2>3 DEF Fill, LedgerTypeOK, shutdown
<1>4. CASE Filled \/ Cancel \/ RunEnds
  BY <1>4 DEF Filled, Cancel, RunEnds, LedgerTypeOK, producers, shutdown
<1>5. CASE BatchFails \/ BatchWritten
  <2>1. rows' \in [Records -> Nat]
    BY <1>5, InsertTyped DEF BatchFails, BatchWritten
  <2>2. CASE BatchFails
    BY <2>1, <2>2 DEF BatchFails, LedgerTypeOK, producers, workers, shutdown
  <2>3. CASE BatchWritten
    BY <2>1, <2>3, Sizes DEF BatchWritten, LedgerTypeOK, producers, shutdown
  <2> QED
    BY <1>5, <2>2, <2>3
<1>6. CASE DrainTake
  <2>1. PICK S \in SUBSET queue :
           /\ Cardinality(S) = BatchSize \/ (S = queue /\ Cardinality(S) < BatchSize)
           /\ hand' = S
           /\ queue' = queue \ S
    BY <1>6 DEF DrainTake
  <2>2. Cardinality(queue') <= QueueMax
    BY <2>1, RemoveSome DEF LedgerTypeOK
  <2>3. Cardinality(hand') <= BatchSize
    BY <2>1, SubsetBound DEF LedgerTypeOK
  <2> QED
    BY <1>6, <2>1, <2>2, <2>3 DEF DrainTake, LedgerTypeOK, shutdown
<1>7. CASE DrainEmpty \/ Deadline
  BY <1>7 DEF DrainEmpty, Deadline, LedgerTypeOK, producers, shutdown
<1>8. CASE DrainWritten \/ DrainFails \/ DrainGivesUp
  <2>1. rows' \in [Records -> Nat]
    BY <1>8, InsertTyped DEF DrainWritten, DrainFails, DrainGivesUp
  <2> QED
    BY <1>8, <2>1, Sizes
       DEF DrainWritten, DrainFails, DrainGivesUp, DrainGoesOn, LedgerTypeOK, producers,
           workers, shutdown
<1>9. CASE Lifespan \/ Postgres
  <2>1. CASE Sigterm \/ StreamsDrained
    BY <2>1
       DEF Sigterm, StreamsDrained, LedgerTypeOK, Phases, producers, workers, shutdown
  <2>2. CASE TasksDrained \/ Close
    BY <2>2 DEF TasksDrained, Close, LedgerTypeOK, Phases, producers, workers, shutdown
  <2>3. CASE Postgres
    BY <2>3 DEF Postgres, LedgerTypeOK, producers, workers, shutdown
  <2> QED BY <1>9, <2>1, <2>2, <2>3 DEF Lifespan
<1>10. CASE UNCHANGED vars
  BY <1>10 DEF LedgerTypeOK, vars, producers, workers, shutdown
<1> QED
  BY <1>1, <1>2, <1>3, <1>4, <1>5, <1>6, <1>7, <1>8, <1>9, <1>10 DEF Next, Run, Drain

(* The queue never holds more than queue_max records nor a batch more than  *)
(* batch_size, and the ledger's state is typed.                             *)
THEOREM LedgerTypeCorrect == Spec => []LedgerTypeOK
<1> QED
  BY TypeInit, TypeStep, PTL DEF Spec

(***************************************************************************)
(* One row for each record                                                 *)
(***************************************************************************)
(* A retry after a lost answer, in the task, in the drain or in a stream,   *)
(* writes no second row.                                                    *)
THEOREM OneRow == Spec => []WrittenOnce
<1>1. Init => WrittenOnce
  BY DEF Init, WrittenOnce
<1>2. LedgerTypeOK /\ WrittenOnce /\ [Next]_vars => WrittenOnce'
  <2> SUFFICES ASSUME LedgerTypeOK, WrittenOnce, [Next]_vars PROVE WrittenOnce'
    OBVIOUS
  <2>1. \/ UNCHANGED rows
        \/ \E S : Insert(S)
    BY DEF Next, vars, Producer, StreamStarts, Enqueue, Flush, FlushFails, FlushEnds, Run,
           Get, Fill, Filled, BatchFails, BatchWritten, Cancel, RunEnds, Drain, DrainTake,
           DrainEmpty, DrainWritten, DrainFails, DrainGivesUp, Deadline, Lifespan, Sigterm,
           StreamsDrained, TasksDrained, Close, Postgres, WriteFails
  <2> QED
    BY <2>1 DEF Insert, WrittenOnce, LedgerTypeOK
<1> QED
  BY <1>1, <1>2, LedgerTypeCorrect, PTL DEF Spec

(***************************************************************************)
(* Nothing is lost in silence                                              *)
(***************************************************************************)
(* What the two hands hold, and which of the tasks runs in which phase.     *)
Hands ==
    /\ run \in {"getting", "draining", "off"} => batch = {}
    /\ drain # "writing" => hand = {}
    /\ drain # "off" => run \in {"draining", "off"} /\ phase \notin {"serving", "streams"}
    /\ run = "draining" => phase = "tasks"
    /\ run = "off" /\ phase = "tasks" => drain = "off"
    /\ run = "cut" => phase = "tasks"
    /\ phase \in {"drain", "over"} => run = "off"
    /\ phase = "over" => drain = "done"

(* A drain that takes no further batch has left nothing of before the       *)
(* cancellation on the queue: what came since is not in intime.             *)
Emptied ==
    /\ drain = "done" => intime \cap queue = {}
    /\ drain = "writing" => Cardinality(hand) = BatchSize \/ intime \cap queue = {}
    /\ \A r \in intime : rec[r] = "over"

LossInv == LedgerTypeOK /\ Accounted /\ Hands /\ Emptied

LEMMA LossInit == Init => LossInv
BY TypeInit DEF Init, LossInv, Accounted, Hands, Emptied

(* A write that succeeds writes what was asked; one that fails takes nothing away. *)
LEMMA InsertWrites ==
    ASSUME LedgerTypeOK, NEW S \in SUBSET Records, Insert(S)
    PROVE  Written' = Written \cup S
BY DEF Insert, Written, LedgerTypeOK

LEMMA FailsKeeps ==
    ASSUME LedgerTypeOK, NEW S \in SUBSET Records, WriteFails(S)
    PROVE  Written \subseteq Written'
<1>1. CASE Insert(S)
  BY <1>1, InsertWrites
<1>2. CASE UNCHANGED rows
  BY <1>2 DEF Written
<1> QED
  BY <1>1, <1>2 DEF WriteFails

LEMMA LossStep == LossInv /\ [Next]_vars => LossInv'
<1> SUFFICES ASSUME LossInv, [Next]_vars PROVE Accounted' /\ Hands' /\ Emptied'
  BY TypeStep DEF LossInv
<1> USE DEF LossInv
<1>1. ASSUME NEW r \in Records, Producer(r) PROVE Accounted' /\ Hands' /\ Emptied'
  <2>1. CASE StreamStarts(r) \/ Flush(r)
    <3>1. Accounted' /\ Hands'
      BY <2>1 DEF StreamStarts, Flush, workers, shutdown, Accounted, Written, Hands
    <3>2. Emptied'
      BY <2>1 DEF StreamStarts, Flush, workers, Emptied, LedgerTypeOK
    <3> QED
      BY <3>1, <3>2
  <2>2. CASE Enqueue(r)
    <3>1. Accounted'
      <4>1. UNCHANGED <<batch, hand, rows>> /\ queue \subseteq queue' /\ dropped \subseteq dropped'
        BY <2>2 DEF Enqueue, workers
      <4>2. intime' \subseteq intime \cup {r}
        BY <2>2 DEF Enqueue
      <4>3. r \in intime' => r \in queue' \cup dropped' \cup intime
        <5>1. Cardinality(queue) \in Nat /\ QueueMax \in Nat
          BY SubsetBound, LedgerAssumption DEF LedgerTypeOK
        <5> QED
          BY <2>2, <5>1 DEF Enqueue
      <4> QED
        BY <4>1, <4>2, <4>3 DEF Accounted, Written
    <3>2. Hands'
      BY <2>2 DEF Enqueue, workers, shutdown, Hands
    <3>3. r \notin intime
      BY <2>2 DEF Enqueue, Emptied
    <3>4. \A q \in intime' : rec'[q] = "over"
      BY <2>2, <3>3 DEF Enqueue, Emptied, LedgerTypeOK
    <3>5. CASE phase \in {"serving", "streams"}
      <4>1. drain' = "off"
        BY <2>2, <3>5 DEF Enqueue, workers, Hands
      <4> QED
        BY <3>1, <3>2, <3>4, <4>1 DEF Emptied
    <3>6. CASE phase \notin {"serving", "streams"}
      <4>1. intime' = intime /\ queue' \subseteq queue \cup {r}
        BY <2>2, <3>6 DEF Enqueue
      <4>2. intime \cap queue = {} => intime' \cap queue' = {}
        BY <3>3, <4>1
      <4> QED
        BY <2>2, <3>1, <3>2, <3>4, <4>2 DEF Enqueue, workers, Emptied
    <3> QED
      BY <3>1, <3>2, <3>5, <3>6
  <2>3. CASE FlushFails(r)
    <3>1. Written \subseteq Written'
      BY <2>3, FailsKeeps DEF FlushFails
    <3> QED
      BY <2>3, <3>1 DEF FlushFails, producers, workers, shutdown, Accounted, Hands, Emptied
  <2>4. CASE FlushEnds(r)
    <3>1. Written \subseteq Written'
      BY <2>4, InsertWrites DEF FlushEnds, Written
    <3>2. Accounted' /\ Hands'
      BY <2>4, <3>1 DEF FlushEnds, workers, shutdown, Accounted, Hands
    <3>3. Emptied'
      BY <2>4 DEF FlushEnds, workers, Emptied, LedgerTypeOK
    <3> QED
      BY <3>2, <3>3
  <2> QED
    BY <1>1, <2>1, <2>2, <2>3, <2>4 DEF Producer
<1>2. CASE Get \/ Fill \/ Filled
  BY <1>2 DEF Get, Fill, Filled, producers, shutdown, Accounted, Written, Hands, Emptied
<1>3. CASE BatchFails
  <2>1. Written \subseteq Written'
    BY <1>3, FailsKeeps DEF BatchFails, LedgerTypeOK
  <2> QED
    BY <1>3, <2>1 DEF BatchFails, producers, workers, shutdown, Accounted, Hands, Emptied
<1>4. CASE BatchWritten
  <2>1. Written' = Written \cup batch
    BY <1>4, InsertWrites DEF BatchWritten, LedgerTypeOK
  <2> QED
    BY <1>4, <2>1 DEF BatchWritten, producers, shutdown, Accounted, Hands, Emptied
<1>5. CASE Cancel \/ RunEnds
  BY <1>5 DEF Cancel, RunEnds, producers, shutdown, Accounted, Written, Hands, Emptied
<1>6. CASE DrainTake
  <2>1. Accounted' /\ Hands'
    BY <1>6 DEF DrainTake, shutdown, Accounted, Written, Hands
  <2>2. Emptied'
    BY <1>6 DEF DrainTake, Emptied
  <2> QED
    BY <2>1, <2>2
<1>7. CASE DrainEmpty \/ Deadline
  BY <1>7 DEF DrainEmpty, Deadline, producers, shutdown, Accounted, Written, Hands, Emptied
<1>8. CASE DrainWritten
  <2>1. Written' = Written \cup hand
    BY <1>8, InsertWrites DEF DrainWritten, LedgerTypeOK
  <2> QED
    BY <1>8, <2>1
       DEF DrainWritten, DrainGoesOn, producers, shutdown, Accounted, Hands, Emptied
<1>9. CASE DrainFails
  <2>1. Written \subseteq Written'
    BY <1>9, FailsKeeps DEF DrainFails, LedgerTypeOK
  <2> QED
    BY <1>9, <2>1 DEF DrainFails, producers, workers, shutdown, Accounted, Hands, Emptied
<1>10. CASE DrainGivesUp
  <2>1. Written \subseteq Written'
    BY <1>10, FailsKeeps DEF DrainGivesUp, LedgerTypeOK
  <2> QED
    BY <1>10, <2>1 DEF DrainGivesUp, DrainGoesOn, shutdown, Accounted, Hands, Emptied
<1>11. CASE Lifespan \/ Postgres
  <2>1. UNCHANGED <<producers, run, batch, hand, rows>>
    BY <1>11 DEF Lifespan, Sigterm, StreamsDrained, TasksDrained, Close, Postgres, workers
  <2>2. Accounted'
    BY <2>1 DEF Accounted, Written, producers
  <2>3. Hands'
    BY <1>11, <2>1
       DEF Lifespan, Sigterm, StreamsDrained, TasksDrained, Close, Postgres, workers,
           shutdown, Hands
  <2>4. Emptied'
    BY <1>11, <2>1
       DEF Lifespan, Sigterm, StreamsDrained, TasksDrained, Close, Postgres, producers,
           workers, Emptied
  <2> QED
    BY <2>2, <2>3, <2>4
<1>12. CASE UNCHANGED vars
  BY <1>12 DEF vars, producers, workers, shutdown, Accounted, Written, Hands, Emptied
<1> QED
  BY <1>1, <1>2, <1>3, <1>4, <1>5, <1>6, <1>7, <1>8, <1>9, <1>10, <1>11, <1>12
     DEF Next, Run, Drain

(* Every record put on the queue is somewhere: written, counted as dropped, *)
(* queued, or in the hand of the task or of the drain.                      *)
THEOREM RecordsAccounted == Spec => []Accounted
<1>1. LossInv => Accounted
  BY DEF LossInv
<1> QED
  BY <1>1, LossInit, LossStep, PTL DEF Spec

(* When the lifespan is over, a record that was queued before the tasks     *)
(* were cancelled is in the table or counted as dropped.                    *)
THEOREM ShutdownLosesNothing == Spec => []NoSilentLoss
<1>1. LossInv => NoSilentLoss
  <2> SUFFICES ASSUME LossInv, phase = "over" PROVE intime \subseteq Written \cup dropped
    BY DEF NoSilentLoss
  <2>1. batch = {} /\ hand = {} /\ intime \cap queue = {}
    BY DEF LossInv, Hands, Emptied
  <2> QED
    BY <2>1 DEF LossInv, Accounted
<1> QED
  BY <1>1, LossInit, LossStep, PTL DEF Spec

(***************************************************************************)
(* The outbox                                                              *)
(***************************************************************************)
Pending == queue \cup batch \cup hand

(* A record waits in one place, after its producer is done with it. *)
Placed ==
    /\ queue \cap batch = {} /\ queue \cap hand = {}
    /\ Pending \cap Flushed = {}
    /\ \A r \in Records : rec[r] = "flushing" => r \in Flushed
    /\ \A r \in Records \ Flushed :
          rec[r] # "over" => r \notin Pending \cup Written \cup dropped

BoxInv == LossInv /\ Placed

LEMMA BoxInit == Init => BoxInv /\ Box!OutboxInit
<1> SUFFICES ASSUME Init PROVE BoxInv /\ Box!OutboxInit
  OBVIOUS
<1>1. Pending = {} /\ Written = {} /\ dropped = {}
  BY DEF Init, Pending, Written
<1>2. Placed
  BY <1>1 DEF Init, Placed
<1>3. Box!OutboxInit
  BY <1>1 DEF Box!OutboxInit, Pending
<1>4. QED
  BY <1>2, <1>3, LossInit DEF BoxInv

LEMMA WrittenBy ==
    ASSUME LedgerTypeOK, NEW S \in SUBSET Records, WriteFails(S)
    PROVE  Written' = Written \cup S \/ Written' = Written
<1>1. CASE Insert(S)
  BY <1>1, InsertWrites
<1>2. CASE UNCHANGED rows
  BY <1>2 DEF Written
<1>3. QED
  BY <1>1, <1>2 DEF WriteFails

(* One of the hands is empty, so that no more than the queue and one batch  *)
(* wait.                                                                    *)
LEMMA PendingBound ==
    ASSUME BoxInv, Cardinality(queue) < QueueMax
    PROVE  Cardinality(Pending) < QueueMax + BatchSize
<1>1. IsFiniteSet(queue) /\ IsFiniteSet(batch) /\ IsFiniteSet(hand)
  BY FS_Subset, LedgerAssumption DEF BoxInv, LossInv, LedgerTypeOK
<1>2. batch = {} \/ hand = {}
  BY DEF BoxInv, LossInv, Hands
<1>3. PICK H : Pending = queue \cup H /\ IsFiniteSet(H) /\ Cardinality(H) <= BatchSize
  <2>1. CASE batch = {}
    BY <1>1, <2>1 DEF Pending, BoxInv, LossInv, LedgerTypeOK
  <2>2. CASE hand = {}
    BY <1>1, <2>2 DEF Pending, BoxInv, LossInv, LedgerTypeOK
  <2>3. QED
    BY <1>2, <2>1, <2>2
<1>4. /\ Cardinality(queue \cup H) = Cardinality(queue) + Cardinality(H) - Cardinality(queue \cap H)
      /\ IsFiniteSet(queue \cap H)
  BY <1>1, <1>3, FS_Union, FS_Intersection
<1>5. Cardinality(queue) \in Nat /\ Cardinality(H) \in Nat /\ Cardinality(queue \cap H) \in Nat
  BY <1>1, <1>3, <1>4, FS_CardinalityType
<1>6. QED
  BY <1>3, <1>4, <1>5, LedgerAssumption

BoxStep == Placed' /\ (Box!OutboxNext \/ UNCHANGED <<Pending, Written, dropped>>)

LEMMA ProducerBox == ASSUME BoxInv, NEW r \in Records, Producer(r) PROVE BoxStep
<1> USE DEF BoxInv, LossInv
<1>0. rec \in [Records -> {"new", "streaming", "flushing", "over"}] /\ Flushed \subseteq Streamed
  BY LedgerAssumption DEF LedgerTypeOK
<1>1. CASE StreamStarts(r) \/ Flush(r)
  <2>1. UNCHANGED <<queue, batch, hand, rows, dropped>>
    BY <1>1 DEF StreamStarts, Flush, workers
  <2>2. \A q \in Records \ Flushed : rec'[q] # "over" => rec[q] # "over"
    BY <1>0, <1>1 DEF StreamStarts, Flush
  <2>3. \A q \in Records : rec'[q] = "flushing" => q \in Flushed
    BY <1>0, <1>1 DEF StreamStarts, Flush, Placed
  <2>4. Pending' = Pending /\ Written' = Written
    BY <2>1 DEF Pending, Written
  <2>5. QED
    BY <2>1, <2>2, <2>3, <2>4 DEF BoxStep, Placed
<1>2. CASE FlushFails(r) \/ FlushEnds(r)
  <2>1. UNCHANGED <<queue, batch, hand, dropped>>
    BY <1>2 DEF FlushFails, FlushEnds, producers, workers
  <2>2. r \in Flushed /\ \A q \in Records \ Flushed : rec'[q] = rec[q]
    <3>1. rec[r] = "flushing" /\ r \in Flushed
      BY <1>2 DEF FlushFails, FlushEnds, Placed
    <3>2. QED
      BY <1>0, <1>2, <3>1 DEF FlushFails, FlushEnds, producers
  <2>3. Written' = Written \cup {r} \/ Written' = Written
    <3>1. CASE FlushFails(r)
      BY <3>1, WrittenBy DEF FlushFails
    <3>2. CASE FlushEnds(r)
      BY <3>2, InsertWrites DEF FlushEnds, Written
    <3>3. QED
      BY <1>2, <3>1, <3>2
  <2>4. Pending' = Pending
    BY <2>1 DEF Pending
  <2>5. Placed'
    BY <2>1, <2>2, <2>3, <2>4 DEF Placed
  <2>6. Box!OutboxNext \/ UNCHANGED <<Pending, Written, dropped>>
    BY <2>1, <2>2, <2>3, <2>4 DEF Box!OutboxNext, Box!Store, Pending
  <2>7. QED
    BY <2>5, <2>6 DEF BoxStep
<1>3. CASE Enqueue(r)
  <2>1. r \in Records \ Flushed /\ r \notin Pending \cup Written \cup dropped
    BY <1>3 DEF Enqueue, Placed
  <2>2. UNCHANGED <<batch, hand, rows>> /\ rec' = [rec EXCEPT ![r] = "over"] /\ Written' = Written
    BY <1>3 DEF Enqueue, workers, Written
  <2>3. CASE ~closed /\ Cardinality(queue) < QueueMax
    <3>1. Pending' = Pending \cup {r} /\ dropped' = dropped /\ queue' = queue \cup {r}
      BY <1>3, <2>2, <2>3, LedgerAssumption, SubsetBound DEF Enqueue, Pending, LedgerTypeOK
    <3>2. Cardinality(Pending) < QueueMax + BatchSize
      BY <2>3, PendingBound
    <3>3. Placed'
      BY <1>0, <2>1, <2>2, <3>1 DEF Placed, Pending
    <3>4. Box!Accept(r)
      <4>0. Box!Cardinality(Pending) = Cardinality(Pending)
        BY Zenon DEF Box!Cardinality, Cardinality, IsFiniteSet, Box!IsFiniteSet
      <4>1. Box!Cardinality(queue \cup batch \cup hand) < QueueMax + BatchSize
        BY <3>2, <4>0 DEF Pending
      <4>2. (queue \cup batch \cup hand)' = (queue \cup batch \cup hand) \cup {r}
        BY <3>1 DEF Pending
      <4>3. r \notin (queue \cup batch \cup hand) \cup Written \cup dropped
        BY <2>1 DEF Pending
      <4>4. QED
        BY <2>2, <3>1, <4>1, <4>2, <4>3 DEF Box!Accept
    <3>5. Box!OutboxNext
      BY <2>1, <3>4 DEF Box!OutboxNext
    <3>6. QED
      BY <3>3, <3>5 DEF BoxStep
  <2>4. CASE ~(~closed /\ Cardinality(queue) < QueueMax)
    <3>1. Pending' = Pending /\ dropped' \in {dropped, dropped \cup {r}} /\ queue' = queue
      BY <1>3, <2>2, <2>4 DEF Enqueue, Pending
    <3>2. Placed'
      BY <1>0, <2>1, <2>2, <3>1 DEF Placed
    <3>3. Box!OutboxNext \/ UNCHANGED <<Pending, Written, dropped>>
      BY <2>1, <2>2, <3>1 DEF Box!OutboxNext, Box!Refuse, Pending
    <3>4. QED
      BY <3>2, <3>3 DEF BoxStep
  <2>5. QED
    BY <2>3, <2>4
<1>4. QED
  BY <1>1, <1>2, <1>3 DEF Producer

(* A record moves from the queue to a hand. *)
LEMMA MovesBox ==
    ASSUME BoxInv, Get \/ Fill \/ DrainTake
    PROVE  BoxStep
<1> USE DEF BoxInv, LossInv
<1>1. UNCHANGED <<rec, rows, dropped>>
  BY DEF Get, Fill, DrainTake
<1>2. Pending' = Pending /\ queue' \cap batch' = {} /\ queue' \cap hand' = {}
  <2>1. CASE Get
    BY <2>1 DEF Get, Pending, Placed, Hands
  <2>2. CASE Fill
    BY <2>2 DEF Fill, Pending, Placed
  <2>3. CASE DrainTake
    BY <2>3 DEF DrainTake, Pending, Placed, Hands
  <2>4. QED
    BY <2>1, <2>2, <2>3
<1>3. QED
  BY <1>1, <1>2 DEF BoxStep, Placed, Written

(* A write reaches the table or not, and its batch goes on waiting or not.  *)
LEMMA WritesBox ==
    ASSUME BoxInv, NEW S \in SUBSET Pending, UNCHANGED rec,
           Written' \in {Written, Written \cup S},
           Pending' \in {Pending, Pending \ S},
           dropped' \in {dropped, dropped \cup S},
           Pending' = Pending => dropped' = dropped,
           Pending' # Pending =>
              dropped' = dropped \cup S \/ (dropped' = dropped /\ Written' = Written \cup S),
           queue' = queue, batch' \subseteq batch, hand' \subseteq hand
    PROVE  BoxStep
<1>1. Placed'
  <2>1. Pending \subseteq Records
    BY DEF BoxInv, LossInv, LedgerTypeOK, Pending
  <2>2. Pending' \subseteq Pending
    OBVIOUS
  <2>3. \A r \in Records \ Flushed : rec[r] # "over" => r \notin S
    BY DEF BoxInv, Placed
  <2>4. QED
    BY <2>1, <2>2, <2>3 DEF BoxInv, Placed
<1>2. Box!OutboxNext \/ UNCHANGED <<Pending, Written, dropped>>
  <2>1. CASE Pending' = Pending
    BY <2>1 DEF Box!OutboxNext, Box!Store, Pending
  <2>2. CASE Pending' = Pending \ S /\ dropped' = dropped \cup S
    BY <2>2 DEF Box!OutboxNext, Box!GiveUp, Pending
  <2>3. CASE Pending' = Pending \ S /\ Written' = Written \cup S /\ dropped' = dropped
    BY <2>3 DEF Box!OutboxNext, Box!Deliver, Pending
  <2>4. QED
    BY <2>1, <2>2, <2>3
<1>3. QED
  BY <1>1, <1>2 DEF BoxStep

LEMMA BatchBox ==
    ASSUME BoxInv, BatchFails \/ BatchWritten
    PROVE  BoxStep
<1>0. LedgerTypeOK /\ batch \in SUBSET Records /\ batch \in SUBSET Pending
  BY DEF BoxInv, LossInv, LedgerTypeOK, Pending
<1>1. UNCHANGED <<rec, queue, hand, dropped>>
  BY DEF BatchFails, BatchWritten, producers, workers
<1>2. CASE BatchFails
  <2>1. batch' = batch /\ Pending' = Pending
    BY <1>1, <1>2 DEF BatchFails, workers, Pending
  <2>2. Written' \in {Written, Written \cup batch}
    BY <1>0, <1>2, WrittenBy DEF BatchFails
  <2>3. QED
    BY <1>0, <1>1, <2>1, <2>2, WritesBox
<1>3. CASE BatchWritten
  <2>1. hand = {} /\ batch' = {} /\ Pending' = Pending \ batch
    BY <1>1, <1>3 DEF BatchWritten, Pending, BoxInv, LossInv, Hands, Placed
  <2>2. Written' = Written \cup batch
    BY <1>0, <1>3, InsertWrites DEF BatchWritten
  <2>3. QED
    BY <1>0, <1>1, <2>1, <2>2, WritesBox
<1>4. QED
  BY <1>2, <1>3

LEMMA DrainBox ==
    ASSUME BoxInv, DrainWritten \/ DrainFails \/ DrainGivesUp
    PROVE  BoxStep
<1>0. LedgerTypeOK /\ hand \in SUBSET Records /\ hand \in SUBSET Pending
  BY DEF BoxInv, LossInv, LedgerTypeOK, Pending
<1>1. UNCHANGED <<rec, queue, batch>>
  BY DEF DrainWritten, DrainFails, DrainGivesUp, producers, workers
<1>2. CASE DrainFails
  <2>1. hand' = hand /\ Pending' = Pending /\ dropped' = dropped
    BY <1>1, <1>2 DEF DrainFails, workers, producers, Pending
  <2>2. Written' \in {Written, Written \cup hand}
    BY <1>0, <1>2, WrittenBy DEF DrainFails
  <2>3. QED
    BY <1>0, <1>1, <2>1, <2>2, WritesBox
<1>3. CASE DrainWritten \/ DrainGivesUp
  <2>1. batch = {} /\ hand' = {} /\ Pending' = Pending \ hand
    BY <1>1, <1>3 DEF DrainWritten, DrainGivesUp, DrainGoesOn, Pending, BoxInv, LossInv, Hands, Placed
  <2>2. CASE DrainWritten
    <3>1. Written' = Written \cup hand /\ dropped' = dropped
      BY <1>0, <2>2, InsertWrites DEF DrainWritten, producers
    <3>2. QED
      BY <1>0, <1>1, <2>1, <3>1, WritesBox
  <2>3. CASE DrainGivesUp
    <3>1. Written' \in {Written, Written \cup hand} /\ dropped' = dropped \cup hand
      BY <1>0, <2>3, WrittenBy DEF DrainGivesUp
    <3>2. Pending' = Pending => dropped' = dropped
      BY <1>0, <2>1, <3>1
    <3>3. batch' = batch /\ hand' \subseteq hand
      BY <1>1, <2>1
    <3>4. Pending' \in {Pending, Pending \ hand} /\ dropped' \in {dropped, dropped \cup hand}
      BY <2>1, <3>1
    <3>5. QED
      BY <1>0, <1>1, <3>1, <3>2, <3>3, <3>4, WritesBox
  <2>4. QED
    BY <1>3, <2>2, <2>3
<1>4. QED
  BY <1>2, <1>3

LEMMA StepBox == BoxInv /\ [Next]_vars => BoxInv' /\ [Box!OutboxNext]_<<Pending, Written, dropped>>
<1> SUFFICES ASSUME BoxInv, [Next]_vars PROVE BoxInv' /\ BoxStep
  BY DEF BoxStep
<1>0. LossInv'
  BY LossStep DEF BoxInv
<1>1. BoxStep
  <2>1. CASE \E r \in Records : Producer(r)
    BY <2>1, ProducerBox
  <2>2. CASE Get \/ Fill \/ DrainTake
    BY <2>2, MovesBox
  <2>3. CASE BatchFails \/ BatchWritten \/ DrainWritten \/ DrainFails \/ DrainGivesUp
    BY <2>3, BatchBox, DrainBox
  <2>4. CASE \/ Filled \/ Cancel \/ RunEnds \/ DrainEmpty \/ Deadline
             \/ Lifespan \/ Postgres \/ UNCHANGED vars
    <3>1. UNCHANGED <<rec, queue, batch, hand, rows, dropped>>
      BY <2>4 DEF Filled, Cancel, RunEnds, DrainEmpty, Deadline, Lifespan, Sigterm, StreamsDrained,
                  TasksDrained, Close, Postgres, vars, producers, workers
    <3>2. QED
      BY <3>1 DEF BoxInv, BoxStep, Placed, Pending, Written
  <2>5. QED
    BY <2>1, <2>2, <2>3, <2>4 DEF Next, Run, Drain
<1>2. QED
  BY <1>0, <1>1 DEF BoxInv, BoxStep

(* A ledger of any batch size and queue bound is an outbox: what it accepts *)
(* waits, in one place, until it is in the table or counted as dropped, it  *)
(* is never accepted again, and no more than the queue and one batch wait,  *)
(* through lost answers, the cancellation of the task and the drain of the  *)
(* shutdown (settlement/batcher.py, app.py).                                *)
THEOREM LedgerIsOutbox == Spec => Box!OutboxSpec
<1>1. BoxInv /\ [Next]_vars => BoxInv'
  BY StepBox
<1>2. BoxInv /\ [Next]_vars => [Box!OutboxNext]_(Box!outboxVars)
  BY StepBox DEF Box!outboxVars, Pending
<1>3. QED
  BY BoxInit, <1>1, <1>2, PTL DEF Spec, Box!OutboxSpec
=============================================================================
