-------------------------------- MODULE Outbox --------------------------------
(***************************************************************************)
(* What the ledger promises, apart from how the gateway keeps it: a record *)
(* that is accepted stays pending until it is in the table or counted as   *)
(* dropped, it never comes twice, and no more than Limit records wait.     *)
(* The answer to a write may be lost, so that a record can be in the table *)
(* and pending still.                                                      *)
(***************************************************************************)
EXTENDS Integers, FiniteSets

CONSTANTS Records,
          Direct,    \* the records that are written without waiting
          Limit

VARIABLES pending, table, refused

outboxVars == <<pending, table, refused>>

OutboxInit == pending = {} /\ table = {} /\ refused = {}

Accept(r) ==
    /\ r \notin pending \cup table \cup refused
    /\ Cardinality(pending) < Limit
    /\ pending' = pending \cup {r}
    /\ UNCHANGED <<table, refused>>

Refuse(r) ==
    /\ r \notin pending \cup table \cup refused
    /\ refused' = refused \cup {r}
    /\ UNCHANGED <<pending, table>>

(* A write whose answer is lost. *)
Store(S) ==
    /\ table' = table \cup S
    /\ UNCHANGED <<pending, refused>>

Deliver(S) ==
    /\ table' = table \cup S
    /\ pending' = pending \ S
    /\ UNCHANGED refused

(* The last write of what is given up may have reached the table too. *)
GiveUp(S) ==
    /\ refused' = refused \cup S
    /\ pending' = pending \ S
    /\ table' \in {table, table \cup S}

OutboxNext ==
    \/ \E r \in Records \ Direct : Accept(r) \/ Refuse(r)
    \/ \E r \in Direct : Store({r})
    \/ \E S \in SUBSET pending : Store(S) \/ Deliver(S) \/ GiveUp(S)

OutboxSpec == OutboxInit /\ [][OutboxNext]_outboxVars
=============================================================================
