------------------------------- MODULE MCLedger -------------------------------
(* A few records of each kind, and batches that do not divide them. *)
EXTENDS Ledger
=============================================================================
