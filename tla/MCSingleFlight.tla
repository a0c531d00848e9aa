---------------------------- MODULE MCSingleFlight ----------------------------
(* Requests of all kinds for one key. *)
EXTENDS SingleFlight
=============================================================================
