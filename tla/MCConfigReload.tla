---------------------------- MODULE MCConfigReload ----------------------------
(* One gateway that serves a reload and a change of a tenant, and one that   *)
(* only listens and polls.                                                   *)
EXTENDS ConfigReload

CONSTANTS g1, g2, o1, o2

MCKind == [o \in {o1, o2} |-> IF o = o1 THEN "reload" ELSE "upsert"]
MCGateway == [o \in {o1, o2} |-> g1]
=============================================================================
