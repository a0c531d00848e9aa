------------------------------- MODULE Permits -------------------------------
(***************************************************************************)
(* What the concurrency quota promises a tenant, apart from how Redis and  *)
(* the gateway keep it: a pool of Cap permits.  A request takes one permit *)
(* when one is free, every permit taken is given back in the end, and the  *)
(* counter is exactly the number of permits taken.                         *)
(***************************************************************************)
EXTENDS Integers, FiniteSets

CONSTANTS Requests, Cap

VARIABLES held,   \* the requests that hold a permit
          used    \* the counter admission looks at

permitVars == <<held, used>>

PermitInit == held = {} /\ used = 0

Acquire(r) ==
    /\ r \notin held
    /\ used < Cap
    /\ held' = held \cup {r}
    /\ used' = used + 1

(* One permit by settlement, several at once by a sweep. *)
Release(S) ==
    /\ held' = held \ S
    /\ used' = used - Cardinality(S)

PermitNext ==
    \/ \E r \in Requests : Acquire(r)
    \/ \E S \in SUBSET held : S # {} /\ Release(S)

(* No permit is held for ever. *)
Returned(r) == \E S \in SUBSET held : r \in S /\ Release(S)

PermitSpec ==
    /\ PermitInit
    /\ [][PermitNext]_permitVars
    /\ \A r \in Requests : WF_permitVars(Returned(r))
=============================================================================
