-------------------------------- MODULE Breaker --------------------------------
(***************************************************************************)
(* What a circuit breaker promises, apart from the results it looks at and *)
(* the requests that come and go: it lets calls through while it is        *)
(* closed, none while it is open, and at most Probes at a time while it is *)
(* half open.  It opens on enough results since it closed, or on a failure *)
(* while half open, stays open for the time it has set itself and no       *)
(* longer, and closes on Probes successes without a failure between.       *)
(***************************************************************************)
EXTENDS Integers

CONSTANTS Probes,
          MinSamples,
          MaxLeft      \* the longest it stays open

VARIABLES st,        \* "closed", "open" or "half_open"
          left,      \* time left until it may be half open
          probes,    \* probes let through that have not succeeded
          won,       \* probes that have
          seen,      \* results since it closed, up to MinSamples
          serving    \* calls let through that have not come back

guardVars == <<st, left, probes, won, seen, serving>>

GuardInit ==
    /\ st \in {"closed", "open"} /\ left \in 0 .. MaxLeft
    /\ probes = 0 /\ won = 0 /\ seen = 0 /\ serving = 0

Ready == st = "open" /\ left = 0

Wakes ==
    /\ Ready
    /\ st' = "half_open" /\ probes' = 0 /\ won' = 0
    /\ UNCHANGED <<left, seen, serving>>

Admits ==
    /\ \/ st = "closed" /\ UNCHANGED <<st, probes, won>>
       \/ st = "half_open" /\ probes < Probes /\ probes' = probes + 1 /\ UNCHANGED <<st, won>>
       \/ Ready /\ st' = "half_open" /\ probes' = 1 /\ won' = 0
    /\ serving' = serving + 1
    /\ UNCHANGED <<left, seen>>

Opens == st' = "open" /\ left' \in 0 .. MaxLeft /\ probes' = 0 /\ won' = 0

Trips == st = "closed" /\ Opens /\ seen' = MinSamples

Sinks == st = "half_open" /\ Opens /\ UNCHANGED seen

Recovers ==
    /\ st = "half_open" /\ won + 1 = Probes
    /\ st' = "closed" /\ probes' = 0 /\ won' = 0 /\ seen' = 0
    /\ UNCHANGED left

Wins ==
    /\ st = "half_open" /\ won + 1 < Probes
    /\ probes' = IF probes = 0 THEN 0 ELSE probes - 1
    /\ won' = won + 1
    /\ UNCHANGED <<st, left, seen>>

Notes ==
    /\ st # "half_open"
    /\ seen' = IF seen = MinSamples THEN seen ELSE seen + 1
    /\ UNCHANGED <<st, left, probes, won>>

Forgets == UNCHANGED <<st, left, probes, won, seen>>

(* A call comes back, with a result or without. *)
Returns ==
    /\ serving' = IF serving = 0 THEN 0 ELSE serving - 1
    /\ Trips \/ Sinks \/ Recovers \/ Wins \/ Notes \/ Forgets

Ages ==
    /\ left > 0
    /\ left' = left - 1
    /\ UNCHANGED <<st, probes, won, seen, serving>>

GuardNext == Wakes \/ Admits \/ Returns \/ Ages

GuardSpec == GuardInit /\ [][GuardNext]_guardVars
=============================================================================
