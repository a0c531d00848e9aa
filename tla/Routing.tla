------------------------------- MODULE Routing -------------------------------
(***************************************************************************)
(* Routing inside one gateway process: the circuit breaker and the         *)
(* counters of each deployment (routing/breaker.py, routing/stats.py), the *)
(* selector that picks by them (routing/selector.py, routing/ladder.py),   *)
(* and the requests that pick, start, fail and retry (api/routes.py).      *)
(*                                                                         *)
(* The code runs on one event loop, so what happens between two awaits is  *)
(* one step.  Picking a deployment and starting on it are two: a quota     *)
(* reservation, a cache lookup or the start of the response stream may lie *)
(* between them, and other requests then run.                              *)
(*                                                                         *)
(* An operator that is called a defect is never part of the specification: *)
(* it is a bug the checks must notice in place of the one that follows it. *)
(*                                                                         *)
(* Abstractions: instants are kept as the time left until them, so the     *)
(* clock needs no bound; the score of two candidates decides nothing, any  *)
(* candidate may win; the EWMAs, which only the score reads, are left out; *)
(* a hedge may start whenever a stream waits for its first data (its       *)
(* budget and delay are left out).                                         *)
(***************************************************************************)
EXTENDS Integers, FiniteSets, Sequences

CONSTANTS
    Calls,           \* slots for concurrent requests; a slot is used again
    Deployments,
    Ladder,          \* RoutingLadder.levels: the deployments of each level, in order
    MaxAttempts,     \* max_attempts_before_first_byte
    WindowSize, MinSamples, FailurePercent,     \* BreakerConfig: window_size,
    OpenCooldown, CooldownMax, HalfOpenProbes,  \*   min_samples, ...
    RetryAfter,      \* retry_after_s of a 429
    Outcomes,        \* what may happen besides the success of a call, see Next
    MaxOpenCount,    \* open_count counts no further: the cooldown is at its maximum
    MaxLeaked        \* bound on the calls that leave inflight without decrementing it

(* A request for a model that is not configured is refused beforehand, and  *)
(* a group without deployments has nothing to pick.                         *)
ASSUME LadderAssumption ==
    /\ Ladder \in Seq(Seq(Deployments)) /\ IsFiniteSet(Calls)
    /\ Ladder # <<>> /\ Ladder[1] # <<>>
    /\ Outcomes \subseteq {"heal", "turned", "fail", "limited", "abort", "cancel", "hedge"}

ASSUME BreakerAssumption ==
    /\ WindowSize \in Nat \ {0} /\ MinSamples \in 1 .. WindowSize
    /\ FailurePercent \in 1 .. 100 /\ HalfOpenProbes \in Nat \ {0}
    /\ OpenCooldown \in Nat \ {0} /\ CooldownMax \in Nat \ {0} /\ RetryAfter \in Nat
    /\ MaxAttempts \in Nat \ {0} /\ MaxOpenCount \in Nat \ {0} /\ MaxLeaked \in Nat
    /\ OpenCooldown * 2 ^ (MaxOpenCount - 1) >= CooldownMax

(* A fact of arithmetic that the provers do not know. *)
ASSUME PowersAssumption == \A n \in 1 .. MaxOpenCount : OpenCooldown * 2 ^ (n - 1) \in Nat

VARIABLES
    state,                \* of each breaker: "closed", "open", "half_open"
    window,               \* the latest results recorded, TRUE for a success
    open_count,
    open_left,            \* time left until open_until_s
    half_open_inflight,
    half_open_successes,
    inflight,             \* DeploymentStats.inflight
    cooldown_left,        \* time left until cooldown_until_s
    call,                 \* of each slot: the request in it
    healed,               \* the deployments that answer for good from now on
    fresh                 \* history: results recorded since the breaker closed

breakerVars == <<state, window, open_count, open_left, half_open_inflight,
                 half_open_successes, fresh>>
statsVars == <<inflight, cooldown_left>>
vars == <<breakerVars, statsVars, call, healed>>

(* A request that has not picked yet, or a free slot for one.  tried is the *)
(* exclude set, at the deployment picked or serving, hedge the one a hedge  *)
(* was sent to (at if none).                                                *)
NewCall == [phase |-> "picking", level |-> 1, attempts |-> 0, tried |-> {},
            at |-> Ladder[1][1], hedge |-> Ladder[1][1]]

Min2(a, b) == IF a <= b THEN a ELSE b
Max2(a, b) == IF a >= b THEN a ELSE b

(***************************************************************************)
(* CircuitBreaker                                                          *)
(***************************************************************************)
Expired(d) == state[d] = "open" /\ open_left[d] = 0

(* refresh, for the breakers of D. *)
Refresh(D) ==
    /\ state' =
          [d \in Deployments |-> IF Expired(d) /\ d \in D THEN "half_open" ELSE state[d]]
    /\ half_open_inflight' =
          [d \in Deployments |-> IF Expired(d) /\ d \in D THEN 0 ELSE half_open_inflight[d]]
    /\ half_open_successes' =
          [d \in Deployments |-> IF Expired(d) /\ d \in D THEN 0 ELSE half_open_successes[d]]
    /\ UNCHANGED <<window, open_count, open_left, fresh>>

(* can_try, which looks at a refreshed breaker. *)
HalfOpen(d) == state[d] = "half_open" \/ Expired(d)

CanTry(d) ==
    \/ state[d] = "closed"
    \/ Expired(d)
    \/ state[d] = "half_open" /\ half_open_inflight[d] < HalfOpenProbes

(* Defect: no limit on the probes. *)
AllowUnlimited(d) ==
    /\ state[d] # "open" \/ Expired(d)
    /\ state' = [state EXCEPT ![d] = IF HalfOpen(d) THEN "half_open" ELSE @]
    /\ half_open_inflight' = [half_open_inflight EXCEPT ![d] =
          IF Expired(d) THEN 1 ELSE IF HalfOpen(d) THEN @ + 1 ELSE @]
    /\ half_open_successes' = [half_open_successes EXCEPT ![d] =
          IF Expired(d) THEN 0 ELSE @]
    /\ UNCHANGED <<window, open_count, open_left, fresh>>

(* allow, when it returns True. *)
Allow(d) ==
    /\ CanTry(d)
    /\ state' = [state EXCEPT ![d] = IF HalfOpen(d) THEN "half_open" ELSE @]
    /\ half_open_inflight' = [half_open_inflight EXCEPT ![d] =
          IF Expired(d) THEN 1 ELSE IF HalfOpen(d) THEN @ + 1 ELSE @]
    /\ half_open_successes' = [half_open_successes EXCEPT ![d] =
          IF Expired(d) THEN 0 ELSE @]
    /\ UNCHANGED <<window, open_count, open_left, fresh>>

Cooldown(n) == Min2(CooldownMax, OpenCooldown * 2 ^ (n - 1))

(* _open *)
Open(d) ==
    LET n == Min2(MaxOpenCount, open_count[d] + 1) IN
    /\ state' = [state EXCEPT ![d] = "open"]
    /\ open_count' = [open_count EXCEPT ![d] = n]
    /\ open_left' = [open_left EXCEPT ![d] = Cooldown(n)]
    /\ half_open_inflight' = [half_open_inflight EXCEPT ![d] = 0]
    /\ half_open_successes' = [half_open_successes EXCEPT ![d] = 0]

(* Defect: the window is not cleared. *)
CloseKeepsWindow(d) ==
    /\ state' = [state EXCEPT ![d] = "closed"]
    /\ open_count' = [open_count EXCEPT ![d] = 0]
    /\ half_open_inflight' = [half_open_inflight EXCEPT ![d] = 0]
    /\ half_open_successes' = [half_open_successes EXCEPT ![d] = 0]
    /\ fresh' = [fresh EXCEPT ![d] = 0]
    /\ UNCHANGED <<window, open_left>>

(* _close *)
Close(d) ==
    /\ state' = [state EXCEPT ![d] = "closed"]
    /\ window' = [window EXCEPT ![d] = <<>>]
    /\ open_count' = [open_count EXCEPT ![d] = 0]
    /\ half_open_inflight' = [half_open_inflight EXCEPT ![d] = 0]
    /\ half_open_successes' = [half_open_successes EXCEPT ![d] = 0]
    /\ fresh' = [fresh EXCEPT ![d] = 0]
    /\ UNCHANGED open_left

(* deque(maxlen=window_size).append *)
Appended(w, success) ==
    LET v == Append(w, success) IN IF Len(v) > WindowSize THEN Tail(v) ELSE v

(* _should_open *)
ShouldOpen(w) ==
    /\ Len(w) >= MinSamples
    /\ Cardinality({i \in 1 .. Len(w) : ~w[i]}) * 100 >= FailurePercent * Len(w)

(* Defect: a probe that succeeds is still counted. *)
RecordProbeKept(d, success) ==
    /\ state[d] = "half_open"
    /\ IF ~success THEN Open(d) /\ UNCHANGED <<window, fresh>>
       ELSE IF half_open_successes[d] + 1 >= HalfOpenProbes THEN Close(d)
       ELSE /\ half_open_successes' = [half_open_successes EXCEPT ![d] = @ + 1]
            /\ UNCHANGED <<state, window, open_count, open_left, half_open_inflight, fresh>>

(* Defect: the successes of the probes are not counted. *)
RecordProbeUncounted(d, success) ==
    /\ state[d] = "half_open"
    /\ IF ~success THEN Open(d) /\ UNCHANGED <<window, fresh>>
       ELSE IF half_open_successes[d] + 1 >= HalfOpenProbes THEN Close(d)
       ELSE /\ half_open_inflight' = [half_open_inflight EXCEPT ![d] = Max2(0, @ - 1)]
            /\ UNCHANGED <<state, window, open_count, open_left, half_open_successes, fresh>>

RecordProbe(d, success) ==
    /\ state[d] = "half_open"
    /\ IF ~success THEN Open(d) /\ UNCHANGED <<window, fresh>>
       ELSE IF half_open_successes[d] + 1 >= HalfOpenProbes THEN Close(d)
       ELSE /\ half_open_inflight' =
                  [half_open_inflight EXCEPT ![d] = Max2(0, @ - 1)]
            /\ half_open_successes' = [half_open_successes EXCEPT ![d] = @ + 1]
            /\ UNCHANGED <<state, window, open_count, open_left, fresh>>

(* Defect: a failure opens an open breaker again. *)
RecordResultAlways(d, success) ==
    LET w == Appended(window[d], success) IN
    /\ state[d] # "half_open"
    /\ window' = [window EXCEPT ![d] = w]
    /\ fresh' = [fresh EXCEPT ![d] = Min2(MinSamples, @ + 1)]
    /\ IF ShouldOpen(w) THEN Open(d)
       ELSE UNCHANGED <<state, open_count, open_left,
                        half_open_inflight, half_open_successes>>

RecordResult(d, success) ==
    LET w == Appended(window[d], success) IN
    /\ state[d] # "half_open"
    /\ window' = [window EXCEPT ![d] = w]
    /\ fresh' = [fresh EXCEPT ![d] = Min2(MinSamples, @ + 1)]
    /\ IF state[d] = "closed" /\ ShouldOpen(w) THEN Open(d)
       ELSE UNCHANGED <<state, open_count, open_left,
                        half_open_inflight, half_open_successes>>

Record(d, success) == RecordProbe(d, success) \/ RecordResult(d, success)

(***************************************************************************)
(* RoutingState: what a call that ended does to its deployment.            *)
(***************************************************************************)
Leave(d) == inflight' = [inflight EXCEPT ![d] = Max2(0, @ - 1)]

RecordFinish(d, success) == Leave(d) /\ Record(d, success) /\ UNCHANGED cooldown_left

RecordAbort(d) == Leave(d) /\ UNCHANGED <<breakerVars, cooldown_left>>

RecordRateLimit(d) ==
    /\ Leave(d)
    /\ cooldown_left' = [cooldown_left EXCEPT ![d] = Max2(@, RetryAfter)]
    /\ UNCHANGED breakerVars

(***************************************************************************)
(* P2CSelector.pick on each level from from on, until one has candidates.  *)
(***************************************************************************)
Members(k) == {Ladder[k][i] : i \in 1 .. Len(Ladder[k])}

(* The deployments whose breaker the selector looks at, and refreshes. *)
Considered(k, exclude) == {d \in Members(k) \ exclude : cooldown_left[d] = 0}

Candidates(k, exclude) == {d \in Considered(k, exclude) : CanTry(d)}

(* The first half-open candidate of the level, any candidate if none is. *)
Preferred(k, exclude) ==
    {d \in Candidates(k, exclude) :
        IF HalfOpen(d)
        THEN \E i \in 1 .. Len(Ladder[k]) :
                /\ Ladder[k][i] = d
                /\ \A j \in 1 .. i - 1 :
                      HalfOpen(Ladder[k][j]) => Ladder[k][j] \notin Candidates(k, exclude)
        ELSE \A e \in Candidates(k, exclude) : ~HalfOpen(e)}

NoneOn(levels, exclude) == \A k \in levels : Candidates(k, exclude) = {}

(* Picks d on level k: the first one from from on that has a candidate. *)
Picks(from, exclude, k, d) ==
    /\ NoneOn(from .. k - 1, exclude)
    /\ d \in Preferred(k, exclude)

LookedAt(levels, exclude) == UNION {Considered(k, exclude) : k \in levels}

(***************************************************************************)
(* The life of a request.                                                  *)
(***************************************************************************)
In(c, p) == call[c].phase = p

(* Picking is the first step of a new request, and of each retry. *)
Pick(c) ==
    LET q == call[c] IN
    /\ In(c, "picking")
    /\ \E k \in q.level .. Len(Ladder), d \in Deployments :
          /\ Picks(q.level, q.tried, k, d)
          /\ call' = [call EXCEPT ![c] =
                         [phase |-> "picked", level |-> k, attempts |-> q.attempts + 1,
                          tried |-> q.tried \cup {d}, at |-> d, hedge |-> d]]
          /\ Refresh(LookedAt(q.level .. k, q.tried))
    /\ UNCHANGED <<statsVars, healed>>

End(c) == call' = [call EXCEPT ![c] = NewCall] /\ UNCHANGED healed

(* NoAvailableDeployment: the request ends. *)
PickNothing(c) ==
    /\ In(c, "picking")
    /\ NoneOn(call[c].level .. Len(Ladder), call[c].tried)
    /\ Refresh(LookedAt(call[c].level .. Len(Ladder), call[c].tried))
    /\ End(c)
    /\ UNCHANGED statsVars

(* The quota refuses, or the cache has the answer. *)
TurnAway(c) == In(c, "picked") /\ End(c) /\ UNCHANGED <<breakerVars, statsVars>>

(* record_start *)
Start(c) ==
    /\ In(c, "picked")
    /\ Allow(call[c].at)
    /\ inflight' = [inflight EXCEPT ![call[c].at] = @ + 1]
    /\ call' = [call EXCEPT ![c].phase = "running"]
    /\ UNCHANGED <<cooldown_left, healed>>

(* The next attempt, if there is one. *)
Retry(c) ==
    IF call[c].attempts = MaxAttempts THEN End(c)
    ELSE call' = [call EXCEPT ![c].phase = "picking"] /\ UNCHANGED healed

(* Defect: inflight is counted before the breaker is asked. *)
StartRefusedCounted(c) ==
    /\ In(c, "picked")
    /\ ~CanTry(call[c].at)
    /\ Retry(c)
    /\ inflight' = [inflight EXCEPT ![call[c].at] = @ + 1]
    /\ UNCHANGED <<breakerVars, cooldown_left>>

(* record_start raises: the probes were taken, or the breaker opened, since. *)
StartRefused(c) ==
    /\ In(c, "picked")
    /\ ~CanTry(call[c].at)
    /\ Retry(c)
    /\ UNCHANGED <<breakerVars, statsVars>>

Succeed(c) == In(c, "running") /\ RecordFinish(call[c].at, TRUE) /\ End(c)

(* A failure, or a first token later than slow_call_ttft_slo_s.  The latter, *)
(* a stall, a total timeout and a failure after the first data end it.       *)
Fail(c) ==
    /\ In(c, "running") /\ call[c].at \notin healed
    /\ RecordFinish(call[c].at, FALSE)
    /\ Retry(c) \/ End(c)

RateLimited(c) ==
    /\ In(c, "running") /\ call[c].at \notin healed
    /\ RecordRateLimit(call[c].at)
    /\ Retry(c)

(* A client error, or the client went away while the stream was written. *)
Abort(c) == In(c, "running") /\ RecordAbort(call[c].at) /\ End(c)

(* The handler is cancelled while it awaits: nothing is recorded. *)
Cancel(c) ==
    /\ In(c, "running")
    /\ inflight[call[c].at] <= MaxLeaked
    /\ End(c)
    /\ UNCHANGED <<breakerVars, statsVars>>

(* A hedge is sent to another deployment, once, without a record_start. *)
Hedge(c) ==
    LET q == call[c] IN
    /\ In(c, "running") /\ q.hedge = q.at /\ q.at \in q.tried
    /\ \E k \in 1 .. Len(Ladder), d \in Deployments :
          /\ Picks(1, q.tried, k, d)
          /\ call' = [call EXCEPT ![c].hedge = d]
          /\ Refresh(LookedAt(1 .. k, q.tried))
    /\ UNCHANGED <<statsVars, healed>>

(* The hedge has the first data: from now on it is the deployment that the *)
(* end of the call is recorded for.                                        *)
HedgeWins(c) ==
    /\ In(c, "running") /\ call[c].hedge # call[c].at
    /\ inflight[call[c].at] <= MaxLeaked
    /\ call' = [call EXCEPT ![c].at = call[c].hedge]
    /\ UNCHANGED <<breakerVars, statsVars, healed>>

Tick ==
    /\ open_left' = [d \in Deployments |-> Max2(0, open_left[d] - 1)]
    /\ cooldown_left' = [d \in Deployments |-> Max2(0, cooldown_left[d] - 1)]
    /\ UNCHANGED <<state, window, open_count, half_open_inflight, half_open_successes, fresh,
                   inflight, call, healed>>

(* External: an upstream recovers. *)
Heal(d) ==
    /\ d \notin healed
    /\ healed' = healed \cup {d}
    /\ UNCHANGED <<breakerVars, statsVars, call>>

(* prewarm_from_aggregate may force_open breakers before the first request. *)
Init ==
    /\ state \in [Deployments -> {"closed", "open"}]
    /\ open_left \in [Deployments -> 0 .. CooldownMax]
    /\ \A d \in Deployments : state[d] = "closed" => open_left[d] = 0
    /\ window = [d \in Deployments |-> <<>>]
    /\ open_count = [d \in Deployments |-> 0]
    /\ half_open_inflight = [d \in Deployments |-> 0]
    /\ half_open_successes = [d \in Deployments |-> 0]
    /\ inflight = [d \in Deployments |-> 0]
    /\ cooldown_left = [d \in Deployments |-> 0]
    /\ call = [c \in Calls |-> NewCall]
    /\ healed = {}
    /\ fresh = [d \in Deployments |-> 0]

Routed(c) == Pick(c) \/ PickNothing(c) \/ Start(c) \/ StartRefused(c)

Ended(c) ==
    \/ Succeed(c)
    \/ "fail" \in Outcomes /\ Fail(c)
    \/ "limited" \in Outcomes /\ RateLimited(c)
    \/ "abort" \in Outcomes /\ Abort(c)
    \/ "cancel" \in Outcomes /\ Cancel(c)

Next ==
    \/ \E c \in Calls : \/ Routed(c) \/ Ended(c)
                        \/ "turned" \in Outcomes /\ TurnAway(c)
                        \/ "hedge" \in Outcomes /\ (Hedge(c) \/ HedgeWins(c))
    \/ Tick
    \/ "heal" \in Outcomes /\ \E d \in Deployments : Heal(d)

(* Requests keep arriving, at any time, also when only d can be picked; a   *)
(* request that picked goes on to start; the timeouts of the providers end  *)
(* every call; time passes.                                                 *)
PickFor(c, d) == Pick(c) /\ call'[c].at = d

Fairness ==
    /\ \A c \in Calls : WF_vars(Routed(c) \/ Ended(c))
    /\ \A d \in Deployments : SF_vars(\E c \in Calls : PickFor(c, d))
    /\ WF_vars(Tick)

Spec == Init /\ [][Next]_vars /\ Fairness

(***************************************************************************)
(* Properties                                                              *)
(***************************************************************************)
Running(d) == {c \in Calls : In(c, "running") /\ call[c].at = d}

(* Type correctness.  No more probes are counted than half_open_probes, and *)
(* none at all unless the breaker is half open.                             *)
RoutingTypeOK ==
    /\ state \in [Deployments -> {"closed", "open", "half_open"}]
    /\ window \in [Deployments -> Seq(BOOLEAN)]
    /\ open_count \in [Deployments -> 0 .. MaxOpenCount]
    /\ open_left \in [Deployments -> 0 .. CooldownMax]
    /\ half_open_inflight \in [Deployments -> 0 .. HalfOpenProbes]
    /\ half_open_successes \in [Deployments -> 0 .. HalfOpenProbes - 1]
    /\ inflight \in [Deployments -> 0 .. Cardinality(Calls) + MaxLeaked]
    /\ cooldown_left \in [Deployments -> 0 .. RetryAfter]
    /\ \A d \in Deployments :
          /\ Len(window[d]) <= WindowSize
          /\ state[d] # "half_open" => half_open_inflight[d] = 0 /\ half_open_successes[d] = 0
    /\ call \in [Calls -> [phase : {"picking", "picked", "running"},
                           level : 1 .. Len(Ladder), attempts : 0 .. MaxAttempts,
                           tried : SUBSET Deployments,
                           at : Deployments, hedge : Deployments]]
    /\ healed \subseteq Deployments
    /\ fresh \in [Deployments -> 0 .. MinSamples]

(* The inflight of a deployment, which the selector scores by, is the number *)
(* of calls it is serving, whichever way they end.                           *)
InflightExact == \A d \in Deployments : inflight[d] = Cardinality(Running(d))

(* Every probe counted belongs to a call that still runs and will record its *)
(* result, across breakers that open and half-open again while calls from    *)
(* before run: no probe slot is lost, so the breaker is never stuck half     *)
(* open with nobody probing.                                                 *)
ProbesReleased ==
    \A d \in Deployments : half_open_inflight[d] <= Cardinality(Running(d))

(* Late failures of calls from before a breaker opened do not put off its    *)
(* recovery: while it is open, open_until_s stays.                           *)
OpenNotExtended ==
    [][\A d \in Deployments : state[d] = "open" /\ state'[d] = "open"
                                 => open_left'[d] <= open_left[d]]_vars

(* A breaker that has closed opens only on min_samples results recorded      *)
(* since then: what was recorded before it recovered counts no more.         *)
FreshEvidence ==
    [][\A d \in Deployments : state[d] = "closed" /\ state'[d] = "open"
                                 => fresh'[d] >= MinSamples]_vars

(* Once a failing upstream of the model group asked for answers again, its  *)
(* breaker closes and it serves again (tests/integration/test_failover.py,  *)
(* test_failover_and_recovery), even if the other one goes on failing.      *)
Recovered == \A d \in Members(1) : d \in healed ~> state[d] = "closed"

(* Each deployment's breaker, with the calls that its counters know of. *)
Guard(d) == INSTANCE Breaker
            WITH Probes <- HalfOpenProbes, MaxLeft <- CooldownMax,
                 st <- state[d], left <- open_left[d], probes <- half_open_inflight[d],
                 won <- half_open_successes[d], seen <- fresh[d], serving <- inflight[d]
=============================================================================
