---------------------------- MODULE Routing_proofs ----------------------------
(***************************************************************************)
(* Theorems about Routing, for any ladder, window, cooldowns, number of    *)
(* probes and number of concurrent requests: the breakers keep their       *)
(* bounds, open on fresh evidence and on time, and each implements the     *)
(* circuit breaker of Breaker; the counters agree with the calls that run. *)
(***************************************************************************)
EXTENDS Routing, FiniteSetTheorems, SequenceTheorems, TLAPS

(***************************************************************************)
(* Breakers                                                                *)
(***************************************************************************)
BreakersOK ==
    /\ state \in [Deployments -> {"closed", "open", "half_open"}]
    /\ window \in [Deployments -> Seq(BOOLEAN)]
    /\ open_count \in [Deployments -> 0 .. MaxOpenCount]
    /\ open_left \in [Deployments -> 0 .. CooldownMax]
    /\ half_open_inflight \in [Deployments -> 0 .. HalfOpenProbes]
    /\ half_open_successes \in [Deployments -> 0 .. HalfOpenProbes - 1]
    /\ fresh \in [Deployments -> 0 .. MinSamples]
    /\ \A d \in Deployments :
          /\ Len(window[d]) <= WindowSize
          /\ state[d] # "half_open" => half_open_inflight[d] = 0 /\ half_open_successes[d] = 0

(* The window holds no result from before the breaker closed. *)
Evidence == \A d \in Deployments : fresh[d] < MinSamples => Len(window[d]) <= fresh[d]

BreakersInv == BreakersOK /\ Evidence

(* What no step does to a breaker. *)
KeepsOpen(d) == state[d] = "open" /\ state'[d] = "open" => open_left'[d] <= open_left[d]
OpensFresh(d) == state[d] = "closed" /\ state'[d] = "open" => fresh'[d] >= MinSamples
BreakersMove == \A d \in Deployments : KeepsOpen(d) /\ OpensFresh(d)

(* How many probes a step of the breakers counts in addition. *)
ProbesGrow(D) ==
    \A d \in Deployments :
        half_open_inflight'[d] <= half_open_inflight[d] + (IF d \in D THEN 1 ELSE 0)

ProbesShrink(d) ==
    /\ ProbesGrow({})
    /\ half_open_inflight'[d] = 0 \/ half_open_inflight'[d] < half_open_inflight[d]

(* What the steps of a breaker need of the configuration. *)
LEMMA BreakerBounds ==
  /\ WindowSize \in Nat \ {0} /\ MinSamples \in Nat \ {0} /\ MinSamples <= WindowSize
  /\ HalfOpenProbes \in Nat \ {0} /\ MaxOpenCount \in Nat \ {0} /\ CooldownMax \in Nat
  /\ MaxAttempts \in Nat \ {0} /\ MaxLeaked \in Nat /\ RetryAfter \in Nat
BY BreakerAssumption

LEMMA BreakersStay ==
  ASSUME BreakersInv, UNCHANGED breakerVars
  PROVE  BreakersInv' /\ BreakersMove /\ ProbesGrow({})
<1>1. BreakersInv'
  BY DEF BreakersInv, BreakersOK, Evidence, breakerVars
<1>2. BreakersMove
  <2> USE BreakerBounds
  <2> QED BY DEF BreakersInv, BreakersOK, BreakersMove, KeepsOpen, OpensFresh, breakerVars
<1>3. ProbesGrow({})
  BY BreakerBounds DEF BreakersInv, BreakersOK, ProbesGrow, breakerVars
<1> QED BY <1>1, <1>2, <1>3

LEMMA RefreshKeeps ==
  ASSUME BreakersInv, NEW D, Refresh(D)
  PROVE  BreakersInv' /\ BreakersMove /\ ProbesGrow({})
<1> USE BreakerBounds
<1>1. BreakersOK'
  BY DEF BreakersInv, BreakersOK, Refresh, Expired
<1>2. Evidence'
  BY DEF BreakersInv, Evidence, Refresh
<1>3. BreakersMove
  BY DEF BreakersInv, BreakersOK, BreakersMove, KeepsOpen, OpensFresh, Refresh, Expired
<1>4. ProbesGrow({})
  BY DEF BreakersInv, BreakersOK, ProbesGrow, Refresh, Expired
<1> QED BY <1>1, <1>2, <1>3, <1>4 DEF BreakersInv

(* A step that writes one breaker, and what its new values have to satisfy. *)
WritesOnly(e) ==
    /\ state' = [state EXCEPT ![e] = state'[e]]
    /\ window' = [window EXCEPT ![e] = window'[e]]
    /\ open_count' = [open_count EXCEPT ![e] = open_count'[e]]
    /\ open_left' = [open_left EXCEPT ![e] = open_left'[e]]
    /\ half_open_inflight' = [half_open_inflight EXCEPT ![e] = half_open_inflight'[e]]
    /\ half_open_successes' = [half_open_successes EXCEPT ![e] = half_open_successes'[e]]
    /\ fresh' = [fresh EXCEPT ![e] = fresh'[e]]

WritesWell(e) ==
    /\ state'[e] \in {"closed", "open", "half_open"} /\ window'[e] \in Seq(BOOLEAN)
    /\ open_count'[e] \in 0 .. MaxOpenCount /\ open_left'[e] \in 0 .. CooldownMax
    /\ half_open_inflight'[e] \in 0 .. HalfOpenProbes
    /\ half_open_successes'[e] \in 0 .. HalfOpenProbes - 1
    /\ fresh'[e] \in 0 .. MinSamples
    /\ Len(window'[e]) <= WindowSize
    /\ state'[e] # "half_open" => half_open_inflight'[e] = 0 /\ half_open_successes'[e] = 0
    /\ fresh'[e] < MinSamples => Len(window'[e]) <= fresh'[e]
    /\ KeepsOpen(e) /\ OpensFresh(e)

LEMMA OneBreaker ==
  ASSUME BreakersInv, NEW e \in Deployments, WritesOnly(e), WritesWell(e)
  PROVE  /\ BreakersInv' /\ BreakersMove
         /\ half_open_inflight'[e] <= half_open_inflight[e] + 1 => ProbesGrow({e})
         /\ half_open_inflight'[e] = 0 \/ half_open_inflight'[e] < half_open_inflight[e] =>
               ProbesShrink(e)
<1>1. ASSUME NEW d \in Deployments \ {e}
      PROVE  /\ state'[d] = state[d] /\ window'[d] = window[d] /\ fresh'[d] = fresh[d]
             /\ open_left'[d] = open_left[d]
             /\ half_open_inflight'[d] = half_open_inflight[d]
             /\ half_open_successes'[d] = half_open_successes[d]
  BY <1>1 DEF BreakersInv, BreakersOK, WritesOnly
<1>2. BreakersOK'
  <2>1. /\ state' \in [Deployments -> {"closed", "open", "half_open"}]
        /\ window' \in [Deployments -> Seq(BOOLEAN)]
        /\ open_count' \in [Deployments -> 0 .. MaxOpenCount]
        /\ open_left' \in [Deployments -> 0 .. CooldownMax]
    BY DEF BreakersInv, BreakersOK, WritesOnly, WritesWell
  <2>2. /\ half_open_inflight' \in [Deployments -> 0 .. HalfOpenProbes]
        /\ half_open_successes' \in [Deployments -> 0 .. HalfOpenProbes - 1]
        /\ fresh' \in [Deployments -> 0 .. MinSamples]
    BY DEF BreakersInv, BreakersOK, WritesOnly, WritesWell
  <2>3. ASSUME NEW d \in Deployments
        PROVE  /\ Len(window'[d]) <= WindowSize
               /\ state'[d] # "half_open" =>
                     half_open_inflight'[d] = 0 /\ half_open_successes'[d] = 0
    <3>1. CASE d = e
      BY <3>1 DEF WritesWell
    <3>2. CASE d # e
      <4>1. /\ Len(window[d]) <= WindowSize
            /\ state[d] # "half_open" => half_open_inflight[d] = 0 /\ half_open_successes[d] = 0
        BY DEF BreakersInv, BreakersOK
      <4> QED BY <1>1, <3>2, <4>1
    <3> QED BY <3>1, <3>2
  <2> QED BY <2>1, <2>2, <2>3 DEF BreakersOK
<1>3. Evidence'
  <2>1. ASSUME NEW d \in Deployments, fresh'[d] < MinSamples
        PROVE  Len(window'[d]) <= fresh'[d]
    <3>1. CASE d = e
      BY <2>1, <3>1 DEF WritesWell
    <3>2. CASE d # e
      BY <1>1, <2>1, <3>2 DEF BreakersInv, Evidence
    <3> QED BY <3>1, <3>2
  <2> QED BY <2>1 DEF Evidence
<1>4. BreakersMove
  <2>1. ASSUME NEW d \in Deployments
        PROVE  KeepsOpen(d) /\ OpensFresh(d)
    <3>1. CASE d = e
      BY <3>1 DEF WritesWell
    <3>2. CASE d # e
      <4>1. open_left[d] \in Int
        BY DEF BreakersInv, BreakersOK
      <4> QED BY <1>1, <3>2, <4>1 DEF KeepsOpen, OpensFresh
    <3> QED BY <3>1, <3>2
  <2> QED BY <2>1 DEF BreakersMove
<1>5. \A d \in Deployments : half_open_inflight[d] \in Nat
  BY BreakerBounds DEF BreakersInv, BreakersOK
<1>6. \A d \in Deployments \ {e} : half_open_inflight'[d] <= half_open_inflight[d] + 0
  BY <1>1, <1>5
<1>7. ASSUME half_open_inflight'[e] <= half_open_inflight[e] + 1
      PROVE  ProbesGrow({e})
  BY <1>6, <1>7 DEF ProbesGrow
<1>8. ASSUME half_open_inflight'[e] = 0 \/ half_open_inflight'[e] < half_open_inflight[e]
      PROVE  ProbesShrink(e)
  <2>1. half_open_inflight'[e] \in Int
    BY DEF WritesWell
  <2>2. half_open_inflight'[e] <= half_open_inflight[e] + 0
    BY <1>5, <1>8, <2>1
  <2> QED BY <1>6, <1>8, <2>2 DEF ProbesShrink, ProbesGrow
<1> QED BY <1>2, <1>3, <1>4, <1>7, <1>8 DEF BreakersInv

(* The values of one breaker before the step. *)
LEMMA BreakerTyped ==
  ASSUME BreakersInv, NEW e \in Deployments
  PROVE  /\ state[e] \in {"closed", "open", "half_open"} /\ window[e] \in Seq(BOOLEAN)
         /\ open_count[e] \in 0 .. MaxOpenCount /\ open_left[e] \in 0 .. CooldownMax
         /\ half_open_inflight[e] \in 0 .. HalfOpenProbes
         /\ half_open_successes[e] \in 0 .. HalfOpenProbes - 1
         /\ fresh[e] \in 0 .. MinSamples
         /\ Len(window[e]) \in Nat /\ Len(window[e]) <= WindowSize
         /\ fresh[e] < MinSamples => Len(window[e]) <= fresh[e]
         /\ state[e] # "half_open" => half_open_inflight[e] = 0 /\ half_open_successes[e] = 0
<1>1. window[e] \in Seq(BOOLEAN)
  BY DEF BreakersInv, BreakersOK
<1>2. Len(window[e]) \in Nat
  BY <1>1
<1> QED BY <1>1, <1>2 DEF BreakersInv, BreakersOK, Evidence

LEMMA AllowKeeps ==
  ASSUME BreakersInv, NEW e \in Deployments, Allow(e)
  PROVE  BreakersInv' /\ BreakersMove /\ ProbesGrow({e})
<1> DEFINE st == IF HalfOpen(e) THEN "half_open" ELSE state[e]
           i == IF Expired(e) THEN 1
                ELSE IF HalfOpen(e) THEN half_open_inflight[e] + 1 ELSE half_open_inflight[e]
           k == IF Expired(e) THEN 0 ELSE half_open_successes[e]
<1>1. /\ state' = [state EXCEPT ![e] = st]
      /\ half_open_inflight' = [half_open_inflight EXCEPT ![e] = i]
      /\ half_open_successes' = [half_open_successes EXCEPT ![e] = k]
      /\ UNCHANGED <<window, open_count, open_left, fresh>>
  BY DEF Allow
<1>2. HalfOpen(e) \/ state[e] = "closed"
  BY BreakerTyped DEF Allow, CanTry, HalfOpen
<1>3. ~Expired(e) /\ HalfOpen(e) => state[e] = "half_open" /\ half_open_inflight[e] < HalfOpenProbes
  BY DEF Allow, CanTry, HalfOpen
<1>4. /\ st \in {"closed", "half_open"}
      /\ i \in 0 .. HalfOpenProbes /\ k \in 0 .. HalfOpenProbes - 1
      /\ i <= half_open_inflight[e] + 1
      /\ st # "half_open" => i = 0 /\ k = 0
  BY <1>2, <1>3, BreakerTyped, BreakerBounds DEF HalfOpen
<1> HIDE DEF st, i, k
<1>5. /\ state'[e] = st /\ half_open_inflight'[e] = i /\ half_open_successes'[e] = k
      /\ WritesOnly(e)
  BY <1>1 DEF WritesOnly, BreakersInv, BreakersOK
<1>6. WritesWell(e)
  BY <1>1, <1>4, <1>5, BreakerTyped DEF WritesWell, KeepsOpen, OpensFresh
<1> QED BY <1>4, <1>5, <1>6, OneBreaker

LEMMA CooldownBounded ==
  ASSUME NEW n \in 1 .. MaxOpenCount
  PROVE  Cooldown(n) \in 0 .. CooldownMax
BY BreakerAssumption, PowersAssumption DEF Cooldown, Min2

(* The window keeps to its length, and grows by one at most. *)
LEMMA AppendedBounded ==
  ASSUME NEW w \in Seq(BOOLEAN), Len(w) <= WindowSize, NEW s \in BOOLEAN
  PROVE  /\ Appended(w, s) \in Seq(BOOLEAN)
         /\ Len(Appended(w, s)) <= WindowSize
         /\ Len(Appended(w, s)) <= Len(w) + 1
<1> DEFINE v == Append(w, s)
<1>1. v \in Seq(BOOLEAN) /\ Len(v) = Len(w) + 1 /\ Len(w) \in Nat
  OBVIOUS
<1>2. WindowSize \in Nat \ {0}
  BY BreakerAssumption
<1>3. v # <<>>
  <2>1. Len(v) # 0
    BY <1>1
  <2> HIDE DEF v
  <2> QED BY <2>1
<1>4. Tail(v) \in Seq(BOOLEAN) /\ Len(Tail(v)) = Len(v) - 1
  <2> HIDE DEF v
  <2> QED BY <1>1, <1>3, HeadTailProperties
<1>5. Appended(w, s) = IF Len(v) > WindowSize THEN Tail(v) ELSE v
  BY DEF Appended
<1> HIDE DEF v
<1>6. CASE Len(v) > WindowSize
  BY <1>1, <1>2, <1>4, <1>5, <1>6
<1>7. CASE ~(Len(v) > WindowSize)
  BY <1>1, <1>2, <1>5, <1>7
<1> QED BY <1>6, <1>7

LEMMA OpenKeeps ==
  ASSUME BreakersInv, NEW e \in Deployments, Open(e), state[e] # "open",
         NEW w \in Seq(BOOLEAN), NEW f \in 0 .. MinSamples,
         window' = [window EXCEPT ![e] = w], fresh' = [fresh EXCEPT ![e] = f],
         Len(w) <= WindowSize, f < MinSamples => Len(w) <= f,
         state[e] = "closed" => f >= MinSamples
  PROVE  BreakersInv' /\ BreakersMove /\ ProbesShrink(e)
<1> DEFINE n == Min2(MaxOpenCount, open_count[e] + 1)
<1>1. n \in 1 .. MaxOpenCount
  BY BreakerTyped, BreakerBounds DEF Min2
<1>2. Cooldown(n) \in 0 .. CooldownMax
  BY <1>1, CooldownBounded
<1>3. /\ state' = [state EXCEPT ![e] = "open"]
      /\ open_count' = [open_count EXCEPT ![e] = n]
      /\ open_left' = [open_left EXCEPT ![e] = Cooldown(n)]
      /\ half_open_inflight' = [half_open_inflight EXCEPT ![e] = 0]
      /\ half_open_successes' = [half_open_successes EXCEPT ![e] = 0]
  BY DEF Open
<1> HIDE DEF n
<1>4. /\ n \in 0 .. MaxOpenCount
      /\ 0 \in 0 .. HalfOpenProbes /\ 0 \in 0 .. HalfOpenProbes - 1
  BY <1>1, BreakerBounds
<1>5. /\ state'[e] = "open" /\ open_count'[e] = n /\ open_left'[e] = Cooldown(n)
      /\ half_open_inflight'[e] = 0 /\ half_open_successes'[e] = 0
      /\ window'[e] = w /\ fresh'[e] = f
      /\ WritesOnly(e)
  BY <1>3 DEF WritesOnly, BreakersInv, BreakersOK
<1>6. WritesWell(e)
  BY <1>2, <1>4, <1>5 DEF WritesWell, KeepsOpen, OpensFresh
<1> QED BY <1>5, <1>6, OneBreaker

LEMMA CloseKeeps ==
  ASSUME BreakersInv, NEW e \in Deployments, Close(e)
  PROVE  BreakersInv' /\ BreakersMove /\ ProbesShrink(e)
<1>1. /\ 0 \in 0 .. MaxOpenCount /\ 0 \in 0 .. MinSamples
      /\ 0 \in 0 .. HalfOpenProbes /\ 0 \in 0 .. HalfOpenProbes - 1
      /\ open_left[e] \in 0 .. CooldownMax
  BY BreakerTyped, BreakerBounds
<1>2. <<>> \in Seq(BOOLEAN) /\ Len(<<>>) = 0 /\ 0 <= WindowSize
  BY BreakerBounds
<1>3. /\ state'[e] = "closed" /\ window'[e] = <<>> /\ open_count'[e] = 0
      /\ open_left'[e] = open_left[e] /\ fresh'[e] = 0
      /\ half_open_inflight'[e] = 0 /\ half_open_successes'[e] = 0
      /\ WritesOnly(e)
  BY DEF Close, WritesOnly, BreakersInv, BreakersOK
<1>4. WritesWell(e)
  BY <1>1, <1>2, <1>3 DEF WritesWell, KeepsOpen, OpensFresh
<1> QED BY <1>3, <1>4, OneBreaker

LEMMA RecordProbeKeeps ==
  ASSUME BreakersInv, NEW e \in Deployments, NEW s \in BOOLEAN, RecordProbe(e, s)
  PROVE  BreakersInv' /\ BreakersMove /\ ProbesShrink(e)
<1>1. state[e] = "half_open"
  BY DEF RecordProbe
<1>2. CASE ~s
  <2>1. Open(e) /\ UNCHANGED <<window, fresh>>
    BY <1>2 DEF RecordProbe
  <2>2. window' = [window EXCEPT ![e] = window[e]] /\ fresh' = [fresh EXCEPT ![e] = fresh[e]]
    BY <2>1 DEF BreakersInv, BreakersOK
  <2> QED BY <1>1, <2>1, <2>2, BreakerTyped, OpenKeeps
<1>3. CASE s /\ half_open_successes[e] + 1 >= HalfOpenProbes
  BY <1>3, CloseKeeps DEF RecordProbe
<1>4. CASE s /\ ~(half_open_successes[e] + 1 >= HalfOpenProbes)
  <2> DEFINE i == Max2(0, half_open_inflight[e] - 1)
             k == half_open_successes[e] + 1
  <2>1. /\ half_open_inflight' = [half_open_inflight EXCEPT ![e] = i]
        /\ half_open_successes' = [half_open_successes EXCEPT ![e] = k]
        /\ UNCHANGED <<state, window, open_count, open_left, fresh>>
    BY <1>4 DEF RecordProbe
  <2>2. /\ i \in 0 .. HalfOpenProbes /\ k \in 0 .. HalfOpenProbes - 1
        /\ i = 0 \/ i < half_open_inflight[e]
    BY <1>4, BreakerTyped, BreakerBounds DEF Max2
  <2> HIDE DEF i, k
  <2>3. half_open_inflight'[e] = i /\ half_open_successes'[e] = k /\ WritesOnly(e)
    BY <2>1 DEF WritesOnly, BreakersInv, BreakersOK
  <2>4. WritesWell(e)
    BY <1>1, <2>1, <2>2, <2>3, BreakerTyped DEF WritesWell, KeepsOpen, OpensFresh
  <2> QED BY <2>2, <2>3, <2>4, OneBreaker
<1> QED BY <1>2, <1>3, <1>4

LEMMA RecordResultKeeps ==
  ASSUME BreakersInv, NEW e \in Deployments, NEW s \in BOOLEAN, RecordResult(e, s)
  PROVE  BreakersInv' /\ BreakersMove /\ ProbesShrink(e)
<1> DEFINE w == Appended(window[e], s)
           f == Min2(MinSamples, fresh[e] + 1)
<1>1. w \in Seq(BOOLEAN) /\ Len(w) <= WindowSize /\ Len(w) <= Len(window[e]) + 1
  BY BreakerTyped, AppendedBounded
<1>2. /\ state[e] # "half_open"
      /\ window' = [window EXCEPT ![e] = w] /\ fresh' = [fresh EXCEPT ![e] = f]
  BY DEF RecordResult
<1>3. \/ state[e] = "closed" /\ Len(w) >= MinSamples /\ Open(e)
      \/ UNCHANGED <<state, open_count, open_left, half_open_inflight, half_open_successes>>
  BY DEF RecordResult, ShouldOpen
<1>4. Len(w) \in Nat
  BY <1>1
<1> HIDE DEF w
<1>5. f \in 0 .. MinSamples /\ (f < MinSamples => f = fresh[e] + 1 /\ fresh[e] < MinSamples)
  BY BreakerTyped, BreakerBounds DEF Min2
<1> HIDE DEF f
<1>6. f < MinSamples => Len(w) <= f
  BY <1>1, <1>4, <1>5, BreakerTyped
<1>7. CASE state[e] = "closed" /\ Len(w) >= MinSamples /\ Open(e)
  <2>1. f >= MinSamples
    BY <1>4, <1>5, <1>6, <1>7, BreakerBounds
  <2> QED BY <1>1, <1>2, <1>5, <1>6, <1>7, <2>1, OpenKeeps
<1>8. CASE UNCHANGED <<state, open_count, open_left, half_open_inflight, half_open_successes>>
  <2>1. half_open_inflight[e] = 0 /\ half_open_successes[e] = 0 /\ open_left[e] \in Int
    BY <1>2, BreakerTyped, BreakerBounds
  <2>2. window'[e] = w /\ fresh'[e] = f /\ WritesOnly(e)
    BY <1>2, <1>8 DEF WritesOnly, BreakersInv, BreakersOK
  <2>3. WritesWell(e)
    BY <1>1, <1>2, <1>5, <1>6, <1>8, <2>1, <2>2, BreakerTyped
       DEF WritesWell, KeepsOpen, OpensFresh
  <2> QED BY <1>8, <2>1, <2>2, <2>3, OneBreaker
<1> QED BY <1>3, <1>7, <1>8

LEMMA RecordKeeps ==
  ASSUME BreakersInv, NEW e \in Deployments, NEW s \in BOOLEAN, Record(e, s)
  PROVE  BreakersInv' /\ BreakersMove /\ ProbesShrink(e)
BY RecordProbeKeeps, RecordResultKeeps DEF Record

(* Time passes. *)
LEMMA TickKeeps ==
  ASSUME BreakersInv, Tick
  PROVE  BreakersInv' /\ BreakersMove /\ ProbesGrow({})
<1> USE BreakerBounds
<1>1. BreakersOK'
  BY DEF BreakersInv, BreakersOK, Tick, Max2
<1>2. Evidence'
  BY DEF BreakersInv, Evidence, Tick
<1>3. BreakersMove
  BY DEF BreakersInv, BreakersOK, BreakersMove, KeepsOpen, OpensFresh, Tick, Max2
<1>4. ProbesGrow({})
  BY DEF BreakersInv, BreakersOK, ProbesGrow, Tick
<1> QED BY <1>1, <1>2, <1>3, <1>4 DEF BreakersInv

(***************************************************************************)
(* Calls and counters                                                      *)
(***************************************************************************)
CallsOK ==
    /\ call \in [Calls -> [phase : {"picking", "picked", "running"},
                           level : 1 .. Len(Ladder), attempts : 0 .. MaxAttempts,
                           tried : SUBSET Deployments,
                           at : Deployments, hedge : Deployments]]
    /\ \A c \in Calls : In(c, "picking") => call[c].attempts < MaxAttempts
    /\ healed \subseteq Deployments

StatsOK ==
    /\ inflight \in [Deployments -> Nat]
    /\ cooldown_left \in [Deployments -> 0 .. RetryAfter]

(* A deployment counts at most MaxLeaked calls that do not run any more. *)
LeaksBounded == \A d \in Deployments : inflight[d] <= Cardinality(Running(d)) + MaxLeaked

RoutingInv == BreakersInv /\ CallsOK /\ StatsOK /\ LeaksBounded

LEMMA RunningFinite ==
  ASSUME NEW d
  PROVE  /\ IsFiniteSet(Running(d)) /\ Cardinality(Running(d)) \in Nat
         /\ Cardinality(Running(d)) <= Cardinality(Calls) /\ Cardinality(Calls) \in Nat
<1>1. Running(d) \in SUBSET Calls
  BY DEF Running
<1> QED BY <1>1, LadderAssumption, FS_Subset, FS_CardinalityType

(* What becomes of the calls a deployment serves when one call changes. *)
Serving(q, d) == q.phase = "running" /\ q.at = d

LEMMA RunningChanges ==
  ASSUME CallsOK, NEW c \in Calls, NEW q, call' = [call EXCEPT ![c] = q], NEW d
  PROVE  /\ Cardinality(Running(d)') \in Nat /\ Cardinality(Running(d)) \in Nat
         /\ Cardinality(Running(d)') =
               Cardinality(Running(d)) + (IF Serving(q, d) THEN 1 ELSE 0)
                                       - (IF Serving(call[c], d) THEN 1 ELSE 0)
         /\ Serving(call[c], d) => Cardinality(Running(d)) > 0
<1>1. call'[c] = q /\ \A b \in Calls \ {c} : call'[b] = call[b]
  BY DEF CallsOK
<1> DEFINE R == Running(d)
           S == Running(d)'
<1>2. c \in R <=> Serving(call[c], d)
  BY DEF Running, In, Serving
<1>3. c \in S <=> Serving(q, d)
  BY <1>1 DEF Running, In, Serving
<1>4. \A b \in Calls \ {c} : b \in S <=> b \in R
  BY <1>1 DEF Running, In
<1>5. R \subseteq Calls /\ S \subseteq Calls
  BY DEF Running
<1>6. IsFiniteSet(R) /\ IsFiniteSet(S) /\ Cardinality(R) \in Nat /\ Cardinality(S) \in Nat
  <2> HIDE DEF R, S
  <2> QED BY <1>5, LadderAssumption, FS_Subset, FS_CardinalityType
<1>7. c \in R => Cardinality(R) > 0
  <2> HIDE DEF R, S
  <2> QED BY <1>6, FS_EmptySet
<1>8. Cardinality(S) = Cardinality(R) + (IF c \in S THEN 1 ELSE 0) - (IF c \in R THEN 1 ELSE 0)
  <2> HIDE DEF R, S
  <2>1. CASE c \in S /\ c \notin R
    <3>1. S = R \cup {c}
      BY <1>4, <1>5, <2>1
    <3> QED BY <1>6, <2>1, <3>1, FS_AddElement
  <2>2. CASE c \notin S /\ c \in R
    <3>1. S = R \ {c}
      BY <1>4, <1>5, <2>2
    <3> QED BY <1>6, <2>2, <3>1, FS_RemoveElement
  <2>3. CASE c \in S <=> c \in R
    <3>1. S = R
      BY <1>4, <1>5, <2>3
    <3> QED BY <1>6, <2>3, <3>1
  <2> QED BY <2>1, <2>2, <2>3
<1> HIDE DEF R, S
<1>9. /\ Cardinality(S) = Cardinality(R) + (IF Serving(q, d) THEN 1 ELSE 0)
                           - (IF Serving(call[c], d) THEN 1 ELSE 0)
      /\ Serving(call[c], d) => Cardinality(R) > 0
  BY <1>2, <1>3, <1>7, <1>8
<1> QED BY <1>6, <1>9 DEF R, S

(***************************************************************************)
(* The kinds of steps                                                      *)
(***************************************************************************)
CallType == [phase : {"picking", "picked", "running"},
             level : 1 .. Len(Ladder), attempts : 0 .. MaxAttempts,
             tried : SUBSET Deployments,
             at : Deployments, hedge : Deployments]

Fit(q) == q \in CallType /\ (q.phase = "picking" => q.attempts < MaxAttempts)

Moves(c, q) == call' = [call EXCEPT ![c] = q] /\ healed' = healed

(* Nobody comes or goes: a pick, a refusal, a hedge that is sent. *)
Quiet(c) ==
    /\ UNCHANGED statsVars
    /\ \E q : Fit(q) /\ Moves(c, q) /\ \A d : Serving(q, d) <=> Serving(call[c], d)

(* A call starts, and is counted. *)
Joins(c) ==
    /\ inflight' = [inflight EXCEPT ![call[c].at] = @ + 1]
    /\ UNCHANGED cooldown_left
    /\ \A d : ~Serving(call[c], d)
    /\ \E q : Fit(q) /\ Moves(c, q) /\ \A d : Serving(q, d) <=> d = call[c].at

(* A call ends, and is counted back. *)
Leaves(c) ==
    /\ In(c, "running")
    /\ Leave(call[c].at)
    /\ cooldown_left' \in [Deployments -> 0 .. RetryAfter]
    /\ \E q : Fit(q) /\ Moves(c, q) /\ \A d : ~Serving(q, d)

(* A call leaves its deployment without being counted back. *)
Slips(c) ==
    /\ In(c, "running")
    /\ inflight[call[c].at] <= MaxLeaked
    /\ UNCHANGED statsVars
    /\ \E q : /\ Fit(q) /\ Moves(c, q) /\ ~Serving(q, call[c].at)
              /\ (\E d : Serving(q, d)) => "hedge" \in Outcomes

(* The world goes on without the calls. *)
Idles ==
    /\ UNCHANGED <<inflight, call>>
    /\ cooldown_left' \in [Deployments -> 0 .. RetryAfter]
    /\ healed' \subseteq Deployments

Kinds ==
    \/ \E c \in Calls : Quiet(c) /\ ProbesGrow({})
    \/ \E c \in Calls : Joins(c) /\ ProbesGrow({call[c].at})
    \/ \E c \in Calls : Leaves(c) /\ ProbesShrink(call[c].at)
    \/ \E c \in Calls : /\ Leaves(c) /\ ProbesGrow({})
                        /\ Outcomes \cap {"limited", "abort"} # {}
    \/ \E c \in Calls : /\ Slips(c) /\ ProbesGrow({})
                        /\ Outcomes \cap {"cancel", "hedge"} # {}
    \/ Idles /\ ProbesGrow({})

LEMMA NewCallFits == Fit(NewCall) /\ NewCall.phase = "picking"
<1>1. Ladder[1] \in Seq(Deployments) /\ Ladder[1] # <<>> /\ Len(Ladder) \in Nat \ {0}
  BY LadderAssumption
<1>2. Ladder[1][1] \in Deployments
  BY <1>1
<1>3. MaxAttempts \in Nat \ {0}
  BY BreakerAssumption
<1> QED BY <1>1, <1>2, <1>3 DEF Fit, NewCall, CallType

LEMMA EndsOrRetries ==
  ASSUME CallsOK, NEW c \in Calls, End(c) \/ Retry(c)
  PROVE  \E q : Fit(q) /\ q.phase = "picking" /\ Moves(c, q)
<1>1. CASE End(c)
  BY <1>1, NewCallFits DEF End, Moves
<1>2. CASE Retry(c) /\ call[c].attempts # MaxAttempts
  <2> DEFINE q == [call[c] EXCEPT !.phase = "picking"]
  <2>1. call[c] \in CallType /\ call[c].attempts < MaxAttempts
    BY <1>2, BreakerAssumption DEF CallsOK, CallType
  <2>2. Fit(q) /\ q.phase = "picking"
    BY <2>1 DEF CallType, Fit
  <2>3. call' = [call EXCEPT ![c] = q] /\ healed' = healed
    BY <1>2 DEF Retry, CallsOK
  <2> QED BY <2>2, <2>3 DEF Moves
<1> QED BY <1>1, <1>2 DEF Retry

(* A call that ends, however it is recorded. *)
LEMMA EndLeaves ==
  ASSUME CallsOK, NEW c \in Calls, In(c, "running"), Leave(call[c].at),
         cooldown_left' \in [Deployments -> 0 .. RetryAfter], End(c) \/ Retry(c)
  PROVE  Leaves(c)
<1>1. PICK q : Fit(q) /\ q.phase = "picking" /\ Moves(c, q)
  BY EndsOrRetries
<1>2. \A d : ~Serving(q, d)
  BY <1>1 DEF Serving
<1> QED BY <1>1, <1>2 DEF Leaves

LEMMA PickKinds ==
  ASSUME RoutingInv, NEW c \in Calls, Pick(c)
  PROVE  BreakersInv' /\ BreakersMove /\ Quiet(c) /\ ProbesGrow({})
<1> DEFINE q == call[c]
<1>1. PICK k \in q.level .. Len(Ladder), d \in Deployments :
         /\ call' = [call EXCEPT ![c] =
                        [phase |-> "picked", level |-> k, attempts |-> q.attempts + 1,
                         tried |-> q.tried \cup {d}, at |-> d, hedge |-> d]]
         /\ Refresh(LookedAt(q.level .. k, q.tried))
  BY DEF Pick
<1> DEFINE p == [phase |-> "picked", level |-> k, attempts |-> q.attempts + 1,
                 tried |-> q.tried \cup {d}, at |-> d, hedge |-> d]
<1>2. In(c, "picking") /\ UNCHANGED <<statsVars, healed>>
  BY DEF Pick
<1>3. q \in CallType /\ q.attempts < MaxAttempts
  BY <1>2 DEF RoutingInv, CallsOK, CallType
<1>4. k \in 1 .. Len(Ladder) /\ q.attempts + 1 \in 0 .. MaxAttempts
  BY <1>3, LadderAssumption, BreakerAssumption DEF CallType
<1>5. Fit(p)
  BY <1>3, <1>4 DEF Fit, CallType
<1>6. \A e : Serving(p, e) <=> Serving(q, e)
  BY <1>2 DEF Serving, In
<1>7. Moves(c, p)
  BY <1>1, <1>2 DEF Moves
<1>8. Quiet(c)
  <2> HIDE DEF p
  <2> QED BY <1>2, <1>5, <1>6, <1>7 DEF Quiet
<1> QED BY <1>1, <1>8, RefreshKeeps DEF RoutingInv

(* Calls that end before they start. *)
LEMMA DropKinds ==
  ASSUME RoutingInv, NEW c \in Calls, PickNothing(c) \/ TurnAway(c) \/ StartRefused(c)
  PROVE  BreakersInv' /\ BreakersMove /\ Quiet(c) /\ ProbesGrow({})
<1>1. BreakersInv' /\ BreakersMove /\ ProbesGrow({})
  <2>1. \/ Refresh(LookedAt(call[c].level .. Len(Ladder), call[c].tried))
        \/ UNCHANGED breakerVars
    BY DEF PickNothing, TurnAway, StartRefused
  <2> QED BY <2>1, RefreshKeeps, BreakersStay DEF RoutingInv
<1>2. /\ UNCHANGED statsVars /\ (End(c) \/ Retry(c))
      /\ In(c, "picking") \/ In(c, "picked")
  BY DEF PickNothing, TurnAway, StartRefused
<1>3. PICK q : Fit(q) /\ q.phase = "picking" /\ Moves(c, q)
  BY <1>2, EndsOrRetries DEF RoutingInv
<1>4. \A d : ~Serving(q, d) /\ ~Serving(call[c], d)
  BY <1>2, <1>3 DEF Serving, In
<1>5. Quiet(c)
  BY <1>2, <1>3, <1>4 DEF Quiet
<1> QED BY <1>1, <1>5

LEMMA StartKinds ==
  ASSUME RoutingInv, NEW c \in Calls, Start(c)
  PROVE  BreakersInv' /\ BreakersMove /\ Joins(c) /\ ProbesGrow({call[c].at})
<1> DEFINE q == [call[c] EXCEPT !.phase = "running"]
<1>1. call[c] \in CallType
  BY DEF RoutingInv, CallsOK, CallType
<1>2. BreakersInv' /\ BreakersMove /\ ProbesGrow({call[c].at})
  <2>1. call[c].at \in Deployments
    BY <1>1 DEF CallType
  <2> QED BY <2>1, AllowKeeps DEF Start, RoutingInv
<1>3. Moves(c, q)
  BY DEF Start, Moves, RoutingInv, CallsOK
<1>4. Fit(q) /\ q.phase = "running" /\ q.at = call[c].at
  BY <1>1 DEF Fit, CallType
<1>5. \A d : Serving(q, d) <=> d = call[c].at
  BY <1>4 DEF Serving
<1>6. \A d : ~Serving(call[c], d)
  BY DEF Start, In, Serving
<1>7. Joins(c)
  <2> HIDE DEF q
  <2> QED BY <1>3, <1>4, <1>5, <1>6 DEF Joins, Start
<1> QED BY <1>2, <1>7

(* Calls that end with a result. *)
LEMMA FinishKinds ==
  ASSUME RoutingInv, NEW c \in Calls, Succeed(c) \/ Fail(c)
  PROVE  BreakersInv' /\ BreakersMove /\ Leaves(c) /\ ProbesShrink(call[c].at)
<1>1. PICK s \in BOOLEAN : RecordFinish(call[c].at, s)
  BY DEF Succeed, Fail
<1>2. call[c].at \in Deployments
  BY DEF RoutingInv, CallsOK
<1>3. BreakersInv' /\ BreakersMove /\ ProbesShrink(call[c].at)
  BY <1>1, <1>2, RecordKeeps DEF RecordFinish, RoutingInv
<1>4. cooldown_left' \in [Deployments -> 0 .. RetryAfter]
  BY <1>1 DEF RecordFinish, RoutingInv, StatsOK
<1>5. In(c, "running") /\ (End(c) \/ Retry(c)) /\ Leave(call[c].at)
  BY <1>1 DEF Succeed, Fail, RecordFinish
<1> QED BY <1>3, <1>4, <1>5, EndLeaves DEF RoutingInv

(* Calls that end with a 429 or an abort. *)
LEMMA AbortKinds ==
  ASSUME RoutingInv, NEW c \in Calls, RateLimited(c) \/ Abort(c)
  PROVE  BreakersInv' /\ BreakersMove /\ Leaves(c) /\ ProbesGrow({})
<1>1. UNCHANGED breakerVars /\ In(c, "running") /\ (End(c) \/ Retry(c)) /\ Leave(call[c].at)
  BY DEF RateLimited, Abort, RecordRateLimit, RecordAbort
<1>2. cooldown_left' \in [Deployments -> 0 .. RetryAfter]
  BY BreakerAssumption
  DEF RateLimited, Abort, RecordRateLimit, RecordAbort, RoutingInv, StatsOK, Max2
<1>3. BreakersInv' /\ BreakersMove /\ ProbesGrow({})
  BY <1>1, BreakersStay DEF RoutingInv
<1> QED BY <1>1, <1>2, <1>3, EndLeaves DEF RoutingInv

(* Handlers that are cancelled, and hedges that win. *)
LEMMA SlipKinds ==
  ASSUME RoutingInv, NEW c \in Calls, Cancel(c) \/ ("hedge" \in Outcomes /\ HedgeWins(c))
  PROVE  BreakersInv' /\ BreakersMove /\ Slips(c) /\ ProbesGrow({})
<1>1. BreakersInv' /\ BreakersMove /\ ProbesGrow({})
  BY BreakersStay DEF Cancel, HedgeWins, RoutingInv
<1>2. /\ In(c, "running") /\ inflight[call[c].at] <= MaxLeaked /\ UNCHANGED statsVars
  BY DEF Cancel, HedgeWins
<1>3. \E q : /\ Fit(q) /\ Moves(c, q) /\ ~Serving(q, call[c].at)
             /\ (\E d : Serving(q, d)) => "hedge" \in Outcomes
  <2>1. CASE Cancel(c)
    BY <2>1, EndsOrRetries DEF Cancel, RoutingInv, Serving
  <2>2. CASE "hedge" \in Outcomes /\ HedgeWins(c)
    <3> DEFINE q == [call[c] EXCEPT !.at = call[c].hedge]
    <3>1. call[c] \in CallType /\ call[c].hedge # call[c].at /\ call[c].phase = "running"
      BY <2>2 DEF HedgeWins, RoutingInv, CallsOK, CallType, In
    <3>2. Fit(q) /\ q.at # call[c].at
      BY <3>1 DEF Fit, CallType
    <3>3. Moves(c, q)
      BY <2>2 DEF HedgeWins, Moves, RoutingInv, CallsOK
    <3> HIDE DEF q
    <3> QED BY <2>2, <3>2, <3>3 DEF Serving
  <2> QED BY <2>1, <2>2
<1> QED BY <1>1, <1>2, <1>3 DEF Slips

LEMMA HedgeKinds ==
  ASSUME RoutingInv, NEW c \in Calls, Hedge(c)
  PROVE  BreakersInv' /\ BreakersMove /\ Quiet(c) /\ ProbesGrow({})
<1>1. PICK k \in 1 .. Len(Ladder), d \in Deployments :
         /\ call' = [call EXCEPT ![c].hedge = d]
         /\ Refresh(LookedAt(1 .. k, call[c].tried))
  BY DEF Hedge
<1> DEFINE q == [call[c] EXCEPT !.hedge = d]
<1>2. call[c] \in CallType /\ call[c].phase = "running"
  BY DEF Hedge, In, RoutingInv, CallsOK, CallType
<1>3. Fit(q) /\ q.phase = call[c].phase /\ q.at = call[c].at
  BY <1>2 DEF Fit, CallType
<1>4. Moves(c, q)
  BY <1>1 DEF Hedge, Moves, RoutingInv, CallsOK
<1>5. Quiet(c)
  <2> HIDE DEF q
  <2> QED BY <1>3, <1>4 DEF Quiet, Serving, Hedge
<1> QED BY <1>1, <1>5, RefreshKeeps DEF RoutingInv

LEMMA StepKinds ==
  ASSUME RoutingInv, [Next]_vars
  PROVE  BreakersInv' /\ BreakersMove /\ Kinds
<1>1. ASSUME NEW c \in Calls, Routed(c) PROVE BreakersInv' /\ BreakersMove /\ Kinds
  BY <1>1, PickKinds, DropKinds, StartKinds DEF Routed, Kinds
<1>2. ASSUME NEW c \in Calls, Ended(c) PROVE BreakersInv' /\ BreakersMove /\ Kinds
  BY <1>2, FinishKinds, AbortKinds, SlipKinds DEF Ended, Kinds
<1>3. ASSUME NEW c \in Calls, TurnAway(c) PROVE BreakersInv' /\ BreakersMove /\ Kinds
  BY <1>3, DropKinds DEF Kinds
<1>4. ASSUME NEW c \in Calls, "hedge" \in Outcomes, Hedge(c) \/ HedgeWins(c)
      PROVE  BreakersInv' /\ BreakersMove /\ Kinds
  BY <1>4, HedgeKinds, SlipKinds DEF Kinds
<1>5. CASE Tick
  <2>1. Idles
    BY <1>5, BreakerAssumption DEF Tick, Idles, RoutingInv, StatsOK, CallsOK, Max2
  <2> QED BY <1>5, <2>1, TickKeeps DEF Kinds, RoutingInv
<1>6. ASSUME NEW d \in Deployments, Heal(d) PROVE BreakersInv' /\ BreakersMove /\ Kinds
  <2>1. Idles
    BY <1>6 DEF Heal, Idles, statsVars, RoutingInv, StatsOK, CallsOK
  <2>2. UNCHANGED breakerVars
    BY <1>6 DEF Heal
  <2> QED BY <2>1, <2>2, BreakersStay DEF Kinds, RoutingInv
<1>7. CASE UNCHANGED vars
  <2>1. UNCHANGED <<breakerVars, inflight, cooldown_left, call, healed>>
    BY <1>7 DEF vars, statsVars
  <2>2. Idles
    BY <2>1 DEF Idles, RoutingInv, StatsOK, CallsOK
  <2> QED BY <2>1, <2>2, BreakersStay DEF Kinds, RoutingInv
<1> QED BY <1>1, <1>2, <1>3, <1>4, <1>5, <1>6, <1>7 DEF Next

(***************************************************************************)
(* The invariant                                                           *)
(***************************************************************************)
LEMMA MovesKeep ==
  ASSUME CallsOK, NEW c \in Calls, NEW q, Fit(q), Moves(c, q)
  PROVE  CallsOK'
BY DEF CallsOK, Fit, CallType, Moves, In

LEMMA KindsKeepCalls == ASSUME RoutingInv, Kinds PROVE CallsOK' /\ StatsOK'
<1>1. ASSUME NEW c \in Calls, NEW q, Fit(q), Moves(c, q) PROVE CallsOK'
  BY <1>1, MovesKeep DEF RoutingInv
<1>2. ASSUME NEW c \in Calls, Quiet(c) \/ Slips(c) PROVE CallsOK' /\ StatsOK'
  BY <1>1, <1>2 DEF Quiet, Slips, statsVars, RoutingInv, StatsOK
<1>3. inflight \in [Deployments -> Nat] /\ cooldown_left \in [Deployments -> 0 .. RetryAfter]
  BY DEF RoutingInv, StatsOK
<1>4. \A c \in Calls : call[c].at \in Deployments
  BY DEF RoutingInv, CallsOK
<1>5. ASSUME NEW c \in Calls, Joins(c) PROVE CallsOK' /\ StatsOK'
  <2>1. CallsOK'
    BY <1>1, <1>5 DEF Joins
  <2>2. StatsOK'
    BY <1>5, <1>3, <1>4 DEF Joins, StatsOK
  <2> QED BY <2>1, <2>2
<1>6. ASSUME NEW c \in Calls, Leaves(c) PROVE CallsOK' /\ StatsOK'
  <2>1. CallsOK'
    BY <1>1, <1>6 DEF Leaves
  <2>2. StatsOK'
    <3>1. \A d \in Deployments : Max2(0, inflight[d] - 1) \in Nat
      BY <1>3 DEF Max2
    <3> QED BY <1>6, <1>3, <1>4, <3>1 DEF Leaves, Leave, StatsOK
  <2> QED BY <2>1, <2>2
<1>7. CASE Idles
  BY <1>7 DEF Idles, RoutingInv, StatsOK, CallsOK, In
<1> QED BY <1>2, <1>5, <1>6, <1>7 DEF Kinds

LEMMA KindsKeepLeaks == ASSUME RoutingInv, Kinds PROVE LeaksBounded'
<1> SUFFICES ASSUME NEW d \in Deployments
             PROVE  inflight'[d] <= Cardinality(Running(d)') + MaxLeaked
  BY DEF LeaksBounded
<1> DEFINE m == Cardinality(Running(d))
           n == Cardinality(Running(d)')
<1>1. m \in Nat /\ MaxLeaked \in Nat
  BY RunningFinite, BreakerAssumption
<1>2. inflight[d] \in Nat /\ inflight[d] <= m + MaxLeaked
  BY DEF RoutingInv, StatsOK, LeaksBounded
<1>3. \A c \in Calls : \A q : Fit(q) /\ Moves(c, q) =>
         /\ n \in Nat
         /\ n = m + (IF Serving(q, d) THEN 1 ELSE 0) - (IF Serving(call[c], d) THEN 1 ELSE 0)
  BY RunningChanges DEF Moves, RoutingInv
<1>4. inflight \in [Deployments -> Nat]
  BY DEF RoutingInv, StatsOK
<1> HIDE DEF m, n
<1>5. ASSUME NEW c \in Calls, Quiet(c) PROVE inflight'[d] <= n + MaxLeaked
  <2>1. n = m /\ inflight' = inflight
    BY <1>1, <1>3, <1>5 DEF Quiet, statsVars
  <2> QED BY <1>2, <2>1
<1>6. ASSUME NEW c \in Calls, Joins(c) PROVE inflight'[d] <= n + MaxLeaked
  <2>1. n = m + (IF d = call[c].at THEN 1 ELSE 0)
    BY <1>1, <1>3, <1>6 DEF Joins
  <2>2. inflight'[d] = inflight[d] + (IF d = call[c].at THEN 1 ELSE 0)
    BY <1>2, <1>4, <1>6 DEF Joins
  <2> QED BY <1>1, <1>2, <2>1, <2>2
<1>7. ASSUME NEW c \in Calls, Leaves(c) PROVE inflight'[d] <= n + MaxLeaked
  <2>1. n = m - (IF d = call[c].at THEN 1 ELSE 0) /\ n \in Nat
    BY <1>1, <1>3, <1>7 DEF Leaves, Serving, In
  <2>2. inflight'[d] = IF d = call[c].at THEN Max2(0, inflight[d] - 1) ELSE inflight[d]
    BY <1>4, <1>7 DEF Leaves, Leave
  <2> QED BY <1>1, <1>2, <2>1, <2>2 DEF Max2
<1>8. ASSUME NEW c \in Calls, Slips(c) PROVE inflight'[d] <= n + MaxLeaked
  <2>1. inflight' = inflight /\ inflight[call[c].at] <= MaxLeaked
    BY <1>8 DEF Slips, statsVars
  <2>2. n \in Nat /\ (d = call[c].at \/ n >= m)
    BY <1>1, <1>3, <1>8 DEF Slips, Serving, In
  <2> QED BY <1>1, <1>2, <2>1, <2>2
<1>9. ASSUME Idles PROVE inflight'[d] <= n + MaxLeaked
  <2>1. n = m /\ inflight' = inflight
    BY <1>9 DEF Idles, m, n, Running, In
  <2> QED BY <1>2, <2>1
<1>10. inflight'[d] <= n + MaxLeaked
  BY <1>5, <1>6, <1>7, <1>8, <1>9 DEF Kinds
<1> QED BY <1>10 DEF n

LEMMA NobodyRunsFirst ==
  ASSUME Init, NEW d
  PROVE  Running(d) = {} /\ Cardinality(Running(d)) = 0
<1>1. Running(d) = {}
  BY NewCallFits DEF Init, Running, In
<1> QED BY <1>1, FS_EmptySet

LEMMA InitHolds == Init => RoutingInv
<1> SUFFICES ASSUME Init PROVE RoutingInv
  OBVIOUS
<1> USE BreakerBounds
<1>1. BreakersInv
  BY DEF Init, BreakersInv, BreakersOK, Evidence
<1>2. CallsOK
  BY NewCallFits DEF Init, CallsOK, In, Fit, CallType
<1>3. StatsOK
  BY DEF Init, StatsOK
<1>4. LeaksBounded
  BY NobodyRunsFirst DEF Init, LeaksBounded
<1> QED BY <1>1, <1>2, <1>3, <1>4 DEF RoutingInv

LEMMA RoutingStep == RoutingInv /\ [Next]_vars => RoutingInv' /\ BreakersMove /\ Kinds
BY StepKinds, KindsKeepCalls, KindsKeepLeaks DEF RoutingInv

(***************************************************************************)
(* Theorems                                                                *)
(***************************************************************************)
(* No breaker counts more probes than half_open_probes or keeps more        *)
(* results than its window, however calls end and however late, and no      *)
(* deployment counts more calls than there are, but for those that leaked.  *)
THEOREM RoutingTypeCorrect == Spec => []RoutingTypeOK
<1>1. RoutingInv => RoutingTypeOK
  <2> SUFFICES ASSUME RoutingInv PROVE RoutingTypeOK
    OBVIOUS
  <2>1. inflight \in [Deployments -> 0 .. Cardinality(Calls) + MaxLeaked]
    <3>1. \A d \in Deployments : /\ Cardinality(Running(d)) \in Nat
                                 /\ Cardinality(Running(d)) <= Cardinality(Calls)
      BY RunningFinite
    <3>2. Cardinality(Calls) \in Nat /\ MaxLeaked \in Nat
      BY LadderAssumption, FS_CardinalityType, BreakerAssumption
    <3>3. \A d \in Deployments : inflight[d] \in 0 .. Cardinality(Calls) + MaxLeaked
      BY <3>1, <3>2 DEF RoutingInv, StatsOK, LeaksBounded
    <3> QED BY <3>3 DEF RoutingInv, StatsOK
  <2> QED BY <2>1 DEF RoutingInv, BreakersInv, BreakersOK, CallsOK, StatsOK, RoutingTypeOK
<1> QED BY <1>1, InitHolds, RoutingStep, PTL DEF Spec

(* Late failures do not put off the recovery of an open breaker.            *)
THEOREM OpenOnTime == Spec => OpenNotExtended
<1>1. RoutingInv /\ [Next]_vars =>
         [\A d \in Deployments : state[d] = "open" /\ state'[d] = "open"
                                    => open_left'[d] <= open_left[d]]_vars
  BY RoutingStep DEF BreakersMove, KeepsOpen
<1> QED BY <1>1, InitHolds, RoutingStep, PTL DEF Spec, OpenNotExtended

(* A breaker that has closed opens again only on min_samples results of     *)
(* since then, whatever calls from before report.                           *)
THEOREM OpensOnEvidence == Spec => FreshEvidence
<1>1. RoutingInv /\ [Next]_vars =>
         [\A d \in Deployments : state[d] = "closed" /\ state'[d] = "open"
                                    => fresh'[d] >= MinSamples]_vars
  BY RoutingStep DEF BreakersMove, OpensFresh
<1> QED BY <1>1, InitHolds, RoutingStep, PTL DEF Spec, FreshEvidence

(* The inflight of each deployment is the number of calls it serves, as     *)
(* long as no handler is cancelled and no hedge wins: rate limits and       *)
(* aborts count back.                                                       *)
THEOREM InflightCounts ==
  ASSUME Outcomes \cap {"cancel", "hedge"} = {}
  PROVE  Spec => []InflightExact
<1>1. Init => InflightExact
  BY NobodyRunsFirst DEF Init, InflightExact
<1>2. RoutingInv /\ InflightExact /\ Kinds => InflightExact'
  <2> SUFFICES ASSUME RoutingInv, InflightExact, Kinds, NEW d \in Deployments
               PROVE  inflight'[d] = Cardinality(Running(d)')
    BY DEF InflightExact
  <2> DEFINE m == Cardinality(Running(d))
             n == Cardinality(Running(d)')
  <2>1. m \in Nat /\ inflight[d] = m
    BY RunningFinite DEF InflightExact
  <2>2. \A c \in Calls : \A q : Fit(q) /\ Moves(c, q) =>
           /\ n = m + (IF Serving(q, d) THEN 1 ELSE 0)
                    - (IF Serving(call[c], d) THEN 1 ELSE 0)
           /\ Serving(call[c], d) => m > 0
    BY RunningChanges DEF Moves, RoutingInv
  <2>3. inflight \in [Deployments -> Nat]
    BY DEF RoutingInv, StatsOK
  <2> HIDE DEF m, n
  <2>4. ASSUME NEW c \in Calls, Quiet(c) PROVE inflight'[d] = n
    BY <2>1, <2>2, <2>4 DEF Quiet, statsVars
  <2>5. ASSUME NEW c \in Calls, Joins(c) PROVE inflight'[d] = n
    BY <2>1, <2>2, <2>3, <2>5 DEF Joins
  <2>6. ASSUME NEW c \in Calls, Leaves(c) PROVE inflight'[d] = n
    <3>1. n = m - (IF d = call[c].at THEN 1 ELSE 0) /\ (d = call[c].at => m > 0)
      BY <2>1, <2>2, <2>6 DEF Leaves, Serving, In
    <3> QED BY <2>1, <2>3, <2>6, <3>1 DEF Leaves, Leave, Max2
  <2>7. ASSUME Idles PROVE inflight'[d] = n
    BY <2>1, <2>7 DEF Idles, m, n, Running, In
  <2>8. inflight'[d] = n
    BY <2>4, <2>5, <2>6, <2>7 DEF Kinds
  <2> QED BY <2>8 DEF n
<1> QED BY <1>1, <1>2, InitHolds, RoutingStep, PTL DEF Spec

(* No call is served that its deployment does not count: a handler that is  *)
(* cancelled leaves inflight too high, and nothing but a hedge that wins    *)
(* makes it too low for the selector.                                       *)
InflightCovers == \A d \in Deployments : Cardinality(Running(d)) <= inflight[d]

(* Whatever is cancelled, no deployment serves more calls than it counts. *)
THEOREM CancelsCountUp ==
  ASSUME "hedge" \notin Outcomes
  PROVE  Spec => []InflightCovers
<1>1. Init => InflightCovers
  BY NobodyRunsFirst DEF Init, InflightCovers
<1>2. RoutingInv /\ InflightCovers /\ Kinds => InflightCovers'
  <2> SUFFICES ASSUME RoutingInv, InflightCovers, Kinds, NEW d \in Deployments
               PROVE  Cardinality(Running(d)') <= inflight'[d]
    BY DEF InflightCovers
  <2> DEFINE m == Cardinality(Running(d))
             n == Cardinality(Running(d)')
  <2>1. m \in Nat /\ m <= inflight[d]
    BY RunningFinite DEF InflightCovers
  <2>2. \A c \in Calls : \A q : Fit(q) /\ Moves(c, q) =>
           /\ n \in Nat
           /\ n = m + (IF Serving(q, d) THEN 1 ELSE 0)
                    - (IF Serving(call[c], d) THEN 1 ELSE 0)
           /\ Serving(call[c], d) => m > 0
    BY RunningChanges DEF Moves, RoutingInv
  <2>3. inflight \in [Deployments -> Nat]
    BY DEF RoutingInv, StatsOK
  <2> HIDE DEF m, n
  <2>4. ASSUME NEW c \in Calls, Quiet(c) \/ Slips(c) PROVE n <= inflight'[d]
    <3>1. n <= m /\ n \in Nat /\ inflight' = inflight
      BY <2>1, <2>2, <2>4 DEF Quiet, Slips, statsVars
    <3> QED BY <2>1, <2>3, <3>1
  <2>5. ASSUME NEW c \in Calls, Joins(c) PROVE n <= inflight'[d]
    BY <2>1, <2>2, <2>3, <2>5 DEF Joins
  <2>6. ASSUME NEW c \in Calls, Leaves(c) PROVE n <= inflight'[d]
    <3>1. n = m - (IF d = call[c].at THEN 1 ELSE 0) /\ (d = call[c].at => m > 0)
      BY <2>1, <2>2, <2>6 DEF Leaves, Serving, In
    <3> QED BY <2>1, <2>3, <2>6, <3>1 DEF Leaves, Leave, Max2
  <2>7. ASSUME Idles PROVE n <= inflight'[d]
    BY <2>1, <2>7 DEF Idles, m, n, Running, In
  <2>8. n <= inflight'[d]
    BY <2>4, <2>5, <2>6, <2>7 DEF Kinds
  <2> QED BY <2>8 DEF n
<1> QED BY <1>1, <1>2, InitHolds, RoutingStep, PTL DEF Spec

(* Every probe counted belongs to a call that will record a result, for any *)
(* number of probes, calls and openings, as long as calls end in success or *)
(* in a recorded failure.                                                   *)
THEOREM ProbesComeBack ==
  ASSUME Outcomes \cap {"limited", "abort", "cancel", "hedge"} = {}
  PROVE  Spec => []ProbesReleased
<1>1. Init => ProbesReleased
  BY NobodyRunsFirst DEF Init, ProbesReleased
<1>2. RoutingInv /\ ProbesReleased /\ Kinds /\ BreakersInv' => ProbesReleased'
  <2> SUFFICES ASSUME RoutingInv, ProbesReleased, Kinds, BreakersInv', NEW d \in Deployments
               PROVE  half_open_inflight'[d] <= Cardinality(Running(d)')
    BY DEF ProbesReleased
  <2> DEFINE m == Cardinality(Running(d))
             n == Cardinality(Running(d)')
  <2>1. m \in Nat /\ half_open_inflight[d] <= m
    BY RunningFinite DEF ProbesReleased
  <2>2. half_open_inflight[d] \in Nat
    BY BreakerBounds DEF RoutingInv, BreakersInv, BreakersOK
  <2>3. half_open_inflight'[d] \in Nat
    BY BreakerBounds DEF BreakersInv, BreakersOK
  <2>4. \A c \in Calls : \A q : Fit(q) /\ Moves(c, q) =>
           /\ n \in Nat
           /\ n = m + (IF Serving(q, d) THEN 1 ELSE 0)
                    - (IF Serving(call[c], d) THEN 1 ELSE 0)
    BY RunningChanges DEF Moves, RoutingInv
  <2> DEFINE grown == half_open_inflight'[d]
             before == half_open_inflight[d]
  <2> HIDE DEF m, n, grown, before
  <2>5. ASSUME NEW c \in Calls, Quiet(c), ProbesGrow({}) PROVE grown <= n
    <3>1. n = m
      BY <2>1, <2>4, <2>5 DEF Quiet
    <3>2. grown <= before
      BY <2>2, <2>3, <2>5 DEF ProbesGrow, grown, before
    <3> QED BY <2>1, <2>2, <2>3, <3>1, <3>2 DEF grown, before
  <2>6. ASSUME NEW c \in Calls, Joins(c), ProbesGrow({call[c].at}) PROVE grown <= n
    <3>1. n = m + (IF d = call[c].at THEN 1 ELSE 0)
      BY <2>1, <2>4, <2>6 DEF Joins
    <3>2. grown <= before + (IF d = call[c].at THEN 1 ELSE 0)
      BY <2>6 DEF ProbesGrow, grown, before
    <3> QED BY <2>1, <2>2, <2>3, <3>1, <3>2 DEF grown, before
  <2>7. ASSUME NEW c \in Calls, Leaves(c), ProbesShrink(call[c].at) PROVE grown <= n
    <3>1. n = m - (IF d = call[c].at THEN 1 ELSE 0) /\ n \in Nat
      BY <2>1, <2>4, <2>7 DEF Leaves, Serving, In
    <3>2. grown <= before /\ (d = call[c].at => grown = 0 \/ grown < before)
      BY <2>2, <2>3, <2>7 DEF ProbesShrink, ProbesGrow, grown, before
    <3> QED BY <2>1, <2>2, <2>3, <3>1, <3>2 DEF grown, before
  <2>8. ASSUME Idles, ProbesGrow({}) PROVE grown <= n
    <3>1. n = m
      BY <2>8 DEF Idles, m, n, Running, In
    <3>2. grown <= before
      BY <2>2, <2>3, <2>8 DEF ProbesGrow, grown, before
    <3> QED BY <2>1, <2>2, <2>3, <3>1, <3>2 DEF grown, before
  <2>9. grown <= n
    BY <2>5, <2>6, <2>7, <2>8 DEF Kinds
  <2> QED BY <2>9 DEF grown, n
<1>3. RoutingInv' => BreakersInv'
  BY DEF RoutingInv
<1> QED BY <1>1, <1>2, <1>3, InitHolds, RoutingStep, PTL DEF Spec

(***************************************************************************)
(* Each breaker alone                                                      *)
(***************************************************************************)
GuardStays(d) ==
    /\ state'[d] = state[d] /\ open_left'[d] = open_left[d]
    /\ half_open_inflight'[d] = half_open_inflight[d]
    /\ half_open_successes'[d] = half_open_successes[d]
    /\ fresh'[d] = fresh[d] /\ inflight'[d] = inflight[d]

GuardMoves(d) == Guard(d)!GuardNext \/ GuardStays(d)

LEMMA RefreshGuard ==
  ASSUME BreakersInv, NEW D, Refresh(D), UNCHANGED inflight, NEW d \in Deployments
  PROVE  GuardMoves(d)
BY DEF BreakersInv, BreakersOK, Refresh, Expired, GuardMoves, GuardStays, Guard!GuardNext,
       Guard!Wakes, Guard!Ready

LEMMA AllowGuard ==
  ASSUME RoutingInv, NEW e \in Deployments, Allow(e),
         inflight' = [inflight EXCEPT ![e] = @ + 1], NEW d \in Deployments
  PROVE  GuardMoves(d)
<1>1. BreakersOK /\ inflight \in [Deployments -> Nat]
  BY DEF RoutingInv, BreakersInv, StatsOK
<1>2. CASE d = e
  <2>1. Guard(d)!Admits
    BY <1>1, <1>2
       DEF BreakersOK, Allow, CanTry, HalfOpen, Expired, Guard!Admits, Guard!Ready
  <2> QED BY <2>1 DEF GuardMoves, Guard!GuardNext
<1>3. CASE d # e
  BY <1>1, <1>3 DEF BreakersOK, Allow, GuardMoves, GuardStays
<1> QED BY <1>2, <1>3

(* A result or none is recorded of a call that is counted back. *)
LEMMA ReturnGuard ==
  ASSUME RoutingInv, BreakersMove, BreakersInv', NEW e \in Deployments, Leave(e),
         UNCHANGED breakerVars \/ \E s \in BOOLEAN : Record(e, s), NEW d \in Deployments
  PROVE  GuardMoves(d)
<1>1. BreakersOK /\ inflight \in [Deployments -> Nat]
  BY DEF RoutingInv, BreakersInv, StatsOK
<1>2. CASE d # e
  BY <1>1, <1>2
     DEF BreakersOK, breakerVars, Leave, Record, RecordProbe, RecordResult, Open, Close,
         GuardMoves, GuardStays
<1>3. CASE d = e
  <2>1. inflight'[d] = IF inflight[d] = 0 THEN 0 ELSE inflight[d] - 1
    BY <1>1, <1>3 DEF Leave, Max2
  <2>2. CASE UNCHANGED breakerVars
    <3>1. Guard(d)!Forgets
      BY <2>2 DEF breakerVars, Guard!Forgets
    <3> QED BY <2>1, <3>1 DEF GuardMoves, Guard!GuardNext, Guard!Returns
  <2>3. ASSUME NEW s \in BOOLEAN, RecordProbe(e, s) PROVE GuardMoves(d)
    <3>1. CASE Open(e) /\ UNCHANGED <<window, fresh>>
      <4>1. Guard(d)!Sinks
        BY <1>1, <1>3, <2>3, <3>1, BreakerTyped
           DEF BreakersInv, BreakersOK, RecordProbe, Open, Guard!Sinks, Guard!Opens
      <4> QED BY <2>1, <4>1 DEF GuardMoves, Guard!GuardNext, Guard!Returns
    <3>2. CASE half_open_successes[e] + 1 >= HalfOpenProbes /\ Close(e)
      <4>1. half_open_successes[e] + 1 = HalfOpenProbes
        BY <3>2, BreakerTyped, BreakerBounds DEF RoutingInv
      <4>2. Guard(d)!Recovers
        BY <1>1, <1>3, <2>3, <3>2, <4>1
           DEF BreakersOK, RecordProbe, Close, Guard!Recovers
      <4> QED BY <2>1, <4>2 DEF GuardMoves, Guard!GuardNext, Guard!Returns
    <3>3. CASE /\ half_open_successes[e] + 1 < HalfOpenProbes
               /\ half_open_inflight' = [half_open_inflight EXCEPT ![e] = Max2(0, @ - 1)]
               /\ half_open_successes' = [half_open_successes EXCEPT ![e] = @ + 1]
               /\ UNCHANGED <<state, window, open_count, open_left, fresh>>
      <4>1. half_open_inflight[e] \in Nat
        BY BreakerTyped, BreakerBounds DEF RoutingInv
      <4>2. Guard(d)!Wins
        BY <1>1, <1>3, <2>3, <3>3, <4>1 DEF BreakersOK, RecordProbe, Max2, Guard!Wins
      <4> QED BY <2>1, <4>2 DEF GuardMoves, Guard!GuardNext, Guard!Returns
    <3>4. half_open_successes[e] \in Int /\ HalfOpenProbes \in Int
      BY BreakerTyped, BreakerBounds DEF RoutingInv
    <3> QED BY <2>3, <3>1, <3>2, <3>3, <3>4 DEF RecordProbe
  <2>4. ASSUME NEW s \in BOOLEAN, RecordResult(e, s) PROVE GuardMoves(d)
    <3>1. fresh'[d] = IF fresh[d] = MinSamples THEN fresh[d] ELSE fresh[d] + 1
      <4>1. fresh[d] \in 0 .. MinSamples /\ fresh \in [Deployments -> 0 .. MinSamples]
        BY <1>1 DEF BreakersOK
      <4>2. fresh'[d] = Min2(MinSamples, fresh[d] + 1)
        BY <1>3, <2>4, <4>1 DEF RecordResult
      <4> QED BY <4>1, <4>2, BreakerBounds DEF Min2
    <3>2. CASE state[e] = "closed" /\ Open(e)
      <4>1. fresh'[d] = MinSamples
        BY <1>1, <1>3, <3>2, BreakerBounds
           DEF BreakersMove, OpensFresh, BreakersInv, BreakersOK, Open
      <4>2. Guard(d)!Trips
        BY <1>1, <1>3, <3>2, <4>1
           DEF BreakersInv, BreakersOK, Open, Guard!Trips, Guard!Opens
      <4> QED BY <2>1, <4>2 DEF GuardMoves, Guard!GuardNext, Guard!Returns
    <3>3. CASE UNCHANGED <<state, open_count, open_left, half_open_inflight, half_open_successes>>
      <4>1. Guard(d)!Notes
        BY <1>3, <2>4, <3>1, <3>3 DEF RecordResult, Guard!Notes
      <4> QED BY <2>1, <4>1 DEF GuardMoves, Guard!GuardNext, Guard!Returns
    <3> QED BY <2>4, <3>2, <3>3 DEF RecordResult
  <2> QED BY <2>2, <2>3, <2>4 DEF Record
<1> QED BY <1>2, <1>3

LEMMA TickGuard == ASSUME RoutingInv, Tick, NEW d \in Deployments PROVE GuardMoves(d)
<1>1. open_left[d] \in Nat
  BY BreakerTyped, BreakerBounds DEF RoutingInv
<1>2. CASE open_left[d] > 0
  BY <1>1, <1>2 DEF Tick, Max2, GuardMoves, Guard!GuardNext, Guard!Ages
<1>3. CASE open_left[d] = 0
  BY <1>1, <1>3 DEF Tick, Max2, GuardMoves, GuardStays
<1> QED BY <1>1, <1>2, <1>3

LEMMA GuardStep == ASSUME RoutingInv, [Next]_vars, NEW d \in Deployments PROVE GuardMoves(d)
<1>1. BreakersInv' /\ BreakersMove /\ BreakersInv
  BY StepKinds DEF RoutingInv
<1>2. \A c \in Calls : call[c].at \in Deployments
  BY DEF RoutingInv, CallsOK
<1>3. ASSUME UNCHANGED <<breakerVars, inflight>> PROVE GuardMoves(d)
  BY <1>3 DEF breakerVars, GuardMoves, GuardStays
<1>4. ASSUME NEW c \in Calls, Routed(c) \/ Hedge(c) PROVE GuardMoves(d)
  BY <1>1, <1>2, <1>3, <1>4, RefreshGuard, AllowGuard
     DEF Routed, Pick, PickNothing, Start, StartRefused, Hedge, statsVars
<1>5. ASSUME NEW c \in Calls, Succeed(c) \/ Fail(c) \/ RateLimited(c) \/ Abort(c)
      PROVE  GuardMoves(d)
  BY <1>1, <1>2, <1>5, ReturnGuard
     DEF Succeed, Fail, RateLimited, Abort, RecordFinish, RecordRateLimit, RecordAbort
<1>6. ASSUME NEW c \in Calls, Cancel(c) \/ TurnAway(c) \/ HedgeWins(c) PROVE GuardMoves(d)
  BY <1>3, <1>6 DEF Cancel, TurnAway, HedgeWins, statsVars
<1>7. CASE (\E e \in Deployments : Heal(e)) \/ UNCHANGED vars
  BY <1>3, <1>7 DEF Heal, vars, statsVars
<1> QED BY <1>4, <1>5, <1>6, <1>7, TickGuard DEF Next, Ended

(* Each breaker, whatever the requests do that pick, hedge, fail late or    *)
(* are cancelled, is a circuit breaker: it lets nothing through while it is *)
(* open, no more than half_open_probes at a time while it is half open, and *)
(* closes only on as many successes without a failure between.              *)
THEOREM BreakersGuard ==
  ASSUME NEW d \in Deployments
  PROVE  Spec => Guard(d)!GuardSpec
<1>1. Init => Guard(d)!GuardInit
  BY DEF Init, Guard!GuardInit
<1>2. RoutingInv /\ [Next]_vars => [Guard(d)!GuardNext]_(Guard(d)!guardVars)
  BY GuardStep DEF GuardMoves, GuardStays, Guard!guardVars
<1> QED BY <1>1, <1>2, InitHolds, RoutingStep, PTL DEF Spec, Guard!GuardSpec
=============================================================================
