---------------------------- MODULE QuotaScripts ----------------------------
(***************************************************************************)
(* The quota keys one tenant has in Redis, and the three Lua scripts that  *)
(* are the only code to write them: lua/check_and_reserve.lua,             *)
(* lua/settle.lua and lua/sweep.lua.  Redis runs a script atomically, so   *)
(* each is one action here.                                                *)
(*                                                                         *)
(* Next lets any caller run any script with any request id, month and      *)
(* clock at any time; module QuotaService says which calls the gateway     *)
(* makes.  What is proved here therefore holds whatever the gateway does.  *)
(*                                                                         *)
(* Abstractions: amounts are small integers instead of tokens and          *)
(* micro-dollars; rates are tokens per clock tick; which dimension a       *)
(* denial names and its retry_after are left out; the 40-day expiry of a   *)
(* budget key (no script runs for that long) is left out.                  *)
(***************************************************************************)
EXTENDS Integers, FiniteSets, Totals

CONSTANTS
    Requests,     \* request ids, ULIDs made by RequestIDMiddleware
    Months,       \* budget months; a month is the suffix of its budget key
    Plans,        \* quota plans, as a config snapshot may hold them
    Estimates,    \* what a reservation may cost
    Usages,       \* what a call may turn out to have cost
    Ttl,          \* sweeper.reservation_ttl_s
    BatchLimit,   \* sweeper.batch_limit
    MaxTime,      \* bound on the clock
    MaxSkew       \* how far behind the latest clock a caller's now_ms may be

ASSUME MonthsAssumption == Requests # {} /\ Months # {} /\ IsFiniteSet(Requests)

ASSUME PlansAssumption ==
    /\ Plans # {}
    /\ \A p \in Plans : /\ p.rpm_cap \in Nat \ {0} /\ p.rpm_rate \in Nat
                        /\ p.tpm_cap \in Nat \ {0} /\ p.tpm_rate \in Nat
                        /\ p.conc_cap \in Nat /\ p.budget_init \in Nat

ASSUME AmountsAssumption ==
    /\ \A e \in Estimates : e.tpm \in Nat /\ e.budget \in Nat
    /\ \A u \in Usages : u.tpm \in Nat /\ u.budget \in Nat

ASSUME BoundsAssumption ==
    Ttl \in Nat /\ BatchLimit \in Nat \ {0} /\ MaxTime \in Nat /\ MaxSkew \in Nat

VARIABLES
    rpm,          \* hash rpm_key: tokens, ts_ms, cap
    tpm,          \* hash tpm_key
    conc,         \* counter conc_key
    opened,       \* the months whose budget key exists
    budget,       \* counter budget_key of each month, 0 before it exists
    resv_zset,    \* reservation deadlines, request id -> deadline
    resv_hash,    \* reservation data, request id -> tpm_est, budget_est, month
    now           \* the latest of the gateways' clocks

(* History of the keys, which no script reads. *)
VARIABLES
    granted,      \* what each month's budget key was created with
    charged,      \* what settlements charged to each month
    admitted,     \* number of reservations made
    tpm_spent     \* tokens taken from the tpm bucket and not given back

keys == <<rpm, tpm, conc, opened, budget, resv_zset, resv_hash>>
history == <<granted, charged, admitted, tpm_spent>>
scriptVars == <<keys, now, history>>

(***************************************************************************)
(* Helpers.  Here and below, an operator that is called a defect is never  *)
(* part of the specification: it is a bug the checks must notice when it   *)
(* takes the place of the definition that follows it.                      *)
(***************************************************************************)
Min2(a, b) == IF a <= b THEN a ELSE b
Max2(a, b) == IF a >= b THEN a ELSE b

(* A bucket whose hash does not exist: caps are positive, so cap 0 says so. *)
NoBucket == [tokens |-> 0, ts_ms |-> 0, cap |-> 0]

(* Defect: a refill that leaves ts_ms, and counts the time again. *)
RefilledAgain(b, rate, cap, t) ==
    [tokens |-> IF b = NoBucket THEN cap
                ELSE Min2(cap, b.tokens + Max2(0, t - b.ts_ms) * rate),
     ts_ms |-> b.ts_ms,
     cap |-> cap]

Refilled(b, rate, cap, t) ==
    [tokens |-> IF b = NoBucket THEN cap
                ELSE Min2(cap, b.tokens + Max2(0, t - b.ts_ms) * rate),
     ts_ms |-> t,
     cap |-> cap]

(* Defect: a refund over the cap. *)
ReturnedOver(b, n) == [b EXCEPT !.tokens = @ + n]

(* tpm_next of settle and sweep: capped at the cap of the last refill. *)
Returned(b, n) ==
    [b EXCEPT !.tokens = IF b.cap > 0 THEN Min2(b.cap, b.tokens + n) ELSE b.tokens + n]

Drawn(b, n) == [b EXCEPT !.tokens = @ - n]

NoEntries == [r \in {} |-> 0]

(* HDEL and ZREM. *)
Without(f, S) == [r \in DOMAIN f \ S |-> f[r]]

(* HSET and ZADD: a new entry, or the same request id's old one replaced. *)
WithEntry(f, r, v) == [q \in DOMAIN f \cup {r} |-> IF q = r THEN v ELSE f[q]]

TpmEst(h) == [r \in DOMAIN h |-> h[r].tpm_est]
BudgetEst(h) == [r \in DOMAIN h |-> h[r].budget_est]
OfMonth(h, S, m) == {r \in S : h[r].month = m}

(* The estimates of month m that reservations still hold. *)
HeldBudget(m) == Total(BudgetEst(resv_hash), OfMonth(resv_hash, DOMAIN resv_hash, m))

Clocks == {t \in 0 .. now : now - t <= MaxSkew}

(***************************************************************************)
(* check_and_reserve.lua                                                   *)
(***************************************************************************)
RpmAt(p, t) == Refilled(rpm, p.rpm_rate, p.rpm_cap, t)
TpmAt(p, t) == Refilled(tpm, p.tpm_rate, p.tpm_cap, t)

(* Defect: SET instead of SETNX. *)
BudgetReset(p, m) == p.budget_init

(* The budget after SETNX. *)
BudgetAt(p, m) == IF m \in opened THEN budget[m] ELSE p.budget_init

(* Defect: one stream too many. *)
FitsOneMore(p, e, m, t) ==
    /\ RpmAt(p, t).tokens >= 1
    /\ TpmAt(p, t).tokens >= e.tpm
    /\ conc <= p.conc_cap
    /\ BudgetAt(p, m) >= e.budget

Fits(p, e, m, t) ==
    /\ RpmAt(p, t).tokens >= 1
    /\ TpmAt(p, t).tokens >= e.tpm
    /\ conc < p.conc_cap
    /\ BudgetAt(p, m) >= e.budget

OpenMonth(p, m) ==
    /\ opened' = opened \cup {m}
    /\ granted' = [granted EXCEPT ![m] = IF m \in opened THEN @ ELSE p.budget_init]

Admit(r, p, e, m, t) ==
    /\ Fits(p, e, m, t)
    /\ OpenMonth(p, m)
    /\ rpm' = Drawn(RpmAt(p, t), 1)
    /\ tpm' = Drawn(TpmAt(p, t), e.tpm)
    /\ conc' = conc + 1
    /\ budget' = [budget EXCEPT ![m] = BudgetAt(p, m) - e.budget]
    /\ resv_zset' = WithEntry(resv_zset, r, t + Ttl)
    /\ resv_hash' = WithEntry(resv_hash, r, [tpm_est |-> e.tpm, budget_est |-> e.budget,
                                             month |-> m])
    /\ admitted' = admitted + 1
    /\ tpm_spent' = tpm_spent + e.tpm
    /\ UNCHANGED <<now, charged>>

(* A denial still stores the refilled buckets and creates the budget key. *)
Deny(p, e, m, t) ==
    /\ ~Fits(p, e, m, t)
    /\ OpenMonth(p, m)
    /\ rpm' = RpmAt(p, t)
    /\ tpm' = TpmAt(p, t)
    /\ budget' = [budget EXCEPT ![m] = BudgetAt(p, m)]
    /\ UNCHANGED <<conc, resv_zset, resv_hash, now, charged, admitted, tpm_spent>>

(***************************************************************************)
(* settle.lua                                                              *)
(***************************************************************************)
(* Defect: the permit is not given back. *)
SettleKeepsPermit(r, u) ==
    /\ r \in DOMAIN resv_hash
    /\ LET data == resv_hash[r] IN
       /\ tpm' = Returned(tpm, data.tpm_est - u.tpm)
       /\ budget' = [budget EXCEPT ![data.month] = @ + data.budget_est - u.budget]
       /\ charged' = [charged EXCEPT ![data.month] = @ + u.budget]
       /\ tpm_spent' = tpm_spent - (data.tpm_est - u.tpm)
    /\ resv_zset' = Without(resv_zset, {r})
    /\ resv_hash' = Without(resv_hash, {r})
    /\ UNCHANGED <<rpm, conc, opened, now, granted, admitted>>

(* Defect: a call that costs more than estimated is not charged the difference. *)
SettleNoSurcharge(r, u) ==
    /\ r \in DOMAIN resv_hash
    /\ LET data == resv_hash[r] IN
       /\ tpm' = Returned(tpm, data.tpm_est - u.tpm)
       /\ budget' = [budget EXCEPT ![data.month] = @ + Max2(0, data.budget_est - u.budget)]
       /\ charged' = [charged EXCEPT ![data.month] = @ + u.budget]
       /\ tpm_spent' = tpm_spent - (data.tpm_est - u.tpm)
    /\ conc' = Max2(0, conc - 1)
    /\ resv_zset' = Without(resv_zset, {r})
    /\ resv_hash' = Without(resv_hash, {r})
    /\ UNCHANGED <<rpm, opened, now, granted, admitted>>

Settle(r, u) ==
    /\ r \in DOMAIN resv_hash
    /\ LET data == resv_hash[r] IN
       /\ tpm' = Returned(tpm, data.tpm_est - u.tpm)
       /\ budget' = [budget EXCEPT ![data.month] = @ + data.budget_est - u.budget]
       /\ charged' = [charged EXCEPT ![data.month] = @ + u.budget]
       /\ tpm_spent' = tpm_spent - (data.tpm_est - u.tpm)
    /\ conc' = Max2(0, conc - 1)
    /\ resv_zset' = Without(resv_zset, {r})
    /\ resv_hash' = Without(resv_hash, {r})
    /\ UNCHANGED <<rpm, opened, now, granted, admitted>>

(* The reservation is gone: the script returns {0} and writes nothing. *)
SettleMissing(r) == r \notin DOMAIN resv_hash /\ UNCHANGED scriptVars

(***************************************************************************)
(* sweep.lua                                                               *)
(***************************************************************************)
(* Defect: a deadline one tick early. *)
DueEarly(t) == {r \in DOMAIN resv_zset : resv_zset[r] <= t + 1}

Due(t) == {r \in DOMAIN resv_zset : resv_zset[r] <= t}

(* ZRANGEBYSCORE -inf t LIMIT 0 BatchLimit: the earliest deadlines first. *)
Batches(t) ==
    {B \in SUBSET Due(t) :
        /\ Cardinality(B) = Min2(BatchLimit, Cardinality(Due(t)))
        /\ \A r \in B, q \in Due(t) \ B : resv_zset[r] <= resv_zset[q]}

(* Defect: ZREM without HDEL. *)
SweepLeavesData(B) ==
    LET live == B \cap DOMAIN resv_hash
        refund == Total(TpmEst(resv_hash), live)
    IN /\ tpm' = Returned(tpm, refund)
       /\ budget' = [m \in Months |->
                        budget[m] + Total(BudgetEst(resv_hash), OfMonth(resv_hash, live, m))]
       /\ conc' = Max2(0, conc - Cardinality(live))
       /\ resv_zset' = Without(resv_zset, B)
       /\ tpm_spent' = tpm_spent - refund
       /\ UNCHANGED <<rpm, resv_hash, opened, now, granted, charged, admitted>>

(* Defect: no refund of the budget. *)
SweepKeepsBudget(B) ==
    LET live == B \cap DOMAIN resv_hash
        refund == Total(TpmEst(resv_hash), live)
    IN /\ tpm' = Returned(tpm, refund)
       /\ conc' = Max2(0, conc - Cardinality(live))
       /\ resv_zset' = Without(resv_zset, B)
       /\ resv_hash' = Without(resv_hash, B)
       /\ tpm_spent' = tpm_spent - refund
       /\ UNCHANGED <<rpm, budget, opened, now, granted, charged, admitted>>

Sweep(B) ==
    LET live == B \cap DOMAIN resv_hash
        refund == Total(TpmEst(resv_hash), live)
    IN /\ tpm' = Returned(tpm, refund)
       /\ budget' = [m \in Months |->
                        budget[m] + Total(BudgetEst(resv_hash), OfMonth(resv_hash, live, m))]
       /\ conc' = Max2(0, conc - Cardinality(live))
       /\ resv_zset' = Without(resv_zset, B)
       /\ resv_hash' = Without(resv_hash, B)
       /\ tpm_spent' = tpm_spent - refund
       /\ UNCHANGED <<rpm, opened, now, granted, charged, admitted>>

(***************************************************************************)
(* Time, and the specification.                                            *)
(***************************************************************************)
Tick == now < MaxTime /\ now' = now + 1 /\ UNCHANGED <<keys, history>>

ScriptInit ==
    /\ rpm = NoBucket /\ tpm = NoBucket
    /\ conc = 0
    /\ opened = {} /\ budget = [m \in Months |-> 0]
    /\ resv_zset = NoEntries /\ resv_hash = NoEntries
    /\ now = 0
    /\ granted = [m \in Months |-> 0] /\ charged = [m \in Months |-> 0]
    /\ admitted = 0 /\ tpm_spent = 0

ScriptNext ==
    \/ \E r \in Requests, p \in Plans, e \in Estimates, m \in Months, t \in Clocks :
          Admit(r, p, e, m, t)
    \/ \E p \in Plans, e \in Estimates, m \in Months, t \in Clocks : Deny(p, e, m, t)
    \/ \E r \in Requests, u \in Usages : Settle(r, u)
    \/ \E t \in Clocks : \E B \in Batches(t) : B # {} /\ Sweep(B)
    \/ Tick

ScriptSpec == ScriptInit /\ [][ScriptNext]_scriptVars

(***************************************************************************)
(* What the keys promise whatever calls are made.                          *)
(***************************************************************************)
BucketType(b) == /\ b = [tokens |-> b.tokens, ts_ms |-> b.ts_ms, cap |-> b.cap]
                 /\ b.tokens \in Int /\ b.ts_ms \in Nat /\ b.cap \in Nat

Reservation == [tpm_est : Nat, budget_est : Nat, month : Months]

ReservationsType(zset, hash) ==
    /\ DOMAIN hash \subseteq Requests
    /\ DOMAIN zset = DOMAIN hash
    /\ hash \in [DOMAIN hash -> Reservation]
    /\ zset \in [DOMAIN hash -> Nat]

(* Type correctness.  The two reservation keys always hold the same request *)
(* ids, so every reservation has a deadline by which the sweeper finds it.  *)
TypeOK ==
    /\ BucketType(rpm) /\ BucketType(tpm)
    /\ conc \in Nat
    /\ opened \subseteq Months
    /\ budget \in [Months -> Int]
    /\ ReservationsType(resv_zset, resv_hash)
    /\ now \in Nat
    /\ granted \in [Months -> Nat] /\ charged \in [Months -> Nat]
    /\ admitted \in Nat /\ tpm_spent \in Int

(* conc_key never counts fewer streams than hold a reservation, so the      *)
(* tenant never has more reservations than concurrent_streams, and the      *)
(* max(0, conc - 1) of settle.lua and sweep.lua never hides an underflow,   *)
(* whatever ids are reserved twice, settled late or swept in batches.       *)
PermitsCoverHeld ==
    /\ Cardinality(DOMAIN resv_hash) <= conc
    /\ \E p \in Plans : conc <= p.conc_cap

(* No budget is made up: what a month's key holds, what reservations of     *)
(* that month still hold and what was charged to that month never exceed    *)
(* what the month was opened with, across settlements that cost more or     *)
(* less than estimated, sweeps, and settlements after the month is over.    *)
BudgetConserved ==
    \A m \in Months : budget[m] + HeldBudget(m) + charged[m] <= granted[m]

(* What BudgetConserved rests on: a budget key exists before anything is    *)
(* reserved in its month, and a key that does not exist holds nothing.      *)
MonthsOpened ==
    /\ \A r \in DOMAIN resv_hash : resv_hash[r].month \in opened
    /\ \A m \in Months \ opened : budget[m] = 0 /\ granted[m] = 0

(* Refunds never overfill the token bucket: a burst is at most tpm_cap.     *)
TpmWithinCap == tpm.tokens <= tpm.cap

(* The rate limits: from the first request on, at most a full bucket and    *)
(* the refill of the time that passed were admitted (rpm) and spent (tpm,   *)
(* net of refunds).  It needs clocks that never run behind one another      *)
(* (MaxSkew = 0): an older now_ms moves ts_ms back, and the next refill     *)
(* counts the same time twice.                                              *)
RateBounded ==
    /\ rpm.tokens >= 0
    /\ \E p, q \in Plans : rpm.tokens + admitted <= p.rpm_cap + q.rpm_rate * now
    /\ \E p, q \in Plans : tpm.tokens + tpm_spent <= p.tpm_cap + q.tpm_rate * now
=============================================================================
