---------------------------- MODULE QuotaService ----------------------------
(***************************************************************************)
(* The life of the gateway's requests against the quota scripts: reserve,  *)
(* run upstream, settle, with a Redis that may be slow, lose a call or     *)
(* lose the answer to a call it ran, and gateways that may die.            *)
(*                                                                         *)
(*   QuotaService.reserve, settle, _settle_with_retry, _reserve_fallback   *)
(*   _QuotaSettlement (at most one settlement per reservation)             *)
(*   _stream_with_retries: one reservation for all attempts of a stream    *)
(*   _call_non_stream_upstream: a failed attempt is settled, and the next  *)
(*     one reserves again, with the same request id                        *)
(*   sweep_loop                                                            *)
(*                                                                         *)
(* An awaited call whose caller gave up (asyncio.timeout, a connection     *)
(* error) stays in flight: Redis may still run it, at any later time.      *)
(***************************************************************************)
EXTENDS QuotaScripts

CONSTANTS
    Streams,       \* the requests with "stream": true
    MaxAttempts,   \* routing.max_attempts_before_first_byte
    FailModes,     \* the fail_mode values of the plans: "open", "closed"
    Faults,        \* "redis": calls and answers may be lost or late
                   \* "abandon": a gateway dies, or a handler is cancelled
    Calendar,      \* the month of each point in time
    TotalTime,     \* timeouts.total_s: how long a reservation is used at most
    LastStart      \* bound: no reservation is asked for after this time

ASSUME ServiceAssumption ==
    /\ Streams \subseteq Requests
    /\ MaxAttempts \in Nat \ {0}
    /\ FailModes \subseteq {"open", "closed"}
    /\ Faults \subseteq {"redis", "abandon"}
    /\ Calendar \in [0 .. MaxTime -> Months]
    /\ TotalTime \in Nat /\ LastStart \in 0 .. MaxTime
    /\ MaxSkew >= MaxTime      \* a call may run at any time after it was sent

VARIABLES
    phase,      \* where each request's coroutine is
    attempt,    \* reservations it has asked for
    try,        \* evalsha calls made by the current settle
    reserved,   \* redis_reserved of its current reservation
    after,      \* where settle returns to
    answer,     \* what Redis answered the awaited call
    since,      \* when the current reservation or settlement was asked for
    calls       \* script calls in flight

requestVars == <<phase, attempt, try, reserved, after, answer, since>>
vars == <<scriptVars, requestVars, calls>>

Phases == {"new", "reserving", "running", "settling", "again", "done", "gone"}
Over == {"done", "gone"}

Call(op, r, n, k) == [op |-> op, id |-> r, attempt |-> n, try |-> k, at |-> now]

Goto(r, p) == phase' = [phase EXCEPT ![r] = p]

(* r's coroutine still awaits call c. *)
Awaits(c) ==
    LET r == c.id IN
    /\ phase[r] = (IF c.op = "reserve" THEN "reserving" ELSE "settling")
    /\ attempt[r] = c.attempt
    /\ c.op = "settle" => try[r] = c.try

Answered(c, a) ==
    answer' = IF Awaits(c) THEN [answer EXCEPT ![c.id] = a] ELSE answer

(***************************************************************************)
(* QuotaService.reserve                                                    *)
(***************************************************************************)
Reserve(r) ==
    /\ phase[r] \in {"new", "again"}
    /\ now <= LastStart
    /\ Goto(r, "reserving")
    /\ attempt' = [attempt EXCEPT ![r] = @ + 1]
    /\ answer' = [answer EXCEPT ![r] = "none"]
    /\ since' = [since EXCEPT ![r] = now]
    /\ calls' = calls \cup {Call("reserve", r, attempt[r] + 1, 1)}
    /\ UNCHANGED <<scriptVars, try, reserved, after>>

(* A rejection is raised to the client: _reserve_quota does not retry it. *)
ReserveReply(r) ==
    /\ phase[r] = "reserving"
    /\ answer[r] # "none"
    /\ Goto(r, IF answer[r] = "yes" THEN "running" ELSE "done")
    /\ reserved' = [reserved EXCEPT ![r] = (answer[r] = "yes")]
    /\ UNCHANGED <<scriptVars, attempt, try, after, answer, since, calls>>

(* The 0.1 s timeout or a Redis error, whether or not Redis ran the script: *)
(* _reserve_fallback.  LocalFallbackLimiter.allow may refuse as well.       *)
ReserveFails(r) ==
    /\ "redis" \in Faults
    /\ phase[r] = "reserving"
    /\ \/ Goto(r, "done")
       \/ "open" \in FailModes /\ Goto(r, "running")
    /\ reserved' = [reserved EXCEPT ![r] = FALSE]
    /\ UNCHANGED <<scriptVars, attempt, try, after, answer, since, calls>>

(***************************************************************************)
(* The upstream part ends, and the settlement is settled once.  A failed   *)
(* attempt of a non-stream request goes on to another deployment and       *)
(* reserves again; a stream keeps its reservation for all its attempts.    *)
(***************************************************************************)
MayRetry(r) == r \notin Streams /\ attempt[r] < MaxAttempts /\ now <= LastStart

(* Defect: the next attempt does not wait for the settlement. *)
FinishWithoutAwait(r) ==
    /\ phase[r] = "running"
    /\ \E next \in {"done"} \cup (IF MayRetry(r) THEN {"again"} ELSE {}) :
          /\ after' = [after EXCEPT ![r] = next]
          /\ Goto(r, next)
    /\ try' = [try EXCEPT ![r] = 1]
    /\ answer' = [answer EXCEPT ![r] = "none"]
    /\ since' = [since EXCEPT ![r] = now]
    /\ calls' = IF reserved[r] THEN calls \cup {Call("settle", r, attempt[r], 1)} ELSE calls
    /\ UNCHANGED <<scriptVars, attempt, reserved>>

(* Defect: an attempt that failed is not settled before the next one. *)
FinishUnsettled(r) ==
    /\ phase[r] = "running"
    /\ Goto(r, IF MayRetry(r) THEN "again" ELSE "done")
    /\ UNCHANGED <<scriptVars, attempt, try, reserved, after, answer, since, calls>>

Finish(r) ==
    /\ phase[r] = "running"
    /\ \E next \in {"done"} \cup (IF MayRetry(r) THEN {"again"} ELSE {}) :
          /\ after' = [after EXCEPT ![r] = next]
          /\ Goto(r, IF reserved[r] THEN "settling" ELSE next)
    /\ try' = [try EXCEPT ![r] = 1]
    /\ answer' = [answer EXCEPT ![r] = "none"]
    /\ since' = [since EXCEPT ![r] = now]
    /\ calls' = IF reserved[r] THEN calls \cup {Call("settle", r, attempt[r], 1)} ELSE calls
    /\ UNCHANGED <<scriptVars, attempt, reserved>>

(* settle.lua answers {1} or {0}; settle does not look at which. *)
SettleReply(r) ==
    /\ phase[r] = "settling"
    /\ answer[r] # "none"
    /\ Goto(r, after[r])
    /\ UNCHANGED <<scriptVars, attempt, try, reserved, after, answer, since, calls>>

(* Defect: the settlement is tried again without limit. *)
SettleForever(r) ==
    /\ "redis" \in Faults
    /\ phase[r] = "settling"
    /\ try' = [try EXCEPT ![r] = @ + 1]
    /\ answer' = [answer EXCEPT ![r] = "none"]
    /\ calls' = calls \cup {Call("settle", r, attempt[r], try[r] + 1)}
    /\ UNCHANGED <<scriptVars, phase, attempt, reserved, after, since>>

(* _settle_with_retry: a Redis error of the first call. *)
SettleAgain(r) ==
    /\ "redis" \in Faults
    /\ phase[r] = "settling" /\ try[r] = 1
    /\ try' = [try EXCEPT ![r] = 2]
    /\ answer' = [answer EXCEPT ![r] = "none"]
    /\ calls' = calls \cup {Call("settle", r, attempt[r], 2)}
    /\ UNCHANGED <<scriptVars, phase, attempt, reserved, after, since>>

(* settle_timeout_s, or an error of the second call: the failure is counted *)
(* and swallowed, and the request goes on.                                  *)
SettleGivesUp(r) ==
    /\ "redis" \in Faults
    /\ phase[r] = "settling"
    /\ Goto(r, after[r])
    /\ UNCHANGED <<scriptVars, attempt, try, reserved, after, answer, since, calls>>

(* The process dies, or the handler ends in an exception it does not settle *)
(* on (cancellation while it awaits, an error that is no GatewayError).     *)
Abandon(r) ==
    /\ "abandon" \in Faults
    /\ phase[r] \in Phases \ ({"new"} \cup Over)
    /\ Goto(r, "gone")
    /\ UNCHANGED <<scriptVars, attempt, try, reserved, after, answer, since, calls>>

(***************************************************************************)
(* Redis                                                                   *)
(***************************************************************************)
RunReserve(c) ==
    /\ c.op = "reserve"
    /\ calls' = calls \ {c}
    /\ \E p \in Plans, e \in Estimates :
          \/ Admit(c.id, p, e, Calendar[c.at], c.at) /\ Answered(c, "yes")
          \/ Deny(p, e, Calendar[c.at], c.at) /\ Answered(c, "no")
    /\ UNCHANGED <<phase, attempt, try, reserved, after, since>>

RunSettle(c) ==
    /\ c.op = "settle"
    /\ calls' = calls \ {c}
    /\ (\E u \in Usages : Settle(c.id, u)) \/ SettleMissing(c.id)
    /\ Answered(c, "yes")
    /\ UNCHANGED <<phase, attempt, try, reserved, after, since>>

LoseCall(c) ==
    /\ "redis" \in Faults
    /\ calls' = calls \ {c}
    /\ UNCHANGED <<scriptVars, requestVars>>

(* One tenant's turn of sweep_loop. *)
SweepTenant ==
    /\ \E B \in Batches(now) : B # {} /\ Sweep(B)
    /\ UNCHANGED <<requestVars, calls>>

(* Time passes, but a reservation is used for TotalTime at most and a settle *)
(* is awaited for settle_timeout_s, one tick, at most.                      *)
Bound(r) == IF phase[r] = "settling" THEN 1 ELSE TotalTime

PassTime ==
    /\ \A r \in Requests :
          phase[r] \in {"reserving", "running", "settling"} => now < since[r] + Bound(r)
    /\ Tick
    /\ UNCHANGED <<requestVars, calls>>

Init ==
    /\ ScriptInit
    /\ phase = [r \in Requests |-> "new"]
    /\ attempt = [r \in Requests |-> 0]
    /\ try = [r \in Requests |-> 1]
    /\ reserved = [r \in Requests |-> FALSE]
    /\ after = [r \in Requests |-> "done"]
    /\ answer = [r \in Requests |-> "none"]
    /\ since = [r \in Requests |-> 0]
    /\ calls = {}

Gateway(r) ==
    \/ Reserve(r) \/ ReserveReply(r) \/ ReserveFails(r)
    \/ Finish(r) \/ SettleReply(r) \/ SettleAgain(r) \/ SettleGivesUp(r)

Redis(c) == RunReserve(c) \/ RunSettle(c) \/ LoseCall(c)

Next ==
    \/ \E r \in Requests : Gateway(r) \/ Abandon(r)
    \/ \E c \in calls : Redis(c)
    \/ SweepTenant
    \/ PassTime

(* The timeouts of providers and of the quota calls end every await, calls  *)
(* in flight are run or lost, sweep_loop comes round on some gateway, time  *)
(* passes.  Nothing is assumed of new requests.                             *)
Proceeds(r) ==
    \/ ReserveReply(r) \/ ReserveFails(r)
    \/ Finish(r) \/ SettleReply(r) \/ SettleGivesUp(r)

Fairness ==
    /\ \A r \in Requests : WF_vars(Proceeds(r))
    /\ WF_vars(\E c \in calls : Redis(c))
    /\ WF_vars(SweepTenant)
    /\ WF_vars(PassTime)

Spec == Init /\ [][Next]_vars /\ Fairness

(***************************************************************************)
(* Properties                                                              *)
(***************************************************************************)
Held == DOMAIN resv_hash

(* Type correctness. *)
ServiceTypeOK ==
    /\ TypeOK
    /\ phase \in [Requests -> Phases]
    /\ attempt \in [Requests -> 0 .. MaxAttempts]
    /\ try \in [Requests -> 1 .. 2]
    /\ reserved \in [Requests -> BOOLEAN]
    /\ after \in [Requests -> {"again", "done"}]
    /\ answer \in [Requests -> {"none", "yes", "no"}]
    /\ since \in [Requests -> 0 .. MaxTime]
    /\ calls \subseteq [op : {"reserve", "settle"}, id : Requests,
                        attempt : 1 .. MaxAttempts, try : 1 .. 2, at : 0 .. MaxTime]

(* The gateway and Redis together are the pool of permits of module Permits: *)
(* no permit is taken twice, lost or kept for ever, whatever calls are lost, *)
(* late or repeated and whatever gateways die.                               *)
Pool == INSTANCE Permits WITH held <- Held, used <- conc,
                              Cap <- CHOOSE n \in {p.conc_cap : p \in Plans} :
                                        \A p \in Plans : p.conc_cap <= n
PermitsImplemented == Pool!PermitSpec

(* Not a micro-dollar is lost: what a month was opened with is what its key *)
(* holds, what its reservations hold and what its settlements charged.      *)
NoBudgetLost == \A m \in Months : budget[m] + HeldBudget(m) + charged[m] = granted[m]

(* A reservation is not swept, nor settled by somebody else, while its      *)
(* request still runs upstream (TotalTime < Ttl).                           *)
LiveReservationHeld == \A r \in Requests : phase[r] = "running" /\ reserved[r] => r \in Held

AllOver == calls = {} /\ \A r \in Requests : phase[r] \in {"new"} \cup Over

(* The settle_failed metric, obs/metrics.py:106: "Quota settlement failures *)
(* left for sweeper recovery".  Once all requests are over and the sweeper  *)
(* has nothing left to sweep, the failures are recovered.                   *)
SettleFailuresRecovered == AllOver /\ Held = {} => conc = 0
=============================================================================
