------------------------- MODULE QuotaService_proofs -------------------------
(***************************************************************************)
(* The service calls the scripts only as module QuotaScripts lets anybody  *)
(* call them, so what is proved of the scripts holds of the service.  The  *)
(* gateway's own calls promise more: reservations in use are held, budgets *)
(* are exact, and what runs keeps to the plans.                            *)
(***************************************************************************)
EXTENDS QuotaService, QuotaScripts_proofs

(* The calls in flight were sent by a request, at a time that has passed. *)
CallsInv ==
    /\ now \in 0 .. MaxTime
    /\ \A c \in calls : c.id \in Requests /\ c.at \in 0 .. now

LEMMA ClocksOfCalls ==
  ASSUME CallsInv, NEW c \in calls
  PROVE  c.id \in Requests /\ c.at \in Clocks /\ Calendar[c.at] \in Months
<1>1. c.id \in Requests /\ c.at \in 0 .. now /\ now \in 0 .. MaxTime
  BY DEF CallsInv
<1>2. MaxTime \in Nat /\ MaxSkew \in Nat /\ MaxSkew >= MaxTime
  BY BoundsAssumption, ServiceAssumption
<1>3. c.at \in 0 .. MaxTime /\ now - c.at <= MaxSkew
  BY <1>1, <1>2
<1>4. Calendar[c.at] \in Months
  BY <1>3, ServiceAssumption
<1> QED BY <1>1, <1>3, <1>4 DEF Clocks

(* Sending a call. *)
LEMMA SentCall ==
  ASSUME CallsInv, UNCHANGED scriptVars, NEW c, c.id \in Requests, c.at = now,
         calls' = calls \cup {c}
  PROVE  CallsInv'
<1>1. now' = now /\ now \in 0 .. MaxTime /\ now \in 0 .. now
  BY BoundsAssumption DEF CallsInv, scriptVars
<1>2. \A x \in calls' : x.id \in Requests /\ x.at \in 0 .. now'
  BY <1>1 DEF CallsInv
<1> QED BY <1>1, <1>2 DEF CallsInv

LEMMA KeptCalls ==
  ASSUME CallsInv, now' = now, calls' \subseteq calls
  PROVE  CallsInv'
BY DEF CallsInv

LEMMA GatewayCalls ==
  ASSUME CallsInv, NEW r \in Requests, Gateway(r) \/ Abandon(r)
  PROVE  UNCHANGED scriptVars /\ CallsInv'
<1>1. ASSUME UNCHANGED scriptVars, calls' = calls
      PROVE  CallsInv'
  BY <1>1, KeptCalls DEF scriptVars
<1>2. CASE Reserve(r)
  <2>1. UNCHANGED scriptVars
    BY <1>2 DEF Reserve
  <2> DEFINE c == Call("reserve", r, attempt[r] + 1, 1)
  <2>2. c.id = r /\ c.at = now
    BY DEF Call
  <2>3. calls' = calls \cup {c}
    BY <1>2 DEF Reserve
  <2> HIDE DEF c
  <2> QED BY <2>1, <2>2, <2>3, SentCall
<1>3. CASE Finish(r)
  <2>1. UNCHANGED scriptVars
    BY <1>3 DEF Finish
  <2> DEFINE c == Call("settle", r, attempt[r], 1)
  <2>2. c.id = r /\ c.at = now
    BY DEF Call
  <2>3. calls' = calls \cup {c} \/ calls' = calls
    BY <1>3 DEF Finish
  <2> HIDE DEF c
  <2> QED BY <1>1, <2>1, <2>2, <2>3, SentCall
<1>4. CASE SettleAgain(r)
  <2>1. UNCHANGED scriptVars
    BY <1>4 DEF SettleAgain
  <2> DEFINE c == Call("settle", r, attempt[r], 2)
  <2>2. c.id = r /\ c.at = now
    BY DEF Call
  <2>3. calls' = calls \cup {c}
    BY <1>4 DEF SettleAgain
  <2> HIDE DEF c
  <2> QED BY <2>1, <2>2, <2>3, SentCall
<1>5. CASE ReserveReply(r) \/ ReserveFails(r) \/ SettleReply(r) \/ SettleGivesUp(r)
           \/ Abandon(r)
  <2>1. UNCHANGED scriptVars /\ calls' = calls
    BY <1>5 DEF ReserveReply, ReserveFails, SettleReply, SettleGivesUp, Abandon
  <2> QED BY <1>1, <2>1
<1> QED BY <1>2, <1>3, <1>4, <1>5 DEF Gateway

LEMMA RedisCalls ==
  ASSUME CallsInv, NEW c \in calls, Redis(c)
  PROVE  [ScriptNext]_scriptVars /\ CallsInv'
<1>1. c.id \in Requests /\ c.at \in Clocks /\ Calendar[c.at] \in Months
  BY ClocksOfCalls
<1>2. CASE RunReserve(c)
  <2>1. PICK p \in Plans, e \in Estimates :
           \/ Admit(c.id, p, e, Calendar[c.at], c.at)
           \/ Deny(p, e, Calendar[c.at], c.at)
    BY <1>2 DEF RunReserve
  <2>2. ScriptNext
    BY <1>1, <2>1 DEF ScriptNext
  <2>3. now' = now /\ calls' \subseteq calls
    BY <1>2, <2>1 DEF RunReserve, Admit, Deny
  <2> QED BY <2>2, <2>3, KeptCalls
<1>3. CASE RunSettle(c)
  <2>1. (\E u \in Usages : Settle(c.id, u)) \/ UNCHANGED scriptVars
    BY <1>3 DEF RunSettle, SettleMissing
  <2>2. [ScriptNext]_scriptVars
    BY <1>1, <2>1 DEF ScriptNext
  <2>3. now' = now
    BY <2>1 DEF Settle, scriptVars
  <2>4. calls' \subseteq calls
    BY <1>3 DEF RunSettle
  <2> QED BY <2>2, <2>3, <2>4, KeptCalls
<1>4. CASE LoseCall(c)
  <2>1. UNCHANGED scriptVars /\ now' = now /\ calls' \subseteq calls
    BY <1>4 DEF LoseCall, scriptVars
  <2> QED BY <2>1, KeptCalls
<1> QED BY <1>2, <1>3, <1>4 DEF Redis

LEMMA SweepCalls ==
  ASSUME CallsInv, SweepTenant
  PROVE  [ScriptNext]_scriptVars /\ CallsInv'
<1>1. now \in Clocks
  BY BoundsAssumption DEF CallsInv, Clocks
<1>2. PICK B \in Batches(now) : B # {} /\ Sweep(B)
  BY DEF SweepTenant
<1>3. ScriptNext
  BY <1>1, <1>2 DEF ScriptNext
<1>4. now' = now /\ calls' = calls
  BY <1>2 DEF SweepTenant, Sweep
<1> QED BY <1>3, <1>4, KeptCalls

LEMMA TimeCalls ==
  ASSUME CallsInv, PassTime
  PROVE  [ScriptNext]_scriptVars /\ CallsInv'
<1>1. Tick /\ calls' = calls
  BY DEF PassTime
<1>2. now < MaxTime /\ now' = now + 1 /\ now \in 0 .. MaxTime /\ MaxTime \in Nat
  BY <1>1, BoundsAssumption DEF Tick, CallsInv
<1>3. CallsInv'
  <2>1. now' \in 0 .. MaxTime
    BY <1>2
  <2>2. \A c \in calls : c.at \in 0 .. now'
    BY <1>2 DEF CallsInv
  <2> QED BY <1>1, <2>1, <2>2 DEF CallsInv
<1> QED BY <1>1, <1>3 DEF ScriptNext

LEMMA StepScripts == CallsInv /\ [Next]_vars => [ScriptNext]_scriptVars /\ CallsInv'
<1> SUFFICES ASSUME CallsInv, [Next]_vars
             PROVE  [ScriptNext]_scriptVars /\ CallsInv'
  OBVIOUS
<1>1. ASSUME NEW r \in Requests, Gateway(r) \/ Abandon(r)
      PROVE  [ScriptNext]_scriptVars /\ CallsInv'
  BY <1>1, GatewayCalls
<1>2. ASSUME NEW c \in calls, Redis(c)
      PROVE  [ScriptNext]_scriptVars /\ CallsInv'
  BY <1>2, RedisCalls
<1>3. CASE SweepTenant
  BY <1>3, SweepCalls
<1>4. CASE PassTime
  BY <1>4, TimeCalls
<1>5. CASE UNCHANGED vars
  <2>1. UNCHANGED scriptVars /\ now' = now /\ calls' = calls
    BY <1>5 DEF vars, scriptVars
  <2> QED BY <2>1, KeptCalls
<1> QED BY <1>1, <1>2, <1>3, <1>4, <1>5 DEF Next

(* The gateways, with whatever calls are lost, late or repeated, run the    *)
(* scripts only in ways QuotaScripts allows: the detailed specification     *)
(* implements the one in which anybody may call any script.                 *)
THEOREM ServiceImplementsScripts == Spec => ScriptSpec
<1>1. Init => ScriptInit /\ CallsInv
  BY BoundsAssumption DEF Init, ScriptInit, CallsInv
<1> QED BY <1>1, StepScripts, PTL DEF Spec, ScriptSpec

(* With every fault of the service, no budget of any month is made up.      *)
THEOREM ServiceConservesBudget == Spec => []BudgetConserved
BY ServiceImplementsScripts, ScriptsConserveBudget, PTL

(* With every fault of the service, conc_key counts at least the held       *)
(* reservations, and never more streams than the largest plan has.          *)
THEOREM ServiceCoversHeld == Spec => []PermitsCoverHeld
BY ServiceImplementsScripts, ScriptsCoverHeld, PTL

(***************************************************************************)
(* Types of the requests and their calls.                                  *)
(***************************************************************************)
CallTypes == [op : {"reserve", "settle"}, id : Requests,
              attempt : 1 .. MaxAttempts, try : 1 .. 2, at : 0 .. MaxTime]

RequestTypes ==
    /\ phase \in [Requests -> Phases]
    /\ attempt \in [Requests -> 0 .. MaxAttempts]
    /\ try \in [Requests -> 1 .. 2]
    /\ reserved \in [Requests -> BOOLEAN]
    /\ after \in [Requests -> {"again", "done"}]
    /\ answer \in [Requests -> {"none", "yes", "no"}]
    /\ since \in [Requests -> 0 .. MaxTime]
    /\ calls \subseteq CallTypes
    /\ now \in 0 .. MaxTime

(* How many attempts a request has made where it is. *)
Counted(r) ==
    /\ phase[r] = "new" => attempt[r] = 0
    /\ phase[r] \in {"reserving", "running", "settling"} => attempt[r] # 0
    /\ phase[r] = "again" => attempt[r] < MaxAttempts
    /\ phase[r] = "settling" /\ after[r] = "again" => attempt[r] < MaxAttempts

RequestsInv == RequestTypes /\ \A r \in Requests : Counted(r)

(***************************************************************************)
(* A request reserves only when nothing of it is held or in flight.  This  *)
(* needs what Orderly says: a request that tries again after a settlement  *)
(* Redis did not answer reserves an id that may still be held.             *)
(***************************************************************************)
Orderly == Streams = Requests \/ "redis" \notin Faults

Mine(r) == {c \in calls : c.id = r}
Reserves(r) == {c \in calls : c.id = r /\ c.op = "reserve"}
Settles(r) == {c \in calls : c.id = r /\ c.op = "settle"}

(* The coroutine has a reservation, or the answer that it has one. *)
Live(r) ==
    \/ phase[r] = "running" /\ reserved[r]
    \/ phase[r] = "reserving" /\ answer[r] = "yes"

OneReserve(r) == /\ \A c, d \in Reserves(r) : c = d
                 /\ Reserves(r) # {} => r \notin Held

Unreserved(r) == phase[r] \in {"new", "again"} => Mine(r) = {} /\ r \notin Held

Asking(r) ==
    phase[r] = "reserving" /\ answer[r] # "yes" =>
        Settles(r) = {} /\ \A c \in Reserves(r) : c.attempt = attempt[r] /\ c.at = since[r]

Settling(r) ==
    /\ Live(r) => Mine(r) = {}
    /\ phase[r] = "settling" => Reserves(r) = {}
    /\ r \in Streams => after[r] = "done" /\ phase[r] # "again"

(* Without faults of Redis every call is answered. *)
Answering(r) ==
    "redis" \notin Faults =>
        /\ phase[r] = "running" => reserved[r]
        /\ phase[r] = "settling" =>
              /\ \A c, d \in Mine(r) : c = d
              /\ answer[r] # "none" => Mine(r) = {} /\ r \notin Held

CallerInv(r) == OneReserve(r) /\ Unreserved(r) /\ Asking(r) /\ Settling(r) /\ Answering(r)

(* The sweeper comes after the request is over. *)
InTime(r) ==
    /\ phase[r] \in {"reserving", "running"} => now <= since[r] + TotalTime
    /\ Live(r) => r \in Held /\ resv_zset[r] = since[r] + Ttl

LEMMA CallType ==
  ASSUME RequestTypes, NEW r \in Requests, NEW op \in {"reserve", "settle"},
         NEW n \in 1 .. MaxAttempts, NEW k \in 1 .. 2
  PROVE  calls \cup {Call(op, r, n, k)} \subseteq CallTypes
<1>1. Call(op, r, n, k) \in CallTypes
  BY DEF Call, CallTypes, RequestTypes
<1> QED BY <1>1 DEF RequestTypes

LEMMA AnsweredType ==
  ASSUME RequestTypes, NEW c \in calls, NEW a \in {"none", "yes", "no"}, Answered(c, a)
  PROVE  answer' \in [Requests -> {"none", "yes", "no"}]
BY DEF Answered, RequestTypes, CallTypes

(* What a script does to the clock and to the reserved ids. *)
LEMMA ScriptEffects ==
  /\ \A r, p, e, m, t : Admit(r, p, e, m, t) => now' = now /\ Held' = Held \cup {r}
  /\ \A p, e, m, t : Deny(p, e, m, t) => now' = now /\ Held' = Held
  /\ \A r, u : Settle(r, u) => now' = now /\ Held' = Held \ {r}
  /\ \A r : SettleMissing(r) => now' = now /\ Held' = Held /\ r \notin Held
  /\ \A B : Sweep(B) => now' = now /\ Held' \subseteq Held
<1>1. \A r, p, e, m, t : Admit(r, p, e, m, t) => now' = now /\ Held' = Held \cup {r}
  BY DEF Admit, WithEntry, Held
<1>2. \A p, e, m, t : Deny(p, e, m, t) => now' = now /\ Held' = Held
  BY DEF Deny, Held
<1>3. \A r, u : Settle(r, u) => now' = now /\ Held' = Held \ {r}
  BY DEF Settle, Without, Held
<1>4. \A r : SettleMissing(r) => now' = now /\ Held' = Held /\ r \notin Held
  BY DEF SettleMissing, scriptVars, keys, Held
<1>5. \A B : Sweep(B) => now' = now /\ Held' \subseteq Held
  BY DEF Sweep, Without, Held
<1> QED BY <1>1, <1>2, <1>3, <1>4, <1>5

LEMMA GatewayRequests ==
  ASSUME RequestsInv, NEW r \in Requests, Gateway(r) \/ Abandon(r)
  PROVE  RequestsInv'
<1> USE ServiceAssumption DEF RequestsInv, Counted, Phases, Goto
<1>1. CASE Reserve(r)
  <2>1. attempt[r] + 1 \in 1 .. MaxAttempts
    BY <1>1 DEF Reserve, RequestTypes
  <2>2. calls' \subseteq CallTypes
    BY <1>1, <2>1, CallType DEF Reserve
  <2>3. RequestTypes'
    BY <1>1, <2>1, <2>2 DEF Reserve, RequestTypes, scriptVars
  <2>4. \A q \in Requests : Counted(q)'
    BY <1>1, <2>1 DEF Reserve, RequestTypes
  <2> QED BY <2>3, <2>4
<1>2. CASE ReserveReply(r)
  BY <1>2 DEF ReserveReply, RequestTypes, scriptVars
<1>3. CASE ReserveFails(r)
  BY <1>3 DEF ReserveFails, RequestTypes, scriptVars
<1>4. CASE Finish(r)
  <2>1. attempt[r] \in 1 .. MaxAttempts
    BY <1>4 DEF Finish, RequestTypes
  <2>2. calls' \subseteq CallTypes
    BY <1>4, <2>1, CallType DEF Finish, RequestTypes
  <2>3. PICK next \in {"done"} \cup (IF MayRetry(r) THEN {"again"} ELSE {}) :
           /\ after' = [after EXCEPT ![r] = next]
           /\ phase' = [phase EXCEPT ![r] = IF reserved[r] THEN "settling" ELSE next]
    BY <1>4 DEF Finish
  <2>4. next \in {"again", "done"} /\ (next = "again" => attempt[r] < MaxAttempts)
    BY DEF MayRetry
  <2>5. RequestTypes'
    BY <1>4, <2>1, <2>2, <2>3, <2>4 DEF Finish, RequestTypes, scriptVars
  <2>6. \A q \in Requests : Counted(q)'
    BY <1>4, <2>1, <2>3, <2>4 DEF Finish, RequestTypes
  <2> QED BY <2>5, <2>6
<1>5. CASE SettleReply(r)
  BY <1>5 DEF SettleReply, RequestTypes, scriptVars
<1>6. CASE SettleAgain(r)
  <2>1. attempt[r] \in 1 .. MaxAttempts
    BY <1>6 DEF SettleAgain, RequestTypes
  <2>2. calls' \subseteq CallTypes
    BY <1>6, <2>1, CallType DEF SettleAgain
  <2> QED BY <1>6, <2>1, <2>2 DEF SettleAgain, RequestTypes, scriptVars
<1>7. CASE SettleGivesUp(r)
  BY <1>7 DEF SettleGivesUp, RequestTypes, scriptVars
<1>8. CASE Abandon(r)
  BY <1>8 DEF Abandon, RequestTypes, scriptVars
<1> QED BY <1>1, <1>2, <1>3, <1>4, <1>5, <1>6, <1>7, <1>8 DEF Gateway

LEMMA RedisRequests ==
  ASSUME RequestsInv, NEW c \in calls, Redis(c)
  PROVE  RequestsInv'
<1>1. now' = now /\ calls' \subseteq calls
  <2>1. CASE RunReserve(c)
    BY <2>1, ScriptEffects DEF RunReserve
  <2>2. CASE RunSettle(c)
    BY <2>2, ScriptEffects DEF RunSettle
  <2>3. CASE LoseCall(c)
    BY <2>3 DEF LoseCall, scriptVars
  <2> QED BY <2>1, <2>2, <2>3 DEF Redis
<1>2. UNCHANGED <<phase, attempt, try, reserved, after, since>>
  BY DEF Redis, RunReserve, RunSettle, LoseCall, requestVars
<1>3. answer' \in [Requests -> {"none", "yes", "no"}]
  <2>1. CASE RunReserve(c)
    <3>1. Answered(c, "yes") \/ Answered(c, "no")
      BY <2>1 DEF RunReserve
    <3> QED BY <3>1, AnsweredType DEF RequestsInv
  <2>2. CASE RunSettle(c)
    BY <2>2, AnsweredType DEF RunSettle, RequestsInv
  <2>3. CASE LoseCall(c)
    BY <2>3 DEF LoseCall, requestVars, RequestsInv, RequestTypes
  <2> QED BY <2>1, <2>2, <2>3 DEF Redis
<1> QED BY <1>1, <1>2, <1>3 DEF RequestsInv, RequestTypes, Counted

LEMMA StepRequests == RequestsInv /\ [Next]_vars => RequestsInv'
<1> SUFFICES ASSUME RequestsInv, [Next]_vars PROVE RequestsInv'
  OBVIOUS
<1>1. ASSUME NEW r \in Requests, Gateway(r) \/ Abandon(r)
      PROVE  RequestsInv'
  BY <1>1, GatewayRequests
<1>2. ASSUME NEW c \in calls, Redis(c)
      PROVE  RequestsInv'
  BY <1>2, RedisRequests
<1>3. CASE SweepTenant
  <2>1. now' = now
    BY <1>3, ScriptEffects DEF SweepTenant
  <2> QED BY <1>3, <2>1 DEF SweepTenant, requestVars, RequestsInv, RequestTypes, Counted
<1>4. CASE PassTime
  <2>1. now' \in 0 .. MaxTime
    BY <1>4, BoundsAssumption DEF PassTime, Tick, RequestsInv, RequestTypes
  <2> QED BY <1>4, <2>1 DEF PassTime, requestVars, RequestsInv, RequestTypes, Counted
<1>5. CASE UNCHANGED vars
  BY <1>5 DEF vars, scriptVars, requestVars, RequestsInv, RequestTypes, Counted
<1> QED BY <1>1, <1>2, <1>3, <1>4, <1>5 DEF Next

LEMMA InitRequests == Init => RequestsInv
BY ServiceAssumption, BoundsAssumption
   DEF Init, ScriptInit, RequestsInv, RequestTypes, Counted, Phases

(* Requests and their calls have the types the module says, and no request *)
(* makes more attempts than configured.                                    *)
THEOREM ServiceTypeCorrect == Spec => []ServiceTypeOK
<1>1. RequestsInv /\ TypeOK => ServiceTypeOK
  BY DEF RequestsInv, RequestTypes, CallTypes, ServiceTypeOK
<1>2. Spec => []RequestsInv
  BY InitRequests, StepRequests, PTL DEF Spec
<1>3. Spec => []TypeOK
  BY ServiceImplementsScripts, ScriptsTypeCorrect, PTL
<1> QED BY <1>1, <1>2, <1>3, PTL

(***************************************************************************)
(* The steps of the requests and of Redis keep CallerInv.                  *)
(***************************************************************************)
SameRequest(q) ==
    /\ phase'[q] = phase[q] /\ attempt'[q] = attempt[q] /\ reserved'[q] = reserved[q]
    /\ after'[q] = after[q] /\ answer'[q] = answer[q] /\ since'[q] = since[q]

(* Calls that end and reservations that go break nothing. *)
LEMMA Undisturbed ==
  ASSUME NEW q \in Requests, CallerInv(q), SameRequest(q),
         Mine(q)' \subseteq Mine(q), q \notin Held => q \notin Held'
  PROVE  CallerInv(q)'
<1>1. Reserves(q)' \subseteq Reserves(q) /\ Settles(q)' \subseteq Settles(q)
  BY DEF Mine, Reserves, Settles
<1>2. OneReserve(q)' /\ Unreserved(q)' /\ Asking(q)'
  BY <1>1 DEF CallerInv, SameRequest, OneReserve, Unreserved, Asking
<1>3. Settling(q)' /\ Answering(q)'
  BY <1>1 DEF CallerInv, SameRequest, Settling, Answering, Live
<1> QED BY <1>2, <1>3 DEF CallerInv

(* A step of r's coroutine says nothing to the other requests. *)
LEMMA OthersUndisturbed ==
  ASSUME RequestsInv, NEW r \in Requests, Gateway(r) \/ Abandon(r),
         NEW q \in Requests \ {r}, CallerInv(q)
  PROVE  CallerInv(q)'
<1>1. SameRequest(q)
  BY DEF Gateway, Abandon, Reserve, ReserveReply, ReserveFails, Finish, SettleReply, SettleAgain,
         SettleGivesUp, Goto, SameRequest, RequestsInv, RequestTypes
<1>2. Mine(q)' \subseteq Mine(q)
  BY DEF Gateway, Abandon, Reserve, ReserveReply, ReserveFails, Finish, SettleReply, SettleAgain,
         SettleGivesUp, Call, Mine
<1>3. Held' = Held
  BY DEF Gateway, Abandon, Reserve, ReserveReply, ReserveFails, Finish, SettleReply, SettleAgain,
         SettleGivesUp, Held, scriptVars, keys
<1> QED BY <1>1, <1>2, <1>3, Undisturbed

LEMMA ReserveCaller ==
  ASSUME RequestsInv, NEW r \in Requests, Reserve(r), CallerInv(r)
  PROVE  CallerInv(r)'
<1> DEFINE c == Call("reserve", r, attempt[r] + 1, 1)
<1>1. c.id = r /\ c.op = "reserve" /\ c.attempt = attempt[r] + 1 /\ c.at = now
  BY DEF Call
<1>2. calls' = calls \cup {c} /\ Mine(r) = {} /\ r \notin Held /\ Held' = Held
  BY DEF Reserve, CallerInv, Unreserved, Held, scriptVars, keys
<1> HIDE DEF c
<1>3. Mine(r)' = {c} /\ Reserves(r)' = {c} /\ Settles(r)' = {}
  BY <1>1, <1>2 DEF Mine, Reserves, Settles
<1>4. /\ phase'[r] = "reserving" /\ answer'[r] = "none" /\ since'[r] = now
      /\ attempt'[r] = attempt[r] + 1 /\ after'[r] = after[r]
  BY DEF Reserve, Goto, RequestsInv, RequestTypes
<1>5. OneReserve(r)' /\ Unreserved(r)' /\ Asking(r)'
  BY <1>1, <1>2, <1>3, <1>4 DEF OneReserve, Unreserved, Asking
<1>6. Settling(r)' /\ Answering(r)'
  BY <1>4 DEF CallerInv, Settling, Answering, Live
<1> QED BY <1>5, <1>6 DEF CallerInv

LEMMA FinishCaller ==
  ASSUME Orderly, RequestsInv, NEW r \in Requests, Finish(r), CallerInv(r)
  PROVE  CallerInv(r)'
<1> DEFINE c == Call("settle", r, attempt[r], 1)
<1>1. c.id = r /\ c.op = "settle"
  BY DEF Call
<1>2. phase[r] = "running" /\ Held' = Held
  BY DEF Finish, Held, scriptVars, keys
<1>3. PICK next \in {"done"} \cup (IF MayRetry(r) THEN {"again"} ELSE {}) :
         /\ after' = [after EXCEPT ![r] = next]
         /\ phase' = [phase EXCEPT ![r] = IF reserved[r] THEN "settling" ELSE next]
  BY DEF Finish, Goto
<1>4. /\ after'[r] = next /\ (next = "again" => r \notin Streams)
      /\ phase'[r] = IF reserved[r] THEN "settling" ELSE next
      /\ answer'[r] = "none"
  BY <1>3 DEF Finish, MayRetry, RequestsInv, RequestTypes
<1>5. next \in {"done", "again"}
  BY <1>3
<1>6. CASE reserved[r]
  <2>1. Mine(r) = {} /\ calls' = calls \cup {c}
    BY <1>2, <1>6 DEF Finish, CallerInv, Settling, Live
  <2> HIDE DEF c
  <2>2. Mine(r)' = {c} /\ Reserves(r)' = {}
    BY <1>1, <2>1 DEF Mine, Reserves
  <2>3. OneReserve(r)' /\ Unreserved(r)' /\ Asking(r)'
    BY <1>4, <1>6, <2>2 DEF OneReserve, Unreserved, Asking
  <2>4. Settling(r)' /\ Answering(r)'
    BY <1>4, <1>5, <1>6, <2>2 DEF Settling, Answering, Live
  <2> QED BY <2>3, <2>4 DEF CallerInv
<1>7. CASE ~reserved[r]
  <2>1. Mine(r)' = Mine(r) /\ Reserves(r)' = Reserves(r)
    BY <1>7 DEF Finish, Mine, Reserves
  <2>2. phase'[r] = "done"
    BY <1>2, <1>4, <1>5, <1>7 DEF Orderly, CallerInv, Answering
  <2>3. OneReserve(r)' /\ Unreserved(r)' /\ Asking(r)'
    BY <1>2, <2>1, <2>2 DEF CallerInv, OneReserve, Unreserved, Asking
  <2>4. Settling(r)' /\ Answering(r)'
    BY <1>4, <1>5, <2>2 DEF Settling, Answering, Live
  <2> QED BY <2>3, <2>4 DEF CallerInv
<1> QED BY <1>6, <1>7

LEMMA SettleCaller ==
  ASSUME Orderly, RequestsInv, NEW r \in Requests, CallerInv(r),
         SettleReply(r) \/ SettleAgain(r) \/ SettleGivesUp(r)
  PROVE  CallerInv(r)'
<1>1. phase[r] = "settling" /\ Reserves(r) = {} /\ Held' = Held /\ after'[r] = after[r]
  BY DEF SettleReply, SettleAgain, SettleGivesUp, CallerInv, Settling, Held, scriptVars, keys
<1>2. Reserves(r)' = {}
  BY <1>1 DEF SettleReply, SettleAgain, SettleGivesUp, Call, Reserves
<1>3. CASE SettleAgain(r)
  <2>1. phase'[r] = "settling" /\ "redis" \in Faults
    BY <1>1, <1>3 DEF SettleAgain
  <2>2. OneReserve(r)' /\ Unreserved(r)' /\ Asking(r)'
    BY <1>2, <2>1 DEF OneReserve, Unreserved, Asking
  <2>3. Settling(r)' /\ Answering(r)'
    BY <1>1, <1>2, <2>1 DEF CallerInv, Settling, Answering, Live
  <2> QED BY <2>2, <2>3 DEF CallerInv
<1>4. CASE SettleReply(r) \/ SettleGivesUp(r)
  <2>1. phase'[r] = after[r] /\ after[r] \in {"again", "done"} /\ calls' = calls
    BY <1>4 DEF SettleReply, SettleGivesUp, Goto, RequestsInv, RequestTypes
  <2>2. after[r] = "again" => r \notin Streams /\ Mine(r) = {} /\ r \notin Held
    <3>1. after[r] = "again" => r \notin Streams /\ "redis" \notin Faults
      BY DEF CallerInv, Settling, Orderly
    <3> QED BY <1>1, <1>4, <3>1 DEF SettleReply, SettleGivesUp, CallerInv, Answering
  <2>3. Mine(r)' = Mine(r)
    BY <2>1 DEF Mine
  <2>4. OneReserve(r)' /\ Unreserved(r)' /\ Asking(r)'
    BY <1>1, <1>2, <2>1, <2>2, <2>3 DEF OneReserve, Unreserved, Asking
  <2>5. Settling(r)' /\ Answering(r)'
    BY <1>1, <2>1, <2>2 DEF CallerInv, Settling, Answering, Live
  <2> QED BY <2>4, <2>5 DEF CallerInv
<1> QED BY <1>3, <1>4

LEMMA EndCaller ==
  ASSUME Orderly, RequestsInv, NEW r \in Requests, CallerInv(r),
         ReserveReply(r) \/ ReserveFails(r) \/ Abandon(r)
  PROVE  CallerInv(r)'
<1>1. /\ Held' = Held /\ Mine(r)' = Mine(r) /\ Reserves(r)' = Reserves(r)
      /\ after'[r] = after[r] /\ answer'[r] = answer[r]
  BY DEF ReserveReply, ReserveFails, Abandon, Held, Mine, Reserves, scriptVars, keys
<1>2. /\ phase'[r] \in {"running", "done", "gone"}
      /\ phase'[r] = "running" =>
            \/ reserved'[r] /\ phase[r] = "reserving" /\ answer[r] = "yes"
            \/ ~reserved'[r] /\ "redis" \in Faults
  BY DEF ReserveReply, ReserveFails, Abandon, Goto, RequestsInv, RequestTypes
<1>3. OneReserve(r)' /\ Unreserved(r)' /\ Asking(r)'
  BY <1>1, <1>2 DEF CallerInv, OneReserve, Unreserved, Asking
<1>4. Settling(r)' /\ Answering(r)'
  BY <1>1, <1>2 DEF CallerInv, Settling, Answering, Live
<1> QED BY <1>3, <1>4 DEF CallerInv

(* A script that runs for one request, or a call that is lost. *)
LEMMA RedisUndisturbed ==
  ASSUME RequestsInv, NEW c \in calls, Redis(c), NEW q \in Requests, CallerInv(q),
         q # c.id \/ answer' = answer,
         q \notin Held => q \notin Held'
  PROVE  CallerInv(q)'
<1>1. UNCHANGED <<phase, attempt, reserved, after, since>> /\ calls' \subseteq calls
  BY DEF Redis, RunReserve, RunSettle, LoseCall, requestVars
<1>2. answer'[q] = answer[q]
  BY DEF Redis, RunReserve, RunSettle, LoseCall, requestVars, Answered, RequestsInv, RequestTypes
<1>3. SameRequest(q) /\ Mine(q)' \subseteq Mine(q)
  BY <1>1, <1>2 DEF SameRequest, Mine
<1> QED BY <1>3, Undisturbed

LEMMA RunReserveCaller ==
  ASSUME RequestsInv, NEW c \in calls, RunReserve(c), NEW q \in Requests, CallerInv(q)
  PROVE  CallerInv(q)'
<1>1. Redis(c)
  BY DEF Redis
<1>2. Held' = Held \/ Held' = Held \cup {c.id}
  BY ScriptEffects DEF RunReserve
<1>3. CASE q # c.id
  BY <1>1, <1>2, <1>3, RedisUndisturbed
<1>4. CASE q = c.id
  <2>1. c \in Reserves(q) /\ Reserves(q) = {c}
    BY <1>4 DEF RunReserve, CallerInv, OneReserve, Reserves
  <2>2. calls' = calls \ {c} /\ UNCHANGED <<phase, attempt, reserved, after, since>>
    BY DEF RunReserve
  <2>3. Reserves(q)' = {}
    BY <2>1, <2>2 DEF Reserves
  <2>4. phase[q] \notin {"new", "again", "settling"} /\ ~Live(q)
    BY <2>1 DEF CallerInv, Unreserved, Settling, Mine, Reserves
  <2>5. CASE phase[q] = "reserving"
    <3>1. Awaits(c) /\ Settles(q) = {}
      BY <1>4, <2>1, <2>4, <2>5 DEF Awaits, RunReserve, CallerInv, Asking, Live
    <3>2. Mine(q)' = {}
      <4>1. \A d \in Mine(q) : d \in Reserves(q) \/ d \in Settles(q)
        BY DEF RequestsInv, RequestTypes, CallTypes, Mine, Reserves, Settles
      <4> QED BY <2>1, <2>2, <3>1, <4>1 DEF Mine
    <3>3. Settles(q)' = {}
      BY <3>2 DEF Mine, Settles
    <3>4. OneReserve(q)' /\ Unreserved(q)' /\ Asking(q)'
      BY <2>2, <2>3, <2>5, <3>3 DEF OneReserve, Unreserved, Asking
    <3>5. Settling(q)' /\ Answering(q)'
      BY <2>2, <2>3, <2>5, <3>2 DEF CallerInv, Settling, Answering, Live
    <3> QED BY <3>4, <3>5 DEF CallerInv
  <2>6. CASE phase[q] # "reserving"
    <3>1. OneReserve(q)' /\ Unreserved(q)' /\ Asking(q)'
      BY <2>2, <2>3, <2>4, <2>6 DEF OneReserve, Unreserved, Asking
    <3>2. Settling(q)' /\ Answering(q)'
      BY <2>2, <2>3, <2>4, <2>6 DEF CallerInv, Settling, Answering, Live
    <3> QED BY <3>1, <3>2 DEF CallerInv
  <2> QED BY <2>5, <2>6
<1> QED BY <1>3, <1>4

LEMMA RunSettleCaller ==
  ASSUME RequestsInv, NEW c \in calls, RunSettle(c), NEW q \in Requests, CallerInv(q)
  PROVE  CallerInv(q)'
<1>1. Redis(c)
  BY DEF Redis
<1>2. Held' \subseteq Held /\ c.id \notin Held'
  BY ScriptEffects DEF RunSettle
<1>3. CASE q # c.id \/ answer' = answer
  BY <1>1, <1>2, <1>3, RedisUndisturbed
<1>4. CASE q = c.id /\ answer' # answer
  <2>1. Awaits(c) /\ calls' = calls \ {c} /\ UNCHANGED <<phase, reserved, after>>
    BY <1>4 DEF RunSettle, Answered
  <2>2. phase[q] = "settling"
    BY <1>4, <2>1 DEF Awaits, RunSettle
  <2>3. Reserves(q)' = {}
    BY <2>1, <2>2 DEF CallerInv, Settling, Reserves
  <2>4. "redis" \notin Faults => Mine(q)' = {}
    BY <1>4, <2>1, <2>2 DEF CallerInv, Answering, Mine
  <2>5. OneReserve(q)' /\ Unreserved(q)' /\ Asking(q)'
    BY <2>1, <2>2, <2>3 DEF OneReserve, Unreserved, Asking
  <2>6. Settling(q)' /\ Answering(q)'
    BY <1>2, <1>4, <2>1, <2>2, <2>3, <2>4 DEF CallerInv, Settling, Answering, Live
  <2> QED BY <2>5, <2>6 DEF CallerInv
<1> QED BY <1>3, <1>4

CallersInv == \A q \in Requests : CallerInv(q)

LEMMA StepCallers ==
  ASSUME Orderly
  PROVE  RequestsInv /\ CallersInv /\ [Next]_vars => CallersInv'
<1> SUFFICES ASSUME RequestsInv, CallersInv, [Next]_vars, NEW q \in Requests
             PROVE  CallerInv(q)'
  BY DEF CallersInv
<1> USE DEF CallersInv
<1>1. ASSUME NEW r \in Requests, Gateway(r) \/ Abandon(r)
      PROVE  CallerInv(q)'
  <2>1. CASE q # r
    BY <1>1, <2>1, OthersUndisturbed
  <2>2. CASE q = r
    BY <1>1, <2>2, ReserveCaller, FinishCaller, SettleCaller, EndCaller DEF Gateway
  <2> QED BY <2>1, <2>2
<1>2. ASSUME NEW c \in calls, Redis(c)
      PROVE  CallerInv(q)'
  <2>1. CASE RunReserve(c)
    BY <2>1, RunReserveCaller
  <2>2. CASE RunSettle(c)
    BY <2>2, RunSettleCaller
  <2>3. CASE LoseCall(c)
    <3>1. answer' = answer /\ Held' = Held
      BY <2>3 DEF LoseCall, requestVars, scriptVars, keys, Held
    <3> QED BY <1>2, <3>1, RedisUndisturbed
  <2> QED BY <1>2, <2>1, <2>2, <2>3 DEF Redis
<1>3. ASSUME UNCHANGED <<requestVars, calls>>, Held' \subseteq Held
      PROVE  CallerInv(q)'
  <2>1. SameRequest(q) /\ Mine(q)' \subseteq Mine(q)
    BY <1>3 DEF requestVars, SameRequest, Mine
  <2> QED BY <1>3, <2>1, Undisturbed
<1>4. CASE SweepTenant
  <2>1. Held' \subseteq Held
    BY <1>4, ScriptEffects DEF SweepTenant
  <2> QED BY <1>3, <1>4, <2>1 DEF SweepTenant
<1>5. CASE PassTime
  BY <1>3, <1>5 DEF PassTime, Tick, keys, Held
<1>6. CASE UNCHANGED vars
  BY <1>3, <1>6 DEF vars, scriptVars, keys, Held
<1> QED BY <1>1, <1>2, <1>4, <1>5, <1>6 DEF Next

LEMMA InitCallers == Init => CallersInv
<1> SUFFICES ASSUME Init, NEW q \in Requests PROVE CallerInv(q)
  BY DEF CallersInv
<1>1. Mine(q) = {} /\ Reserves(q) = {} /\ q \notin Held
  BY DEF Init, ScriptInit, NoEntries, Mine, Reserves, Held
<1>2. phase[q] = "new" /\ after[q] = "done"
  BY DEF Init
<1> QED BY <1>1, <1>2 DEF CallerInv, OneReserve, Unreserved, Asking, Settling, Answering, Live

(***************************************************************************)
(* A reservation in use is held until its request is over.                 *)
(***************************************************************************)
HoldsInv == RequestsInv /\ CallersInv /\ TypeOK /\ \A q \in Requests : InTime(q)

(* What keeps the entry of q and says nothing new of q. *)
LEMMA StaysHeld ==
  ASSUME HoldsInv, NEW q \in Requests, SameRequest(q), now' = now,
         Live(q) => q \in Held' /\ resv_zset'[q] = resv_zset[q]
  PROVE  InTime(q)'
<1>1. Live(q)' <=> Live(q)
  BY DEF SameRequest, Live
<1> QED BY <1>1 DEF HoldsInv, InTime, SameRequest

LEMMA GatewayInTime ==
  ASSUME HoldsInv, NEW r \in Requests, Gateway(r) \/ Abandon(r), NEW q \in Requests
  PROVE  InTime(q)'
<1>1. UNCHANGED <<resv_zset, resv_hash, now>>
  BY DEF Gateway, Abandon, Reserve, ReserveReply, ReserveFails, Finish, SettleReply, SettleAgain,
         SettleGivesUp, scriptVars, keys
<1>2. Held' = Held
  BY <1>1 DEF Held
<1>3. CASE q # r
  <2>1. SameRequest(q)
    BY <1>3 DEF Gateway, Abandon, Reserve, ReserveReply, ReserveFails, Finish, SettleReply,
           SettleAgain, SettleGivesUp, Goto, SameRequest, HoldsInv, RequestsInv, RequestTypes
  <2> QED BY <1>1, <1>2, <2>1, StaysHeld DEF HoldsInv, InTime
<1>4. CASE q = r /\ Reserve(r)
  <2>1. phase'[q] = "reserving" /\ answer'[q] = "none" /\ since'[q] = now
    BY <1>4 DEF Reserve, Goto, HoldsInv, RequestsInv, RequestTypes
  <2>2. now <= now + TotalTime
    BY ServiceAssumption, BoundsAssumption DEF HoldsInv, RequestsInv, RequestTypes
  <2> QED BY <1>1, <2>1, <2>2 DEF InTime, Live
<1>5. CASE q = r /\ (ReserveReply(r) \/ ReserveFails(r))
  <2>1. /\ since'[q] = since[q] /\ phase[q] = "reserving" /\ phase'[q] # "reserving"
        /\ phase'[q] = "running" /\ reserved'[q] => answer[q] = "yes"
    BY <1>5 DEF ReserveReply, ReserveFails, Goto, HoldsInv, RequestsInv, RequestTypes
  <2>2. Live(q)' => Live(q)
    BY <2>1 DEF Live
  <2> QED BY <1>1, <1>2, <2>1, <2>2 DEF HoldsInv, InTime
<1>6. CASE q = r /\ ~Reserve(r) /\ ~ReserveReply(r) /\ ~ReserveFails(r)
  <2>1. phase'[q] \notin {"reserving", "running"}
    BY <1>6 DEF Gateway, Abandon, Finish, SettleReply, SettleAgain, SettleGivesUp, Goto,
           HoldsInv, RequestsInv, RequestTypes
  <2> QED BY <2>1 DEF InTime, Live
<1> QED BY <1>3, <1>4, <1>5, <1>6

LEMMA RunReserveInTime ==
  ASSUME HoldsInv, NEW c \in calls, RunReserve(c), NEW q \in Requests
  PROVE  InTime(q)'
<1>1. UNCHANGED <<phase, attempt, reserved, after, since>>
  BY DEF RunReserve
<1>2. PICK p \in Plans, e \in Estimates :
         \/ Admit(c.id, p, e, Calendar[c.at], c.at) /\ Answered(c, "yes")
         \/ Deny(p, e, Calendar[c.at], c.at) /\ Answered(c, "no")
  BY DEF RunReserve
<1>3. CASE q # c.id \/ answer' = answer
  <2>1. SameRequest(q) /\ now' = now
    BY <1>1, <1>2, <1>3 DEF SameRequest, Answered, Admit, Deny, HoldsInv, RequestsInv,
           RequestTypes
  <2>2. ASSUME Live(q)
        PROVE  q \in Held' /\ resv_zset'[q] = resv_zset[q]
    <3>1. q \in Held /\ q \in DOMAIN resv_zset
      BY <2>2 DEF HoldsInv, InTime, TypeOK, ReservationsType, Held
    <3>2. q # c.id
      BY <2>2 DEF HoldsInv, CallersInv, CallerInv, Settling, Mine
    <3> QED BY <1>2, <3>1, <3>2 DEF Admit, Deny, WithEntry, Held
  <2> QED BY <2>1, <2>2, StaysHeld
<1>4. CASE q = c.id /\ answer' # answer
  <2>1. /\ Awaits(c) /\ c \in Reserves(q)
        /\ phase'[q] = "reserving" /\ phase[q] = "reserving" /\ since'[q] = since[q]
    BY <1>1, <1>2, <1>4 DEF Answered, Awaits, RunReserve, Reserves
  <2>2. answer[q] # "yes" /\ c.at = since[q] /\ now <= since[q] + TotalTime
    <3>1. ~Live(q)
      BY <2>1 DEF HoldsInv, CallersInv, CallerInv, Settling, Mine, Reserves
    <3> QED BY <2>1, <3>1 DEF HoldsInv, CallersInv, CallerInv, Asking, InTime, Live
  <2>3. CASE Admit(c.id, p, e, Calendar[c.at], c.at)
    <3>1. q \in Held' /\ resv_zset'[q] = since'[q] + Ttl /\ now' = now
      BY <1>4, <2>1, <2>2, <2>3 DEF Admit, WithEntry, Held
    <3> QED BY <2>1, <2>2, <3>1 DEF InTime
  <2>4. CASE Deny(p, e, Calendar[c.at], c.at) /\ Answered(c, "no")
    <3>1. answer'[q] = "no" /\ now' = now
      BY <1>4, <2>1, <2>4 DEF Answered, Deny, HoldsInv, RequestsInv, RequestTypes
    <3> QED BY <2>1, <2>2, <3>1 DEF InTime, Live
  <2> QED BY <1>2, <2>3, <2>4
<1> QED BY <1>3, <1>4

LEMMA RunSettleInTime ==
  ASSUME HoldsInv, NEW c \in calls, RunSettle(c), NEW q \in Requests
  PROVE  InTime(q)'
<1>1. UNCHANGED <<phase, attempt, reserved, after, since>> /\ now' = now
  BY ScriptEffects DEF RunSettle
<1>2. CASE phase[q] \notin {"reserving", "running"}
  BY <1>1, <1>2 DEF InTime, Live
<1>3. CASE phase[q] \in {"reserving", "running"}
  <2>1. answer'[q] = answer[q]
    BY <1>3 DEF RunSettle, Answered, Awaits, HoldsInv, RequestsInv, RequestTypes
  <2>2. SameRequest(q)
    BY <1>1, <2>1 DEF SameRequest
  <2>3. ASSUME Live(q)
        PROVE  q \in Held' /\ resv_zset'[q] = resv_zset[q]
    <3>1. q \in Held /\ q \in DOMAIN resv_zset
      BY <2>3 DEF HoldsInv, InTime, TypeOK, ReservationsType, Held
    <3>2. q # c.id
      BY <2>3 DEF HoldsInv, CallersInv, CallerInv, Settling, Mine
    <3> QED BY <3>1, <3>2 DEF RunSettle, Settle, SettleMissing, Without, Held, scriptVars, keys
  <2> QED BY <1>1, <2>2, <2>3, StaysHeld
<1> QED BY <1>2, <1>3

LEMMA SweepInTime ==
  ASSUME TotalTime < Ttl, HoldsInv, SweepTenant, NEW q \in Requests
  PROVE  InTime(q)'
<1>1. PICK B \in Batches(now) : Sweep(B)
  BY DEF SweepTenant
<1>2. SameRequest(q) /\ now' = now
  BY <1>1 DEF SweepTenant, requestVars, SameRequest, Sweep
<1>3. ASSUME Live(q)
      PROVE  q \in Held' /\ resv_zset'[q] = resv_zset[q]
  <2>1. q \in Held /\ q \in DOMAIN resv_zset /\ resv_zset[q] = since[q] + Ttl
    BY <1>3 DEF HoldsInv, InTime, TypeOK, ReservationsType, Held
  <2>2. now <= since[q] + TotalTime
    BY <1>3 DEF HoldsInv, InTime, Live
  <2>3. ~(since[q] + Ttl <= now)
    BY <2>2, ServiceAssumption, BoundsAssumption DEF HoldsInv, RequestsInv, RequestTypes
  <2>4. q \notin B
    BY <2>1, <2>3 DEF Batches, Due
  <2> QED BY <1>1, <2>1, <2>4 DEF Sweep, Without, Held
<1> QED BY <1>2, <1>3, StaysHeld

LEMMA TimeInTime ==
  ASSUME HoldsInv, PassTime, NEW q \in Requests
  PROVE  InTime(q)'
<1>1. /\ UNCHANGED <<requestVars, resv_zset, resv_hash>> /\ now' = now + 1
      /\ phase[q] \in {"reserving", "running", "settling"} => now < since[q] + Bound(q)
  BY DEF PassTime, Tick, keys
<1>2. Live(q)' <=> Live(q)
  BY <1>1 DEF requestVars, Live
<1>3. phase[q] \in {"reserving", "running"} => now + 1 <= since[q] + TotalTime
  BY <1>1, ServiceAssumption, BoundsAssumption DEF Bound, HoldsInv, RequestsInv, RequestTypes
<1> QED BY <1>1, <1>2, <1>3 DEF requestVars, HoldsInv, InTime, Held

LEMMA StepHolds ==
  ASSUME Orderly, TotalTime < Ttl
  PROVE  HoldsInv /\ CallsInv /\ [Next]_vars => HoldsInv'
<1> SUFFICES ASSUME HoldsInv, CallsInv, [Next]_vars PROVE HoldsInv'
  OBVIOUS
<1>1. RequestsInv' /\ CallersInv'
  BY StepRequests, StepCallers DEF HoldsInv
<1>2. TypeOK'
  BY StepScripts, StepType DEF HoldsInv
<1>3. ASSUME NEW q \in Requests PROVE InTime(q)'
  <2>1. ASSUME NEW c \in calls, Redis(c) PROVE InTime(q)'
    <3>1. CASE LoseCall(c)
      <4>1. SameRequest(q) /\ UNCHANGED <<now, resv_zset, resv_hash>>
        BY <3>1 DEF LoseCall, requestVars, scriptVars, keys, SameRequest
      <4> QED BY <4>1, StaysHeld DEF HoldsInv, InTime, Held
    <3> QED BY <2>1, <3>1, RunReserveInTime, RunSettleInTime DEF Redis
  <2>2. CASE UNCHANGED vars
    <3>1. SameRequest(q) /\ UNCHANGED <<now, resv_zset, resv_hash>>
      BY <2>2 DEF vars, requestVars, scriptVars, keys, SameRequest
    <3> QED BY <3>1, StaysHeld DEF HoldsInv, InTime, Held
  <2> QED BY <2>1, <2>2, GatewayInTime, SweepInTime, TimeInTime DEF Next
<1> QED BY <1>1, <1>2, <1>3 DEF HoldsInv

LEMMA InitHolds == Init => HoldsInv
<1> SUFFICES ASSUME Init PROVE HoldsInv
  OBVIOUS
<1>1. RequestsInv /\ CallersInv /\ TypeOK
  BY InitRequests, InitCallers, InitType DEF Init
<1>2. \A q \in Requests : InTime(q)
  BY DEF Init, InTime, Live
<1> QED BY <1>1, <1>2 DEF HoldsInv

LEMMA CallsHold == Spec => []CallsInv
<1>1. Init => CallsInv
  BY BoundsAssumption DEF Init, ScriptInit, CallsInv
<1> QED BY <1>1, StepScripts, PTL DEF Spec

(* No reservation is swept or settled under a request that still runs, for  *)
(* any timeouts with total_s < reservation_ttl_s, any sweeps, and calls     *)
(* that are lost, late or repeated, if requests that reserve again do so    *)
(* only after a settlement that was answered.                               *)
THEOREM ReservationsInUseAreHeld ==
  ASSUME Orderly, TotalTime < Ttl
  PROVE  Spec => []LiveReservationHeld
<1>1. HoldsInv => LiveReservationHeld
  BY DEF HoldsInv, InTime, Live, LiveReservationHeld
<1> QED BY <1>1, InitHolds, StepHolds, CallsHold, PTL DEF Spec

(***************************************************************************)
(* Requests that reserve only ids that are not held lose nothing, and take *)
(* and give back permits as module Permits says.                           *)
(***************************************************************************)
Exact == conc = Cardinality(Held) /\ \A m \in Months : Lost(m) = 0

(* The steps of the scripts, with an id that is not held. *)
FreshNext ==
    \/ \E r \in Requests, p \in Plans, e \in Estimates, m \in Months, t \in Clocks :
          r \notin Held /\ Admit(r, p, e, m, t)
    \/ \E p \in Plans, e \in Estimates, m \in Months, t \in Clocks : Deny(p, e, m, t)
    \/ \E r \in Requests, u \in Usages : Settle(r, u)
    \/ \E B \in Batches(now) : B # {} /\ Sweep(B)
    \/ UNCHANGED <<keys, history>>

LEMMA StepFresh == CallsInv /\ CallersInv /\ [Next]_vars => FreshNext
<1> SUFFICES ASSUME CallsInv, CallersInv, [Next]_vars PROVE FreshNext
  OBVIOUS
<1>1. ASSUME NEW r \in Requests, Gateway(r) \/ Abandon(r) PROVE FreshNext
  <2>1. UNCHANGED scriptVars
    BY <1>1, GatewayCalls
  <2> QED BY <2>1 DEF FreshNext, scriptVars
<1>2. ASSUME NEW c \in calls, Redis(c) PROVE FreshNext
  <2>1. c.id \in Requests /\ c.at \in Clocks /\ Calendar[c.at] \in Months
    BY ClocksOfCalls
  <2>2. CASE RunReserve(c)
    <3>1. c.id \notin Held
      BY <2>1, <2>2 DEF RunReserve, CallersInv, CallerInv, OneReserve, Reserves
    <3> QED BY <2>1, <2>2, <3>1 DEF RunReserve, FreshNext
  <2>3. CASE RunSettle(c)
    BY <2>1, <2>3 DEF RunSettle, SettleMissing, scriptVars, FreshNext
  <2>4. CASE LoseCall(c)
    BY <2>4 DEF LoseCall, scriptVars, FreshNext
  <2> QED BY <1>2, <2>2, <2>3, <2>4 DEF Redis
<1>3. CASE SweepTenant
  BY <1>3 DEF SweepTenant, FreshNext
<1>4. CASE PassTime \/ UNCHANGED vars
  BY <1>4 DEF PassTime, Tick, vars, scriptVars, FreshNext
<1> QED BY <1>1, <1>2, <1>3, <1>4 DEF Next

LEMMA FreshAdmit ==
  ASSUME MonthsInv, Exact, NEW r \in Requests, r \notin Held,
         NEW p \in Plans, NEW e \in Estimates, NEW m \in Months, NEW t \in Clocks,
         Admit(r, p, e, m, t)
  PROVE  /\ Exact'
         /\ Held' = Held \cup {r} /\ conc' = conc + 1 /\ conc < p.conc_cap
<1>1. Held' = Held \cup {r} /\ conc' = conc + 1 /\ conc < p.conc_cap
  BY DEF Admit, Fits, WithEntry, Held
<1>2. IsFiniteSet(Held)
  BY HeldIsFinite DEF MonthsInv, Held
<1>3. Cardinality(Held \cup {r}) = Cardinality(Held) + 1
  BY <1>2, FS_AddElement
<1>4. \A k \in Months : Lost(k)' = Lost(k)
  BY AdmitBudget DEF Held
<1> QED BY <1>1, <1>3, <1>4 DEF Exact

(* The reservations of S, and as many permits, given back. *)
LEMMA FreshRelease ==
  ASSUME MonthsInv, Exact, NEW S \in SUBSET Held, Held' = Held \ S,
         conc' = Max2(0, conc - Cardinality(S)),
         \A k \in Months : Lost(k)' = Lost(k)
  PROVE  Exact' /\ conc' = conc - Cardinality(S)
<1>1. IsFiniteSet(Held) /\ IsFiniteSet(S)
  BY HeldIsFinite, FS_Subset DEF MonthsInv, Held
<1>2. Held \cap S = S
  OBVIOUS
<1>3. Cardinality(Held \ S) = Cardinality(Held) - Cardinality(S) /\ IsFiniteSet(Held \ S)
  BY <1>1, <1>2, FS_Difference
<1>4. /\ Cardinality(Held) \in Nat /\ Cardinality(S) \in Nat
      /\ Cardinality(Held \ S) \in Nat
  BY <1>1, <1>3, FS_CardinalityType
<1>5. conc' = conc - Cardinality(S)
  BY <1>3, <1>4 DEF Exact, Max2
<1> QED BY <1>3, <1>5 DEF Exact

LEMMA FreshSettle ==
  ASSUME MonthsInv, Exact, NEW r \in Requests, NEW u \in Usages, Settle(r, u)
  PROVE  Exact' /\ {r} \in SUBSET Held /\ Held' = Held \ {r} /\ conc' = conc - Cardinality({r})
<1>1. {r} \in SUBSET Held /\ Held' = Held \ {r} /\ Cardinality({r}) = 1
  BY FS_Singleton DEF Settle, Without, Held
<1>2. conc' = Max2(0, conc - 1) /\ \A k \in Months : Lost(k)' = Lost(k)
  BY SettleBudget DEF Settle
<1>3. conc' = Max2(0, conc - Cardinality({r}))
  BY <1>1, <1>2
<1> QED BY <1>1, <1>2, <1>3, FreshRelease

LEMMA FreshSweep ==
  ASSUME MonthsInv, Exact, NEW B \in Batches(now), B # {}, Sweep(B)
  PROVE  Exact' /\ B \in SUBSET Held /\ Held' = Held \ B /\ conc' = conc - Cardinality(B)
<1>1. B \subseteq Held
  BY DEF Batches, Due, MonthsInv, TypeOK, ReservationsType, Held
<1>2. B \cap DOMAIN resv_hash = B
  BY <1>1 DEF Held
<1>3. conc' = Max2(0, conc - Cardinality(B)) /\ Held' = Held \ B
  BY <1>2 DEF Sweep, Without, Held
<1>4. \A k \in Months : Lost(k)' = Lost(k)
  BY SweepBudget
<1> QED BY <1>1, <1>3, <1>4, FreshRelease

LEMMA FreshExact == MonthsInv /\ Exact /\ FreshNext => Exact'
<1> SUFFICES ASSUME MonthsInv, Exact, FreshNext PROVE Exact'
  OBVIOUS
<1>1. ASSUME NEW p \in Plans, NEW e \in Estimates, NEW m \in Months, NEW t \in Clocks,
             Deny(p, e, m, t)
      PROVE  Exact'
  BY <1>1, DenyBudget DEF Deny, Exact, Held
<1>2. CASE UNCHANGED <<keys, history>>
  BY <1>2 DEF keys, history, Exact, Held, Lost, HeldBudget
<1> QED BY <1>1, <1>2, FreshAdmit, FreshSettle, FreshSweep DEF FreshNext

ExactInv == RequestsInv /\ CallersInv /\ CallsInv /\ MonthsInv /\ Exact

LEMMA StepExact ==
  ASSUME Orderly
  PROVE  ExactInv /\ [Next]_vars => ExactInv'
<1> SUFFICES ASSUME ExactInv, [Next]_vars PROVE ExactInv'
  OBVIOUS
<1>1. RequestsInv' /\ CallersInv' /\ CallsInv' /\ [ScriptNext]_scriptVars
  BY StepRequests, StepCallers, StepScripts DEF ExactInv
<1>2. MonthsInv'
  BY <1>1, StepType, StepMonths DEF ExactInv, MonthsInv
<1>3. Exact'
  BY StepFresh, FreshExact DEF ExactInv
<1> QED BY <1>1, <1>2, <1>3 DEF ExactInv

LEMMA InitExact == Init => ExactInv
<1> SUFFICES ASSUME Init PROVE ExactInv
  OBVIOUS
<1>1. RequestsInv /\ CallersInv /\ CallsInv
  BY InitRequests, InitCallers, BoundsAssumption DEF Init, ScriptInit, CallsInv
<1>2. MonthsInv
  BY InitBudget DEF Init, BudgetInv
<1>3. Held = {} /\ conc = 0
  BY DEF Init, ScriptInit, NoEntries, Held
<1>4. Cardinality({}) = 0
  BY FS_EmptySet
<1>5. ASSUME NEW m \in Months PROVE Lost(m) = 0
  <2>1. OfMonth(resv_hash, DOMAIN resv_hash, m) = {}
    BY <1>3 DEF OfMonth, Held
  <2>2. HeldBudget(m) = 0
    BY <2>1, TotalEmpty DEF HeldBudget
  <2> QED BY <2>2 DEF Init, ScriptInit, Lost
<1> QED BY <1>1, <1>2, <1>3, <1>4, <1>5 DEF ExactInv, Exact

LEMMA ExactHolds == ASSUME Orderly PROVE Spec => []ExactInv
BY InitExact, StepExact, PTL DEF Spec

(* No month's budget loses a micro-dollar to settlements that cost more or  *)
(* less, late or repeated calls, sweeps and gateways that die, if requests  *)
(* that reserve again do so only after a settlement that was answered.      *)
THEOREM BudgetIsExact == ASSUME Orderly PROVE Spec => []NoBudgetLost
<1>1. ExactInv => NoBudgetLost
  <2> SUFFICES ASSUME ExactInv, NEW m \in Months
               PROVE  budget[m] + HeldBudget(m) + charged[m] = granted[m]
    BY DEF NoBudgetLost
  <2>1. DOMAIN resv_hash \in SUBSET DOMAIN resv_hash
    OBVIOUS
  <2>2. /\ HeldBudget(m) \in Int /\ budget[m] \in Int /\ charged[m] \in Int
        /\ granted[m] \in Int
    BY <2>1, HeldBudgetType DEF ExactInv, MonthsInv, TypeOK
  <2>3. granted[m] - (budget[m] + HeldBudget(m) + charged[m]) = 0
    BY DEF ExactInv, Exact, Lost
  <2> QED BY <2>2, <2>3
<1> QED BY <1>1, ExactHolds, PTL

(* The gateways, Redis and the sweeper are a pool of permits: every step    *)
(* takes a free permit, gives back ones that were taken, or does nothing to *)
(* them.  This is the safety half of PermitsImplemented, for any plans with *)
(* a largest concurrent_streams.                                            *)
THEOREM ServiceIsPool ==
  ASSUME Orderly, \E q \in Plans : \A p \in Plans : p.conc_cap <= q.conc_cap
  PROVE  Spec => Pool!PermitInit /\ [][Pool!PermitNext]_Pool!permitVars
<1> DEFINE cap == CHOOSE n \in {p.conc_cap : p \in Plans} : \A p \in Plans : p.conc_cap <= n
<1>1. \A p \in Plans : p.conc_cap <= cap
  OBVIOUS
<1>2. Init => Pool!PermitInit
  BY DEF Init, ScriptInit, NoEntries, Held, Pool!PermitInit
<1>3. ExactInv /\ [Next]_vars => [Pool!PermitNext]_Pool!permitVars
  <2> SUFFICES ASSUME ExactInv, [Next]_vars
               PROVE  Pool!PermitNext \/ (Held' = Held /\ conc' = conc)
    BY DEF Pool!permitVars
  <2>1. MonthsInv /\ Exact /\ FreshNext
    BY StepFresh DEF ExactInv
  <2>2. ASSUME NEW r \in Requests, r \notin Held,
               NEW p \in Plans, NEW e \in Estimates, NEW m \in Months, NEW t \in Clocks,
               Admit(r, p, e, m, t)
        PROVE  Pool!PermitNext
    <3>1. Held' = Held \cup {r} /\ conc' = conc + 1 /\ conc < p.conc_cap
      BY <2>1, <2>2, FreshAdmit
    <3>2. conc < cap
      <4>1. conc \in Nat /\ p.conc_cap \in Nat /\ p.conc_cap <= cap
        BY <1>1, <2>1, PlansAssumption DEF MonthsInv, TypeOK
      <4>2. cap \in {q.conc_cap : q \in Plans}
        OBVIOUS
      <4>3. cap \in Nat
        BY <4>2, PlansAssumption
      <4> HIDE DEF cap
      <4> QED BY <3>1, <4>1, <4>3
    <3>3. Pool!Acquire(r)
      BY <2>2, <3>1, <3>2 DEF Pool!Acquire
    <3> QED BY <3>3 DEF Pool!PermitNext
  <2>3. ASSUME NEW S \in SUBSET Held, S # {}, Held' = Held \ S, conc' = conc - Cardinality(S)
        PROVE  Pool!PermitNext
    <3>1. Pool!Release(S)
      <4>1. Pool!Cardinality(S) = Cardinality(S)
        BY Zenon DEF Pool!Cardinality, Cardinality, IsFiniteSet, Pool!IsFiniteSet
      <4> QED BY <2>3, <4>1 DEF Pool!Release
    <3>2. \E T \in SUBSET Held : T # {} /\ Pool!Release(T)
      BY <2>3, <3>1
    <3> QED BY <3>2 DEF Pool!PermitNext
  <2>4. ASSUME NEW r \in Requests, NEW u \in Usages, Settle(r, u)
        PROVE  Pool!PermitNext
    <3>1. {r} \in SUBSET Held /\ {r} # {} /\ Held' = Held \ {r} /\ conc' = conc - Cardinality({r})
      BY <2>1, <2>4, FreshSettle
    <3> QED BY <2>3, <3>1
  <2>5. ASSUME NEW B \in Batches(now), B # {}, Sweep(B)
        PROVE  Pool!PermitNext
    <3>1. B \in SUBSET Held /\ Held' = Held \ B /\ conc' = conc - Cardinality(B)
      BY <2>1, <2>5, FreshSweep
    <3> QED BY <2>3, <2>5, <3>1
  <2>6. CASE \E p \in Plans, e \in Estimates, m \in Months, t \in Clocks : Deny(p, e, m, t)
    BY <2>6 DEF Deny, Held
  <2>7. CASE UNCHANGED <<keys, history>>
    BY <2>7 DEF keys, Held
  <2> QED BY <2>1, <2>2, <2>4, <2>5, <2>6, <2>7 DEF FreshNext
<1> QED BY <1>2, <1>3, ExactHolds, PTL DEF Spec

(* The requests that run upstream with a reservation are never more than    *)
(* the concurrent_streams of some plan, whatever calls are lost, late or    *)
(* repeated: what conc_key counts bounds what really runs, because no       *)
(* reservation in use is swept (total_s < reservation_ttl_s) and none is    *)
(* counted twice or not at all (Orderly).                                   *)
THEOREM StreamsWithinPlan ==
  ASSUME Orderly, TotalTime < Ttl
  PROVE  Spec => [](\E p \in Plans :
                       Cardinality({r \in Requests : phase[r] = "running" /\ reserved[r]})
                          <= p.conc_cap)
<1> DEFINE Running == {r \in Requests : phase[r] = "running" /\ reserved[r]}
           InPlan == \E p \in Plans : Cardinality(Running) <= p.conc_cap
<1>1. ExactInv /\ PermitsCoverHeld /\ LiveReservationHeld => InPlan
  <2> SUFFICES ASSUME ExactInv, PermitsCoverHeld, LiveReservationHeld PROVE InPlan
    OBVIOUS
  <2>1. Running \subseteq Held /\ IsFiniteSet(Held)
    BY HeldIsFinite DEF ExactInv, MonthsInv, Held, LiveReservationHeld
  <2> HIDE DEF Running
  <2>2. Cardinality(Running) <= Cardinality(Held) /\ IsFiniteSet(Running)
    BY <2>1, FS_Subset
  <2>3. Cardinality(Running) \in Nat /\ Cardinality(Held) \in Nat
    BY <2>1, <2>2, FS_CardinalityType
  <2>4. PICK p \in Plans : conc <= p.conc_cap
    BY DEF PermitsCoverHeld
  <2> QED BY <2>2, <2>3, <2>4, PlansAssumption DEF ExactInv, Exact
<1> QED BY <1>1, ExactHolds, ServiceCoversHeld, ReservationsInUseAreHeld, PTL
=============================================================================
