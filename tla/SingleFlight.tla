----------------------------- MODULE SingleFlight -----------------------------
(***************************************************************************)
(* Requests of one gateway for the same cache key: the lookup, the flight  *)
(* in which one of them leads and the others wait for its answer           *)
(* (cache/singleflight.py), the second lookup of the leader, the cascade   *)
(* draft, the upstream call, and what each way out does to the flight      *)
(* (api/routes.py).  Flights of different keys do not meet.                *)
(*                                                                         *)
(* A step is what the event loop runs between two awaits.  A request leads *)
(* at most one flight, which is named after it.                            *)
(*                                                                         *)
(* Abstractions: the upstream call stands for all its attempts; the answer *)
(* is not told apart; what can_store refuses is a store that fails; the    *)
(* quota is in QuotaService, the records are in Ledger.  Requests that     *)
(* bypass the cache acquire no flight.  That the server cancels handlers   *)
(* that do not stream, at its shutdown, is left out.                       *)
(***************************************************************************)
CONSTANTS
    Requests,
    Streams,      \* the requests with "stream": true
    Cascades,     \* the requests whose policy drafts with a cheaper group
    Faults,       \* "cache": lookups and stores fail, entries expire
                  \* "raise": an await raises what the code does not expect
                  \* "leave": clients of streams go away
    None

ASSUME FlightAssumption ==
    /\ Streams \subseteq Requests
    /\ Cascades \subseteq Requests \ Streams     \* cascade_decision: no streams
    /\ Faults \subseteq {"cache", "raise", "leave"}
    /\ None \notin Requests

VARIABLES
    pc,        \* the await each request's coroutine is at
    found,     \* what its last lookup returned
    flight,    \* the flight it acquired; it leads flight[r] = r
    future,    \* the future of the flight each request leads
    table,     \* SingleFlight._futures of the key
    entry,     \* whether L1 holds an answer for the key
    early,     \* history: entry, when the request acquired its flight, unless
               \* it expired or a lookup of the request failed since
    last       \* history: the await from which a request came to its end

vars == <<pc, found, flight, future, table, entry, early, last>>

Awaits == {"new", "looked", "waiting", "rechecking", "rechecked", "draft", "starting",
           "upstream", "storing", "stored", "flushing", "leaving"}
Leading == Awaits \ {"new", "looked", "waiting"}
Ends == {"served", "failed", "died"}

Leads(r) == flight[r] = r
At(r, p) == pc[r] = p
Goto(r, p) ==
    /\ pc' = [pc EXCEPT ![r] = p]
    /\ last' = IF p \in Ends THEN [last EXCEPT ![r] = pc[r]] ELSE last

(***************************************************************************)
(* SingleFlight.  resolve and reject do nothing to a future that is done,  *)
(* release pops whatever flight the key has.                               *)
(***************************************************************************)
Complete(r, v) ==
    future' = IF Leads(r) /\ future[r] = "pending"
              THEN [future EXCEPT ![r] = v] ELSE future

Resolve(r) == Complete(r, "value")
Reject(r, v) == Complete(r, v)

Release(r) == table' = IF Leads(r) THEN None ELSE table

Keep == UNCHANGED <<future, table>>
Same == UNCHANGED <<found, flight, entry, early>>

(***************************************************************************)
(* CacheService.lookup: a hit if L1 has the answer when Redis runs the     *)
(* command; an error of Redis is a miss.                                   *)
(***************************************************************************)
Lookup(r, p) ==
    /\ Goto(r, p)
    /\ \E hit \in {entry} \cup (IF "cache" \in Faults THEN {FALSE} ELSE {}) :
          /\ found' = [found EXCEPT ![r] = hit]
          /\ early' = [early EXCEPT ![r] = @ /\ (entry => hit)]
    /\ UNCHANGED <<flight, entry>>
    /\ Keep

Look(r) == At(r, "new") /\ Lookup(r, "looked")

Found(r) ==
    /\ At(r, "looked") /\ found[r]
    /\ Goto(r, "served")
    /\ Same /\ Keep

(* SingleFlight.acquire *)
Acquire(r) ==
    /\ At(r, "looked") /\ ~found[r]
    /\ flight' = [flight EXCEPT ![r] = IF table = None THEN r ELSE table]
    /\ table' = IF table = None THEN r ELSE table
    /\ future' = IF table = None THEN [future EXCEPT ![r] = "pending"] ELSE future
    /\ early' = [early EXCEPT ![r] = entry]
    /\ Goto(r, IF table = None THEN "rechecking" ELSE "waiting")
    /\ UNCHANGED <<found, entry>>

(***************************************************************************)
(* Upstream at last: through a draft, or through the start of a stream.    *)
(***************************************************************************)
Dispatch(r) ==
    Goto(r, IF r \in Streams THEN "starting" ELSE IF r \in Cascades THEN "draft" ELSE "upstream")

(***************************************************************************)
(* A follower                                                              *)
(***************************************************************************)
Served(r) ==
    /\ At(r, "waiting") /\ future[flight[r]] = "value"
    /\ Goto(r, "served")
    /\ Same /\ Keep

(* "except Exception": an independent upstream attempt. *)
FallBack(r) ==
    /\ At(r, "waiting") /\ future[flight[r]] = "error"
    /\ Dispatch(r)
    /\ Same /\ Keep

(* An exception that is no Exception passes by it. *)
Inherit(r) ==
    /\ At(r, "waiting") /\ future[flight[r]] = "fatal"
    /\ Goto(r, "died")
    /\ Same /\ Keep

(* Defect: the follower waits for as long as its leader takes. *)
WaitUnbounded(r) ==
    /\ At(r, "waiting") /\ future[flight[r]] = "error"
    /\ Dispatch(r)
    /\ Same /\ Keep

(* Defect: the future is not shielded, the timeout cancels it for everyone. *)
WaitTimesOutUnshielded(r) ==
    /\ At(r, "waiting") /\ future[flight[r]] = "pending"
    /\ future' = [future EXCEPT ![flight[r]] = "cancelled"]
    /\ Dispatch(r)
    /\ UNCHANGED table
    /\ Same

(* singleflight_wait_timeout_ms, or less when the deadline is near. *)
WaitTimesOut(r) ==
    /\ At(r, "waiting") /\ future[flight[r]] = "pending"
    /\ Dispatch(r)
    /\ Same /\ Keep

(***************************************************************************)
(* A leader                                                                *)
(***************************************************************************)
Recheck(r) == At(r, "rechecking") /\ Lookup(r, "rechecked")

RecheckHit(r) ==
    /\ At(r, "rechecked") /\ found[r]
    /\ Resolve(r) /\ Release(r)
    /\ Goto(r, "served")
    /\ Same

(* Defect: the answer of the second lookup is not looked at. *)
RecheckIgnored(r) ==
    /\ At(r, "rechecked")
    /\ Dispatch(r)
    /\ Same /\ Keep

RecheckMiss(r) ==
    /\ At(r, "rechecked") /\ ~found[r]
    /\ Dispatch(r)
    /\ Same /\ Keep

(* A lookup raises (a broken process pool): nothing ends the leader's flight. *)
LookupRaises(r) ==
    /\ "raise" \in Faults
    /\ pc[r] \in {"new", "rechecking"}
    /\ Goto(r, "failed")
    /\ Same /\ Keep

(***************************************************************************)
(* The draft of a cascade runs without the flight.                         *)
(***************************************************************************)
DraftAccepted(r) ==
    /\ At(r, "draft")
    /\ Reject(r, "error") /\ Release(r)
    /\ Goto(r, "served")
    /\ Same

DraftEscalated(r) == At(r, "draft") /\ Goto(r, "upstream") /\ Same /\ Keep

DraftFails(r) == At(r, "draft") /\ Goto(r, "failed") /\ Same /\ Keep

(***************************************************************************)
(* _call_non_stream_upstream with the flight: a finally releases it.       *)
(***************************************************************************)
Plain(r) == r \notin Streams

Answer(r) ==
    /\ Plain(r) /\ At(r, "upstream")
    /\ Goto(r, "storing")
    /\ Same /\ Keep

(* CacheService.store *)
Store(r) ==
    /\ At(r, "storing")
    /\ \E ok \in {TRUE} \cup (IF "cache" \in Faults THEN {FALSE} ELSE {}) :
          entry' = (entry \/ ok)
    /\ Goto(r, "stored")
    /\ UNCHANGED <<found, flight, early>>
    /\ Keep

Deliver(r) ==
    /\ Plain(r) /\ At(r, "stored")
    /\ Resolve(r) /\ Release(r)
    /\ Goto(r, "served")
    /\ Same

(* The store raises: there is a result, so the flight is not rejected.     *)
StoreRaises(r) ==
    /\ "raise" \in Faults
    /\ Plain(r) /\ At(r, "storing")
    /\ Release(r)
    /\ Goto(r, "failed")
    /\ UNCHANGED future
    /\ Same

(* Defect: the flight is rejected but stays in the table. *)
ExhaustUnreleased(r) ==
    /\ Plain(r) /\ At(r, "upstream")
    /\ Reject(r, "error")
    /\ \E p \in {"served", "failed"} : Goto(r, p)
    /\ UNCHANGED table
    /\ Same

(* No attempt succeeded: a stale answer, or the last error. *)
Exhaust(r) ==
    /\ Plain(r) /\ At(r, "upstream")
    /\ Reject(r, "error") /\ Release(r)
    /\ \E p \in {"served", "failed"} : Goto(r, p)
    /\ Same

(***************************************************************************)
(* _stream_with_retries: the future is resolved before the store, and the  *)
(* flight released last, after the settlement and the flush of the ledger. *)
(***************************************************************************)
StreamStarts(r) == At(r, "starting") /\ Goto(r, "upstream") /\ Same /\ Keep

(* The client is gone before the generator was first asked for a chunk: its *)
(* finally never runs.                                                      *)
StreamUnstarted(r) ==
    /\ "leave" \in Faults
    /\ At(r, "starting")
    /\ Goto(r, "failed")
    /\ Same /\ Keep

(* Defect: the flight is released with its result, and again at the end. *)
StreamAnswerReleased(r) ==
    /\ r \in Streams /\ At(r, "upstream")
    /\ Resolve(r) /\ Release(r)
    /\ Goto(r, "storing")
    /\ Same

StreamAnswer(r) ==
    /\ r \in Streams /\ At(r, "upstream")
    /\ Resolve(r)
    /\ Goto(r, "storing")
    /\ UNCHANGED table
    /\ Same

StreamFlush(r) ==
    /\ r \in Streams /\ At(r, "stored")
    /\ Goto(r, "flushing")
    /\ Same /\ Keep

(* enqueue_and_flush returns once Postgres has the record. *)
Flushed(r) == At(r, "flushing") /\ Goto(r, "leaving") /\ Same /\ Keep

(* No usage, no attempt that succeeded (stale or not), or the client left *)
(* while the generator ran.                                               *)
StreamRejects(r) ==
    /\ r \in Streams /\ At(r, "upstream")
    /\ Reject(r, "error")
    /\ Goto(r, "leaving")
    /\ UNCHANGED table
    /\ Same

(* The client left while a chunk was sent: the generator is closed where it *)
(* waits at a yield, by a GeneratorExit.                                    *)
StreamClosed(r) ==
    /\ "leave" \in Faults
    /\ r \in Streams /\ At(r, "upstream")
    /\ Reject(r, "fatal")
    /\ Goto(r, "leaving")
    /\ UNCHANGED table
    /\ Same

(* Cancelled, or closed, or the store raises: it still has to flush. *)
StreamCut(r) ==
    /\ Faults \cap {"leave", "raise"} # {}
    /\ r \in Streams /\ pc[r] \in {"storing", "stored"}
    /\ Goto(r, "flushing")
    /\ Same /\ Keep

Leave(r) ==
    /\ At(r, "leaving")
    /\ Release(r)
    /\ Goto(r, "served")
    /\ UNCHANGED future
    /\ Same

(* The TTL of the entry in L1. *)
Expire ==
    /\ "cache" \in Faults
    /\ entry
    /\ entry' = FALSE
    /\ early' = [r \in Requests |-> FALSE]
    /\ UNCHANGED <<pc, found, flight, last>>
    /\ Keep

Init ==
    /\ pc = [r \in Requests |-> "new"]
    /\ found = [r \in Requests |-> FALSE]
    /\ flight = [r \in Requests |-> None]
    /\ future = [r \in Requests |-> "pending"]
    /\ table = None
    /\ entry \in BOOLEAN
    /\ early = [r \in Requests |-> FALSE]
    /\ last = [r \in Requests |-> "new"]

Looks(r) == Look(r) \/ Found(r) \/ Acquire(r) \/ LookupRaises(r)

Follows(r) == Served(r) \/ FallBack(r) \/ Inherit(r) \/ WaitTimesOut(r)

Drafts(r) == DraftAccepted(r) \/ DraftEscalated(r) \/ DraftFails(r)

Upstream(r) == Answer(r) \/ Store(r) \/ Deliver(r) \/ StoreRaises(r) \/ Exhaust(r)

Stream(r) ==
    \/ StreamStarts(r) \/ StreamUnstarted(r) \/ StreamAnswer(r) \/ StreamFlush(r)
    \/ Flushed(r) \/ StreamRejects(r) \/ StreamClosed(r) \/ StreamCut(r) \/ Leave(r)

Step(r) ==
    \/ Looks(r) \/ Follows(r)
    \/ Recheck(r) \/ RecheckHit(r) \/ RecheckMiss(r)
    \/ Drafts(r) \/ Upstream(r) \/ Stream(r)

Next == (\E r \in Requests : Step(r)) \/ Expire

(* Every await ends: Redis and the upstream calls have timeouts, Postgres  *)
(* answers in the end, the server asks for chunks or drops the stream.     *)
(* Nothing is assumed of the leader that a follower waits for.             *)
Fairness == \A r \in Requests : WF_vars(Step(r))

Spec == Init /\ [][Next]_vars /\ Fairness

(***************************************************************************)
(* Properties                                                              *)
(***************************************************************************)
Over(r) == pc[r] \in Ends

(* Type correctness. *)
FlightTypeOK ==
    /\ pc \in [Requests -> Awaits \cup Ends]
    /\ found \in [Requests -> BOOLEAN]
    /\ flight \in [Requests -> Requests \cup {None}]
    /\ future \in [Requests -> {"pending", "value", "error", "fatal"}]
    /\ table \in Requests \cup {None}
    /\ entry \in BOOLEAN
    /\ early \in [Requests -> BOOLEAN]
    /\ last \in [Requests -> Awaits \cup Ends]

(* The flight that a leader works for is the one the key has, from acquire  *)
(* until it releases it: no release takes away another request's flight,    *)
(* although it pops by key, and no two requests lead at the same time.      *)
OneLeader == \A r \in Requests : Leads(r) /\ ~Over(r) => table = r

(* A flight outlives its leader only if the leader was turned off its way   *)
(* before the call that would release it: by a failed draft, a lookup that  *)
(* raised, or a stream that never started.                                  *)
LeftBehind ==
    table # None /\ Over(table) => last[table] \in {"draft", "rechecking", "starting"}

(* routes.py:983, "so the same concurrent miss still collapses to one       *)
(* provider request": a leader whose key was answered before it acquired    *)
(* the flight does not call upstream.                                       *)
Collapsed ==
    \A r \in Requests : Leads(r) /\ pc[r] \in {"draft", "starting", "upstream"} => ~early[r]

(* Every request comes to an end, also those that wait for a flight whose   *)
(* leader left it behind.                                                   *)
AllReturn == \A r \in Requests : <>Over(r)

(* A key's flights, each with the result of the request that leads it. *)
Results == [r \in Requests |-> IF Leads(r) THEN future[r] ELSE "none"]

Air == INSTANCE Flights WITH current <- table, result <- Results
=============================================================================
