------------------------------- MODULE Attempts -------------------------------
(***************************************************************************)
(* One stream from its admission to its end: attempts that are tried again *)
(* until data was sent, a second upstream raced against a slow first one,  *)
(* the records and the settlement that name who answered, a stale answer   *)
(* or an error when nobody did, and a client that may go at any point      *)
(* (routes.py, _stream_with_retries and what it calls; sse.py;             *)
(* providers/openai_compat.py).                                            *)
(*                                                                         *)
(* A step is what runs between two awaits.  Calls have the number of their *)
(* attempt record.  `at` is where the body of the response is; at "sent"   *)
(* and "said" it is suspended at a yield, where a cancellation does not    *)
(* reach it and the collector closes it later.                             *)
(*                                                                         *)
(* Abstractions: contents, prices and heartbeats are left out; breakers,   *)
(* levels and the hedge budget are choices (Routing models the first two); *)
(* the flight and the cache are in SingleFlight and SemanticCache.         *)
(***************************************************************************)
EXTENDS Integers, FiniteSets

CONSTANTS
    Deployments,
    MaxAttempts,  \* routing.max_attempts_before_first_byte
    Hedging,      \* whether the policy hedges
    Stale,        \* whether a stale answer is to be found in the cache
    None          \* no deployment, no call

ASSUME AttemptsAssumption ==
    /\ IsFiniteSet(Deployments)
    /\ MaxAttempts \in Nat \ {0}
    /\ Hedging \in BOOLEAN /\ Stale \in BOOLEAN
    /\ None \notin Deployments \cup Nat

Calls == 0..2 * MaxAttempts

VARIABLES
    at,           \* where the body is
    tried,        \* attempted: the deployments of the attempts so far
    count, seq,   \* attempt_count; the next attempt_seq of the request
    prim, now,    \* the calls of the attempt, and of the stream that is rendered
    rival, hedge, \* the deployment picked for a hedge, and the call to it
    dep, priced,  \* deployment, and the one of the reservation
    call,         \* the upstream calls: to whom, and what they have to give
    usage,        \* accounting.usage: the call it is of
    records,      \* attempt records put on the queue
    quota, wrote, \* the settlement, and ledger_written
    spoke, done,  \* the calls whose data was sent, and whether [DONE] was
    gone, cut     \* whether the client is gone, and the task was cancelled

attempt == <<tried, count, seq, prim, rival, hedge, dep>>
money == <<usage, records, quota, wrote>>
client == <<spoke, done, gone, cut>>
vars == <<at, attempt, now, priced, call, money, client>>

Errors == {"retryable", "final"}
Over == {"ended", "crashed", "closed"} \cup Errors

Open == {c \in Calls : call[c].st \in {"waiting", "ready", "idle"}}

Set(c, st) == call' = [call EXCEPT ![c].st = st]

Record(c, outcome, d) == [seq |-> c, outcome |-> outcome, dep |-> d]

(***************************************************************************)
(* The upstream call: stream_chat of the provider                          *)
(***************************************************************************)
(* A line with a delta. *)
Gives(c) ==
    /\ call[c].st = "waiting"
    /\ Set(c, "ready")
    /\ UNCHANGED <<at, attempt, now, priced, money, client>>

(* The end of the answer, an error that may be tried again or not, or an    *)
(* exception that is no GatewayError.                                       *)
Stops(c) ==
    /\ call[c].st = "waiting"
    /\ \E st \in Errors \cup {"ended", "crashed"} : Set(c, st)
    /\ UNCHANGED <<at, attempt, now, priced, money, client>>

(* A generator that nothing refers to is closed: of a task that outlived a  *)
(* cancelled race, or of a body that was left.                              *)
Collected(c) ==
    /\ call[c].st \in {"ready", "idle"}
    /\ at \in {"after", "finally", "settling", "flushing", "over"}
    /\ Set(c, "closed")
    /\ UNCHANGED <<at, attempt, now, priced, money, client>>

(***************************************************************************)
(* An attempt                                                              *)
(***************************************************************************)
Picks(d) ==
    /\ at = "pick" /\ count < MaxAttempts /\ d \notin tried
    /\ tried' = tried \cup {d}
    /\ dep' = d /\ priced' = d
    /\ count' = count + 1 /\ seq' = seq + 1
    /\ prim' = seq

Dispatches(c, d) == call' = [call EXCEPT ![c] = [dep |-> d, st |-> "waiting"]]

(* record_start refuses a deployment that another request has found limited *)
(* since it was picked: of the first only, which was picked before the      *)
(* reservation of the quota.                                                *)
Refused(d) ==
    /\ Picks(d) /\ count = 0
    /\ UNCHANGED <<at, now, rival, hedge, call, money, client>>

Starts(d) ==
    /\ Picks(d)
    /\ Dispatches(seq, d)
    /\ now' = seq /\ at' = "body"
    /\ UNCHANGED <<rival, hedge, money, client>>

(* The hedge is picked beforehand, and called if no delta comes in time. *)
StartsRace(d, e) ==
    /\ Hedging /\ e \notin tried \cup {d}
    /\ Picks(d)
    /\ Dispatches(seq, d)
    /\ rival' = e /\ at' = "race"
    /\ UNCHANGED <<now, hedge, money, client>>

NobodyLeft ==
    /\ at = "pick" /\ count > 0
    /\ at' = "after"
    /\ UNCHANGED <<attempt, now, priced, call, money, client>>

(***************************************************************************)
(* The race                                                                *)
(***************************************************************************)
Delay ==
    /\ at = "race" /\ call[prim].st = "waiting"
    /\ Dispatches(seq, rival)
    /\ hedge' = seq /\ seq' = seq + 1
    /\ at' = "racing"
    /\ UNCHANGED <<tried, count, prim, rival, dep, now, priced, money, client>>

(* Defect: an attempt may be repeated after its data. *)
RetriesAnyhow == count < MaxAttempts

(* "Only SSE data events form the idempotency boundary" (routes.py:732). *)
Retries == spoke = {} /\ count < MaxAttempts

(* A call c of the attempt was no success: the error is recorded of the     *)
(* attempt's own number, and the attempt repeated if nothing was sent.  An  *)
(* end without a first delta, and exceptions that are no GatewayError,      *)
(* leave the body.                                                          *)
Fails(c) ==
    IF call[c].st \in Errors
    THEN /\ records' = records \cup {Record(prim, "failed", dep)}
         /\ at' = IF call[c].st = "retryable" /\ Retries THEN "pick" ELSE "after"
    ELSE at' = "finally" /\ UNCHANGED records

PrimaryFirst ==
    /\ at = "race"
    /\ \/ /\ call[prim].st = "ready"
          /\ now' = prim /\ at' = "body"
          /\ UNCHANGED records
       \/ /\ call[prim].st \in Over
          /\ Fails(prim)
          /\ UNCHANGED now
    /\ UNCHANGED <<attempt, priced, call, usage, quota, wrote, client>>

(* Defect: the reservation stays priced for the deployment first called. *)
WinsUnpriced(w, l) ==
    /\ now' = w /\ at' = "body"
    /\ dep' = call[w].dep /\ UNCHANGED priced
    /\ records' = records \cup {Record(l, "hedge_loser", call[l].dep)}

Wins(w, l) ==
    /\ now' = w /\ at' = "body"
    /\ dep' = call[w].dep /\ priced' = call[w].dep
    /\ records' = records \cup {Record(l, "hedge_loser", call[l].dep)}

(* Defect: the other stream is left to itself. *)
LoserGoesOn(l) == UNCHANGED call

LoserClosed(l) == Set(l, "closed")

(* Defect: a failure does not end the race. *)
RaceGoesOn(w, l) ==
    /\ at = "racing" /\ call[w].st = "ready"
    /\ LoserClosed(l)
    /\ Wins(w, l)
    /\ UNCHANGED <<tried, count, seq, prim, rival, hedge, usage, quota, wrote, client>>

(* The task that ends first wins, with a delta or without. *)
RaceEnds(w, l) ==
    /\ at = "racing"
    /\ LoserClosed(l)
    /\ \/ call[w].st = "ready" /\ Wins(w, l)
       \/ call[w].st \in Over /\ Fails(w) /\ UNCHANGED <<dep, priced, now>>
    /\ UNCHANGED <<tried, count, seq, prim, rival, hedge, usage, quota, wrote, client>>

(***************************************************************************)
(* The stream                                                              *)
(***************************************************************************)
(* A delta is sent; its usage comes after some data. *)
Delivers ==
    /\ at = "body" /\ call[now].st = "ready"
    /\ spoke' = spoke \cup {now}
    /\ usage' \in {usage} \cup (IF now \in spoke THEN {now} ELSE {})
    /\ Set(now, "idle")
    /\ at' = "sent"
    /\ UNCHANGED <<attempt, now, priced, records, quota, wrote, done, gone, cut>>

Goes ==
    /\ at = "sent"
    /\ Set(now, "waiting")
    /\ at' = "body"
    /\ UNCHANGED <<attempt, now, priced, money, client>>

(* is_disconnected before a delta is sent. *)
Disconnects ==
    /\ at = "body" /\ call[now].st = "ready"
    /\ gone' = TRUE
    /\ Set(now, "idle")
    /\ at' = "finally"
    /\ UNCHANGED <<attempt, now, priced, money, spoke, done, cut>>

Breaks ==
    /\ at = "body" /\ call[now].st \in Errors \cup {"crashed"}
    /\ Fails(now)
    /\ UNCHANGED <<attempt, now, priced, call, usage, quota, wrote, client>>

Finishes ==
    /\ at = "body" /\ call[now].st = "ended"
    /\ IF usage # None
       THEN /\ records' = records \cup {Record(now, "delivered", dep)}
            /\ at' = "storing"
       ELSE at' = "done" /\ UNCHANGED records
    /\ UNCHANGED <<attempt, now, priced, call, usage, quota, wrote, client>>

(* settle_once and refund_full: nothing if one of them was begun before.    *)
Begins == quota' = IF quota = "held" THEN "begun" ELSE quota

Ends(q) == quota' = IF quota = "begun" THEN q ELSE quota

Stored ==
    /\ at = "storing"
    /\ Begins
    /\ at' = "billing"
    /\ UNCHANGED <<attempt, now, priced, call, usage, records, wrote, client>>

Billed ==
    /\ at = "billing"
    /\ Ends("settled")
    /\ at' = "writing"
    /\ UNCHANGED <<attempt, now, priced, call, usage, records, wrote, client>>

Written ==
    /\ at = "writing"
    /\ wrote' = TRUE
    /\ at' = "done"
    /\ UNCHANGED <<attempt, now, priced, call, usage, records, quota, client>>

(* Nobody answered: a stale answer, whose quota is refunded, or an error. *)
Replays ==
    /\ at = "after" /\ Stale
    /\ Begins
    /\ at' = "refunding"
    /\ UNCHANGED <<attempt, now, priced, call, usage, records, wrote, client>>

Refunded ==
    /\ at = "refunding"
    /\ Ends("refunded")
    /\ at' = "done"
    /\ UNCHANGED <<attempt, now, priced, call, usage, records, wrote, client>>

GivesUp ==
    /\ at = "after"
    /\ at' = "done"
    /\ UNCHANGED <<attempt, now, priced, call, money, client>>

SaysDone ==
    /\ at = "done"
    /\ done' = TRUE
    /\ at' = "said"
    /\ UNCHANGED <<attempt, now, priced, call, money, spoke, gone, cut>>

Returns ==
    /\ at = "said"
    /\ at' = "finally"
    /\ UNCHANGED <<attempt, now, priced, call, money, client>>

(***************************************************************************)
(* finally                                                                 *)
(***************************************************************************)
(* The usage goes to the ledger unless it is there. *)
Unwritten == IF usage # None /\ ~wrote THEN "flushing" ELSE "over"

(* A settlement that was begun before, and perhaps cancelled, is not        *)
(* repeated.                                                                *)
Finally ==
    /\ at = "finally"
    /\ Begins
    /\ at' = IF quota = "held" THEN "settling" ELSE Unwritten
    /\ UNCHANGED <<attempt, now, priced, call, usage, records, wrote, client>>

Settles ==
    /\ at = "settling"
    /\ Ends("settled")
    /\ at' = Unwritten
    /\ UNCHANGED <<attempt, now, priced, call, usage, records, wrote, client>>

Flushes ==
    /\ at = "flushing"
    /\ wrote' = TRUE
    /\ at' = "over"
    /\ UNCHANGED <<attempt, now, priced, call, usage, records, quota, client>>

(***************************************************************************)
(* The client goes                                                         *)
(***************************************************************************)
Awaits == {"race", "racing", "body", "storing", "billing", "writing", "after", "refunding"}

(* listen_for_disconnect ends first, and the task of the response is        *)
(* cancelled once.  A stream that is awaited is closed, the two of a race   *)
(* go on in their tasks, and finally is cut short.                          *)
Cancelled ==
    /\ ~cut /\ at \in Awaits \cup {"sent", "said", "settling", "flushing"}
    /\ cut' = TRUE /\ gone' = TRUE
    /\ at' = IF at \in Awaits THEN "finally" ELSE IF at \in {"sent", "said"} THEN "left" ELSE "over"
    /\ IF at = "body" THEN Set(now, "closed") ELSE UNCHANGED call
    /\ UNCHANGED <<attempt, now, priced, money, spoke, done>>

(* The body that was left at a yield is collected: GeneratorExit. *)
Closes ==
    /\ at = "left"
    /\ at' = "finally"
    /\ UNCHANGED <<attempt, now, priced, call, money, client>>

Init ==
    /\ at = "pick" /\ tried = {} /\ count = 0 /\ seq = 0
    /\ prim = None /\ now = None /\ rival = None /\ hedge = None
    /\ dep = None /\ priced = None
    /\ call = [c \in Calls |-> [dep |-> None, st |-> "closed"]]
    /\ usage = None /\ records = {} /\ quota = "held" /\ wrote = FALSE
    /\ spoke = {} /\ done = FALSE /\ gone = FALSE /\ cut = FALSE

Attempt ==
    \/ \E d \in Deployments : Refused(d) \/ Starts(d)
    \/ \E d, e \in Deployments : StartsRace(d, e)
    \/ NobodyLeft

Race == Delay \/ PrimaryFirst \/ RaceEnds(prim, hedge) \/ RaceEnds(hedge, prim)

Stream == Delivers \/ Goes \/ Disconnects \/ Breaks \/ Finishes

Ending ==
    \/ Stored \/ Billed \/ Written \/ Replays \/ Refunded \/ GivesUp
    \/ SaysDone \/ Returns \/ Finally \/ Settles \/ Flushes \/ Closes

Gateway == Attempt \/ Race \/ Stream \/ Ending

Next ==
    \/ Gateway \/ Cancelled
    \/ \E c \in Calls : Gives(c) \/ Stops(c) \/ Collected(c)

(* The event loop and the collector go on, and an upstream that is waited   *)
(* for time and again stops at last: stalls end by the timeouts of httpx,   *)
(* and answers are assumed to end, as the deadline of a stream does not     *)
(* fire once its first delta was taken by a task of its own.                *)
Fairness ==
    /\ WF_vars(Gateway)
    /\ \A c \in Calls : SF_vars(Stops(c)) /\ WF_vars(Collected(c))

Spec == Init /\ [][Next]_vars /\ Fairness

(***************************************************************************)
(* Properties                                                              *)
(***************************************************************************)
AttemptsTypeOK ==
    /\ at \in Awaits \cup {"pick", "sent", "done", "said", "left", "finally", "settling",
                           "flushing", "over"}
    /\ tried \subseteq Deployments
    /\ count \in 0..MaxAttempts /\ seq \in count..2 * count
    /\ {prim, now, hedge, usage} \subseteq Calls \cup {None}
    /\ {rival, dep, priced} \subseteq Deployments \cup {None}
    /\ call \in [Calls -> [dep : Deployments \cup {None},
                           st : {"waiting", "ready", "idle"} \cup Over]]
    /\ records \subseteq [seq : Calls, outcome : {"failed", "hedge_loser", "delivered"},
                          dep : Deployments]
    /\ quota \in {"held", "begun", "settled", "refunded"}
    /\ spoke \subseteq Calls
    /\ wrote \in BOOLEAN /\ done \in BOOLEAN /\ gone \in BOOLEAN /\ cut \in BOOLEAN

(* What a client reads is of one upstream call, whatever is repeated and    *)
(* raced, and a body it reads to the end ends with [DONE], unless an        *)
(* exception that is no GatewayError, or an end before the first delta of a *)
(* race, broke it off.                                                      *)
BodyWhole ==
    /\ Cardinality(spoke) <= 1
    /\ at = "over" /\ ~gone =>
        \/ done
        \/ \E c \in Calls : call[c].st = "crashed"
        \/ Hedging /\ spoke = {} /\ \E c \in Calls : call[c].st = "ended"

(* The attempt that the tenant pays for is the one whose data was sent: its *)
(* record, the only one of its number, its usage and the deployment that    *)
(* the settlement prices name the same call.                                *)
BilledAsSent ==
    \A r \in records :
        r.outcome = "delivered" =>
            /\ {r.seq} = spoke /\ usage = r.seq
            /\ r.dep = call[r.seq].dep /\ priced = r.dep
            /\ \A q \in records : q.seq = r.seq => q = r

(* A client that is there has at most one upstream stream open for it, but  *)
(* during a race: "After one stream wins, the other attempt is cancelled"   *)
(* (README.md:17), and so it is after one fails.                            *)
OneOpen == ~gone /\ at # "racing" => Cardinality(Open) <= 1

(* The stream comes to its end and every upstream stream is closed, also if *)
(* the client goes in the middle of a race or of a yield: "a client         *)
(* disconnect closes the provider stream" (README.md:9).                    *)
AllClosed == <>[](at = "over" /\ Open = {})
=============================================================================
