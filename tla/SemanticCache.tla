----------------------------- MODULE SemanticCache -----------------------------
(***************************************************************************)
(* The two levels of the response cache: exact answers in Redis, with a    *)
(* time to live (cache/l1.py), and an index of texts that points to them   *)
(* (cache/l2.py), looked up and filled by the requests (cache/service.py), *)
(* thinned out by the capacity sweep, and by clients that report a wrong   *)
(* answer.                                                                 *)
(*                                                                         *)
(* A step is what runs between two commands to Redis.  Each command may    *)
(* fail, with or without its effect.                                       *)
(*                                                                         *)
(* Abstractions: an answer is named after the request it was generated     *)
(* for, and so is the index entry that request stores; the nearest texts   *)
(* of the approximate index are any of those above the recall threshold;   *)
(* last_hit_at is a counter; SCAN returns no key twice.  The flights around *)
(* the lookups are those of SingleFlight.                                  *)
(***************************************************************************)
EXTENDS Integers, FiniteSets, Sequences, SequencesExt

CONSTANTS
    Requests,
    Earlier,         \* those answered and stored at the start
    Keys,            \* what l1_digest tells apart, for a tenant
    KeyOf,           \* the key of each request
    Scope,           \* tenant and prompt_version of each key
    Gate,            \* "bypass", "l1" or "l2": how far each key may go
    Recalled,        \* pairs of keys whose texts are near enough to be ranked
    Rank,            \* the score of the reranker for each pair
    Threshold,       \* the tenant's operating point
    StaleDelta,      \* l2.stale_threshold_delta
    TopK,            \* l2.recall_top_k
    IndexCapacity,   \* l2.index_capacity
    MemoCapacity,    \* _request_entry_capacity
    None

ASSUME CacheAssumption ==
    /\ IsFiniteSet(Requests) /\ None \notin Requests /\ Earlier \subseteq Requests
    /\ KeyOf \in [Requests -> Keys]
    /\ Gate \in [Keys -> {"bypass", "l1", "l2"}]
    /\ Recalled \subseteq Keys \X Keys
    /\ Rank \in [Keys \X Keys -> Int]
    /\ Threshold \in Int /\ StaleDelta \in Nat
    /\ TopK \in Nat \ {0} /\ IndexCapacity \in Nat /\ MemoCapacity \in Nat

VARIABLES
    pc, stale,      \* where each request is, and whether its lookup is the stale one
    cand, usable,   \* candidates still to be read; those read, with their answers
    picked,         \* the entry the reranker chose, until it is marked
    served, via,    \* the answer of each request, and the entry it came through
    good,           \* whether its own answer may be cached: complete, not degraded
    l1, l2, hit,    \* the answer under each key; the entries; their last_hit_at
    memo, report,   \* _request_entries in order; the feedback of each request
    sweep, due,     \* the capacity sweep, and what was there when its scan began
    seen, doomed,   \* what it scanned, what it deletes
    up              \* whether Redis answers

lookups == <<pc, stale, cand, usable, picked, served, via, good>>
index == <<l2, hit>>
feedback == <<memo, report>>
sweeper == <<sweep, due, seen, doomed>>
vars == <<lookups, l1, index, feedback, sweeper, up>>

Goto(r, p) == pc' = [pc EXCEPT ![r] = p]

Present == {e \in Requests : l2[e] # "none"}

(* The time of a command, later than all that is remembered. *)
Now == 1 + Max({0} \cup {hit[e] : e \in Requests} \cup {s[1] : s \in seen})

Delete(e) ==
    /\ l2' = [l2 EXCEPT ![e] = "none"]
    /\ hit' = [hit EXCEPT ![e] = 0]

(***************************************************************************)
(* Lookup                                                                  *)
(***************************************************************************)
(* lookup() after read_decision; volatile requests and those with tools     *)
(* pass by.                                                                 *)
Arrive(r) ==
    /\ pc[r] = "new"
    /\ Goto(r, IF Gate[KeyOf[r]] = "bypass" THEN "upstream" ELSE "looking")
    /\ UNCHANGED <<stale, cand, usable, picked, served, via, good, l1, index, feedback,
                   sweeper, up>>

(* What a request does when a lookup gives it nothing: the stale lookup is  *)
(* its last resort.                                                         *)
Miss(r) == Goto(r, IF stale[r] THEN "failed" ELSE "upstream")

L1Get(r) ==
    /\ pc[r] = "looking" /\ up
    /\ \/ /\ l1[KeyOf[r]] # None
          /\ served' = [served EXCEPT ![r] = l1[KeyOf[r]]]
          /\ Goto(r, "done")
       \/ /\ l1[KeyOf[r]] = None
          /\ IF Gate[KeyOf[r]] = "l2" THEN Goto(r, "searching") ELSE Miss(r)
          /\ UNCHANGED served
    /\ UNCHANGED <<stale, cand, usable, picked, via, good, l1, index, feedback, sweeper, up>>

(* A RedisError or, past the exact lookup, the query_timeout_ms that bounds *)
(* the search, the reads of the candidates and the reranking.               *)
LookupGivesUp(r) ==
    /\ \/ pc[r] = "looking" /\ ~up
       \/ pc[r] \in {"searching", "reading"}
    /\ cand' = [cand EXCEPT ![r] = {}]
    /\ usable' = [usable EXCEPT ![r] = {}]
    /\ Miss(r)
    /\ UNCHANGED <<stale, picked, served, via, good, l1, index, feedback, sweeper, up>>

Near(k) == {e \in Requests : l2[e] = "full" /\ <<k, KeyOf[e]>> \in Recalled}

(* Defect: the query has no filter. *)
SearchAll(r) ==
    /\ pc[r] = "searching" /\ up
    /\ \E S \in SUBSET Near(KeyOf[r]) :
          Cardinality(S) <= TopK /\ cand' = [cand EXCEPT ![r] = S]
    /\ Goto(r, "reading")
    /\ UNCHANGED <<stale, usable, picked, served, via, good, l1, index, feedback, sweeper, up>>

(* FT.SEARCH among the entries of the tenant and prompt version. *)
Search(r) ==
    /\ pc[r] = "searching" /\ up
    /\ \E S \in SUBSET {e \in Near(KeyOf[r]) : Scope[KeyOf[e]] = Scope[KeyOf[r]]} :
          Cardinality(S) <= TopK /\ cand' = [cand EXCEPT ![r] = S]
    /\ Goto(r, "reading")
    /\ UNCHANGED <<stale, usable, picked, served, via, good, l1, index, feedback, sweeper, up>>

(* _candidate_response: the exact answer an entry points to. *)
Read(r, e) ==
    /\ pc[r] = "reading" /\ e \in cand[r]
    /\ \/ up /\ l1[KeyOf[e]] # None
          /\ usable' = [usable EXCEPT ![r] = @ \cup {<<e, l1[KeyOf[e]]>>}]
          /\ cand' = [cand EXCEPT ![r] = @ \ {e}]
          /\ UNCHANGED <<pc, picked>>
       \/ up /\ l1[KeyOf[e]] = None
          /\ picked' = [picked EXCEPT ![r] = e]
          /\ Goto(r, "dropping")
          /\ UNCHANGED <<usable, cand>>
       \/ ~up
          /\ cand' = [cand EXCEPT ![r] = @ \ {e}]
          /\ UNCHANGED <<usable, pc, picked>>
    /\ UNCHANGED <<stale, served, via, good, l1, index, feedback, sweeper, up>>

(* An entry whose answer has expired is deleted. *)
Drop(r) ==
    /\ pc[r] = "dropping"
    /\ Delete(picked[r]) \/ (~up /\ UNCHANGED index)
    /\ cand' = [cand EXCEPT ![r] = @ \ {picked[r]}]
    /\ picked' = [picked EXCEPT ![r] = None]
    /\ Goto(r, "reading")
    /\ UNCHANGED <<stale, usable, served, via, good, l1, feedback, sweeper, up>>

(* _tenant_l2_threshold, lower for a stale answer. *)
Bar(r) == IF stale[r] THEN Threshold - StaleDelta ELSE Threshold

Score(r, e) == Rank[<<KeyOf[r], KeyOf[e]>>]

(* _best_reranked_hit *)
Rerank(r) ==
    /\ pc[r] = "reading" /\ cand[r] = {}
    /\ \/ /\ \A u \in usable[r] : Score(r, u[1]) < Bar(r)
          /\ Miss(r)
          /\ UNCHANGED <<picked, served>>
       \/ \E u \in usable[r] :
             /\ Score(r, u[1]) >= Bar(r)
             /\ \A o \in usable[r] : Score(r, o[1]) <= Score(r, u[1])
             /\ picked' = [picked EXCEPT ![r] = u[1]]
             /\ served' = [served EXCEPT ![r] = u[2]]
             /\ Goto(r, "marking")
    /\ usable' = [usable EXCEPT ![r] = {}]
    /\ UNCHANGED <<stale, cand, via, good, l1, index, feedback, sweeper, up>>

(* hset of last_hit_at, which makes a hash without a vector of an entry     *)
(* that is gone.                                                            *)
Touch(e) ==
    /\ l2' = [l2 EXCEPT ![e] = IF @ = "none" THEN "ghost" ELSE @]
    /\ hit' = [hit EXCEPT ![e] = Now]

(* Defect: the whole entry is written again. *)
MarkWhole(r) ==
    /\ pc[r] = "marking" /\ up
    /\ l2' = [l2 EXCEPT ![picked[r]] = "full"]
    /\ hit' = [hit EXCEPT ![picked[r]] = Now]
    /\ via' = [via EXCEPT ![r] = picked[r]]
    /\ picked' = [picked EXCEPT ![r] = None]
    /\ Goto(r, "hit")
    /\ UNCHANGED <<stale, cand, usable, served, good, l1, feedback, sweeper, up>>

Mark(r) ==
    /\ pc[r] = "marking" /\ up
    /\ Touch(picked[r])
    /\ via' = [via EXCEPT ![r] = picked[r]]
    /\ picked' = [picked EXCEPT ![r] = None]
    /\ Goto(r, "hit")
    /\ UNCHANGED <<stale, cand, usable, served, good, l1, feedback, sweeper, up>>

(* The answer is not used when its entry cannot be marked. *)
MarkFails(r) ==
    /\ pc[r] = "marking" /\ ~up
    /\ Touch(picked[r]) \/ UNCHANGED index
    /\ served' = [served EXCEPT ![r] = None]
    /\ picked' = [picked EXCEPT ![r] = None]
    /\ Miss(r)
    /\ UNCHANGED <<stale, cand, usable, via, good, l1, feedback, sweeper, up>>

(* Defect: no request is forgotten. *)
RememberAll(r) ==
    /\ pc[r] = "hit"
    /\ memo' = Append(memo, r)
    /\ Goto(r, "done")
    /\ UNCHANGED <<stale, cand, usable, picked, served, via, good, l1, index, report,
                   sweeper, up>>

(* pop, or the half of move_to_end: r gives up its place in the order. *)
Without(s, r) ==
    IF Contains(s, r) THEN RemoveAt(s, CHOOSE i \in 1..Len(s) : s[i] = r) ELSE s

(* remember_request_entry: the oldest request is forgotten. *)
Remember(r) ==
    /\ pc[r] = "hit"
    /\ LET order == Append(Without(memo, r), r)
       IN memo' = IF Len(order) > MemoCapacity THEN Tail(order) ELSE order
    /\ Goto(r, "done")
    /\ UNCHANGED <<stale, cand, usable, picked, served, via, good, l1, index, report,
                   sweeper, up>>

(***************************************************************************)
(* Upstream and store                                                      *)
(***************************************************************************)
(* can_store: an answer that is degraded, cut off, empty, too long or of a  *)
(* rejected pattern stays out of the cache.                                 *)
Answer(r) ==
    /\ pc[r] = "upstream"
    /\ \E ok \in BOOLEAN :
          /\ good' = [good EXCEPT ![r] = ok]
          /\ Goto(r, IF ok /\ Gate[KeyOf[r]] # "bypass" THEN "storing" ELSE "done")
    /\ served' = [served EXCEPT ![r] = r]
    /\ UNCHANGED <<stale, cand, usable, picked, via, l1, index, feedback, sweeper, up>>

(* Every level has failed: a stale answer is looked for. *)
UpstreamFails(r) ==
    /\ pc[r] = "upstream"
    /\ stale' = [stale EXCEPT ![r] = TRUE]
    /\ Goto(r, IF Gate[KeyOf[r]] = "bypass" THEN "failed" ELSE "looking")
    /\ UNCHANGED <<cand, usable, picked, served, via, good, l1, index, feedback, sweeper, up>>

L1Set(r) ==
    /\ pc[r] = "storing"
    /\ \/ up /\ l1' = [l1 EXCEPT ![KeyOf[r]] = r]
          /\ Goto(r, IF Gate[KeyOf[r]] = "l2" THEN "indexing" ELSE "done")
       \/ ~up /\ Goto(r, "done")
          /\ (UNCHANGED l1 \/ l1' = [l1 EXCEPT ![KeyOf[r]] = r])
    /\ UNCHANGED <<stale, cand, usable, picked, served, via, good, index, feedback, sweeper, up>>

(* The embedding and the hset, within store_timeout_ms; the answer stays    *)
(* exact-only when they fail.                                               *)
Store(r) ==
    /\ pc[r] = "indexing"
    /\ \/ /\ l2' = [l2 EXCEPT ![r] = "full"]
          /\ hit' = [hit EXCEPT ![r] = Now]
       \/ UNCHANGED index
    /\ Goto(r, "done")
    /\ UNCHANGED <<stale, cand, usable, picked, served, via, good, l1, feedback, sweeper, up>>

(* The time to live of an exact answer. *)
Expire(k) ==
    /\ l1[k] # None
    /\ l1' = [l1 EXCEPT ![k] = None]
    /\ UNCHANGED <<lookups, index, feedback, sweeper, up>>

(***************************************************************************)
(* Feedback                                                                *)
(***************************************************************************)
Report(r) ==
    /\ pc[r] = "done" /\ Contains(memo, r)
    /\ memo' = Without(memo, r)
    /\ report' = [report EXCEPT ![r] = "popped"]
    /\ UNCHANGED <<lookups, l1, index, sweeper, up>>

(* When Redis fails, the entry may stay, and no later report reaches it.    *)
Evict(r) ==
    /\ report[r] = "popped"
    /\ \/ up /\ Delete(via[r]) /\ report' = [report EXCEPT ![r] = "evicted"]
       \/ ~up /\ report' = [report EXCEPT ![r] = "failed"]
              /\ (UNCHANGED index \/ Delete(via[r]))
    /\ UNCHANGED <<lookups, l1, memo, sweeper, up>>

(***************************************************************************)
(* The capacity sweep                                                      *)
(***************************************************************************)
Scanned == {s[2] : s \in seen}

SweepStarts ==
    /\ sweep = "idle"
    /\ sweep' = "scanning" /\ due' = Present
    /\ UNCHANGED <<lookups, l1, index, feedback, seen, doomed, up>>

(* An entry's last_hit_at is read when the scan comes to it.  What was      *)
(* there all along is met, what came meanwhile perhaps.                     *)
SweepReads(e) ==
    /\ sweep = "scanning" /\ up
    /\ e \in Present \ Scanned
    /\ seen' = seen \cup {<<hit[e], e>>}
    /\ due' = due \ {e}
    /\ UNCHANGED <<lookups, l1, index, feedback, sweep, doomed, up>>

(* How many entries of a scan are over the capacity. *)
Excess(S) == IF Cardinality(S) > IndexCapacity THEN Cardinality(S) - IndexCapacity ELSE 0

(* D is the head of a scan sorted by last_hit_at; entries of the same time  *)
(* are in the order of their names.                                         *)
Oldest(D, S) == \A d \in D, s \in S \ D : d[1] <= s[1]

(* Defect: one too few. *)
SweepPicksLess ==
    /\ sweep = "scanning" /\ due \cap Present = {}
    /\ \E D \in SUBSET seen :
          /\ Cardinality(D) = IF Excess(seen) = 0 THEN 0 ELSE Excess(seen) - 1
          /\ Oldest(D, seen)
          /\ doomed' = {d[2] : d \in D}
    /\ sweep' = IF doomed' = {} THEN "idle" ELSE "deleting"
    /\ seen' = {} /\ due' = {}
    /\ UNCHANGED <<lookups, l1, index, feedback, up>>

(* What the scan has met in excess of the capacity goes. *)
SweepPicks ==
    /\ sweep = "scanning" /\ due \cap Present = {}
    /\ \E D \in SUBSET seen :
          /\ Cardinality(D) = Excess(seen) /\ Oldest(D, seen)
          /\ doomed' = {d[2] : d \in D}
    /\ sweep' = IF doomed' = {} THEN "idle" ELSE "deleting"
    /\ seen' = {} /\ due' = {}
    /\ UNCHANGED <<lookups, l1, index, feedback, up>>

SweepDeletes ==
    /\ sweep = "deleting" /\ up
    /\ \E e \in doomed : Delete(e) /\ doomed' = doomed \ {e}
    /\ sweep' = IF doomed' = {} THEN "idle" ELSE "deleting"
    /\ UNCHANGED <<lookups, l1, feedback, due, seen, up>>

(* A RedisError ends the pass, wherever it is. *)
SweepFails ==
    /\ sweep # "idle" /\ ~up
    /\ sweep' = "idle" /\ due' = {} /\ seen' = {} /\ doomed' = {}
    /\ UNCHANGED <<lookups, l1, index, feedback, up>>

(* External: Redis goes away and comes back with what it held. *)
Redis ==
    /\ up' = ~up
    /\ UNCHANGED <<lookups, l1, index, feedback, sweeper>>

(* One of the answers stored under a key, if there is any. *)
LastOf(S) == IF S = {} THEN None ELSE CHOOSE r \in S : TRUE

Init ==
    /\ pc = [r \in Requests |-> IF r \in Earlier THEN "done" ELSE "new"]
    /\ stale = [r \in Requests |-> FALSE]
    /\ cand = [r \in Requests |-> {}] /\ usable = [r \in Requests |-> {}]
    /\ picked = [r \in Requests |-> None]
    /\ served = [r \in Requests |-> IF r \in Earlier THEN r ELSE None]
    /\ via = [r \in Requests |-> None]
    /\ good = [r \in Requests |-> r \in Earlier]
    /\ l1 = [k \in Keys |-> LastOf({r \in Earlier : KeyOf[r] = k})]
    /\ l2 = [r \in Requests |-> IF r \in Earlier THEN "full" ELSE "none"]
    /\ hit = [r \in Requests |-> 0]
    /\ memo = <<>> /\ report = [r \in Requests |-> "no"]
    /\ sweep = "idle" /\ due = {} /\ seen = {} /\ doomed = {}
    /\ up = TRUE

Step(r) ==
    \/ Arrive(r) \/ L1Get(r) \/ LookupGivesUp(r) \/ Search(r)
    \/ (\E e \in Requests : Read(r, e))
    \/ Drop(r) \/ Rerank(r) \/ Mark(r) \/ MarkFails(r) \/ Remember(r)
    \/ Answer(r) \/ UpstreamFails(r) \/ L1Set(r) \/ Store(r)

Client(r) == Report(r) \/ Evict(r)

Sweep ==
    \/ SweepStarts \/ (\E e \in Requests : SweepReads(e))
    \/ SweepPicks \/ SweepDeletes \/ SweepFails

Next ==
    \/ \E r \in Requests : Step(r) \/ Client(r)
    \/ \E k \in Keys : Expire(k)
    \/ Sweep \/ Redis

(* capacity_sweep_loop goes on; nothing is assumed of requests and clients. *)
Fairness == WF_vars(Sweep)

Spec == Init /\ [][Next]_vars /\ Fairness

(***************************************************************************)
(* Properties                                                              *)
(***************************************************************************)
(* Type correctness, with the bounds of the recall and of the memory for    *)
(* feedback.                                                                *)
CacheTypeOK ==
    /\ pc \in [Requests -> {"new", "looking", "searching", "reading", "dropping", "marking",
                            "hit", "upstream", "storing", "indexing", "done", "failed"}]
    /\ stale \in [Requests -> BOOLEAN] /\ good \in [Requests -> BOOLEAN]
    /\ cand \in [Requests -> SUBSET Requests]
    /\ \A r \in Requests : Cardinality(cand[r]) + Cardinality(usable[r]) <= TopK
    /\ usable \in [Requests -> SUBSET (Requests \X Requests)]
    /\ picked \in [Requests -> Requests \cup {None}]
    /\ served \in [Requests -> Requests \cup {None}]
    /\ via \in [Requests -> Requests \cup {None}]
    /\ l1 \in [Keys -> Requests \cup {None}]
    /\ l2 \in [Requests -> {"none", "full", "ghost"}]
    /\ hit \in [Requests -> Nat]
    /\ memo \in Seq(Requests) /\ IsInjective(memo) /\ Len(memo) <= MemoCapacity
    /\ report \in [Requests -> {"no", "popped", "evicted", "failed"}]
    /\ sweep \in {"idle", "scanning", "deleting"}
    /\ due \subseteq Requests /\ seen \subseteq Nat \X Requests /\ doomed \subseteq Requests
    /\ up \in BOOLEAN

(* What the cache gives a request is a complete answer that was not         *)
(* degraded, generated for its own key or, through an entry, for one of the *)
(* same tenant and prompt version that passed the threshold: never an       *)
(* answer to an answer, however entries expire and are stored again.        *)
ServedFits ==
    \A r \in Requests :
        served[r] \notin {r, None} =>
            /\ good[served[r]]
            /\ \/ KeyOf[served[r]] = KeyOf[r]
               \/ \E e \in {via[r], picked[r]} \ {None} :
                     /\ KeyOf[served[r]] = KeyOf[e]
                     /\ Scope[KeyOf[e]] = Scope[KeyOf[r]]
                     /\ Score(r, e) >= Bar(r)

(* An entry that was deleted, as expired, by the sweep or after a client's  *)
(* report, never comes back to answer: a late mark leaves a hash that the   *)
(* index does not find.                                                     *)
DeletedStaysDown ==
    [][\A e \in Requests : pc[e] = "done" /\ l2[e] # "full" => l2'[e] # "full"]_vars

(* The index comes back to its capacity once Redis is back for good, the    *)
(* hashes that late marks leave behind included.                            *)
Capped == (<>[]up) => <>[](Cardinality(Present) <= IndexCapacity)
=============================================================================
