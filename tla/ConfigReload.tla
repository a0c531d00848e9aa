----------------------------- MODULE ConfigReload -----------------------------
(***************************************************************************)
(* Configuration at run time: gateways share a file, a table of tenants in *)
(* Postgres and a version counter in Redis.  Operators reload or change a  *)
(* tenant on one gateway, which raises the counter and publishes it; the   *)
(* others hear of it or poll it, and load again (config/reloader.py,       *)
(* holder.py, tenant_store.py, api/admin.py).  The authentication          *)
(* middleware caches the keys it has seen until the version changes        *)
(* (api/middleware.py).                                                    *)
(*                                                                         *)
(* A step is what runs between two awaits.  load_config reads the file     *)
(* without one; load_all awaits Postgres.                                  *)
(*                                                                         *)
(* Abstractions: the file and the table are the numbers of their           *)
(* generations, and each generation of the table has its own key of one    *)
(* tenant; the clients of the providers are left out.                      *)
(***************************************************************************)
EXTENDS Integers, FiniteSets, Sequences

CONSTANTS
    Gateways,
    Ops,          \* requests of operators
    OpKind,       \* "reload" or "upsert", of each
    OpGateway,    \* the gateway that serves it
    Looping,      \* the gateways that found Redis at their start, and so run the loops
    Serving,      \* the gateways that clients reach
    MaxFile       \* bound: edits of the file

ASSUME ReloadAssumption ==
    /\ OpKind \in [Ops -> {"reload", "upsert"}]
    /\ OpGateway \in [Ops -> Gateways]
    /\ Ops \cap (Gateways \X {"watch", "poll"}) = {}
    /\ Looping \subseteq Gateways /\ Serving \subseteq Gateways
    /\ MaxFile \in Nat

VARIABLES
    file, table,              \* the generations there are
    counter, need,            \* cfg:version; history: what each version announces
    up, pg,                   \* whether Redis and Postgres answer
    subs, events,             \* who listens to cfg:events, and what is on its way
    file_of, rows_of, version,    \* ConfigHolder: the generations held, the version
    at, ver, read, rows,      \* the tasks and requests: where they are, what they loaded
    cached, prints, seen      \* AuthMiddleware: keys, fingerprints, _cache_version

world == <<file, table, up, pg>>
bus == <<counter, need, subs, events>>
holder == <<file_of, rows_of, version>>
tasks == <<at, ver, read, rows>>
auth == <<cached, prints, seen>>
vars == <<world, bus, holder, tasks, auth>>

Loops == Looping \X {"watch", "poll"}
Tasks == Ops \cup Loops
GatewayOf(t) == IF t \in Ops THEN OpGateway[t] ELSE t[1]

(* The gateways that run the loops and that operators leave alone. *)
Remote == Looping \ {OpGateway[o] : o \in Ops}

Goto(t, p) == at' = [at EXCEPT ![t] = p]

(* The end of a task's round, or of a request. *)
Finish(t) ==
    /\ Goto(t, IF t \in Ops THEN "over" ELSE "idle")
    /\ ver' = [ver EXCEPT ![t] = 0]
    /\ read' = [read EXCEPT ![t] = 0]
    /\ rows' = [rows EXCEPT ![t] = 0]

(* The start of apply_reload: load_config. *)
StartLoad(t, v) ==
    /\ Goto(t, "loading")
    /\ ver' = [ver EXCEPT ![t] = v]
    /\ read' = [read EXCEPT ![t] = file]
    /\ UNCHANGED rows

(***************************************************************************)
(* watch_config_events, poll_config_version                                *)
(***************************************************************************)
(* At the start of the loop and after a RedisError, with a backoff. *)
Subscribe(g) ==
    /\ g \notin subs /\ up /\ at[<<g, "watch">>] = "idle"
    /\ subs' = subs \cup {g}
    /\ UNCHANGED <<world, counter, need, events, holder, tasks, auth>>

Hear(g) ==
    LET t == <<g, "watch">> IN
    /\ at[t] = "idle" /\ events[g] # <<>>
    /\ events' = [events EXCEPT ![g] = Tail(@)]
    /\ IF Head(events[g]) # version[g]
       THEN StartLoad(t, Head(events[g]))
       ELSE UNCHANGED tasks
    /\ UNCHANGED <<world, counter, need, subs, holder, auth>>

Poll(g) ==
    LET t == <<g, "poll">> IN
    /\ at[t] = "idle" /\ up /\ counter > 0
    /\ Goto(t, "polled")
    /\ ver' = [ver EXCEPT ![t] = counter]
    /\ UNCHANGED <<world, bus, holder, read, rows, auth>>

(* Defect: only the next version is taken for a change. *)
PollNext(g) ==
    LET t == <<g, "poll">> IN
    /\ at[t] = "polled"
    /\ IF ver[t] = version[g] + 1
       THEN StartLoad(t, ver[t])
       ELSE Finish(t)
    /\ UNCHANGED <<world, bus, holder, auth>>

PollCompares(g) ==
    LET t == <<g, "poll">> IN
    /\ at[t] = "polled"
    /\ IF ver[t] # version[g]
       THEN StartLoad(t, ver[t])
       ELSE Finish(t)
    /\ UNCHANGED <<world, bus, holder, auth>>

(***************************************************************************)
(* apply_reload                                                            *)
(***************************************************************************)
(* Defect: the version is noted whether the load succeeds or not. *)
ReadRowsNoting(t) ==
    /\ at[t] = "loading"
    /\ \/ /\ pg
          /\ rows' = [rows EXCEPT ![t] = table]
          /\ Goto(t, "loaded")
          /\ UNCHANGED <<version, ver, read>>
       \/ /\ ~pg
          /\ Finish(t)
          /\ version' = [version EXCEPT ![GatewayOf(t)] = ver[t]]
    /\ UNCHANGED <<world, bus, file_of, rows_of, auth>>

(* TenantStore.load_all; without an answer the reload is off, and the       *)
(* configuration stays.                                                     *)
ReadRows(t) ==
    /\ at[t] = "loading"
    /\ \/ /\ pg
          /\ rows' = [rows EXCEPT ![t] = table]
          /\ Goto(t, "loaded")
          /\ UNCHANGED <<ver, read>>
       \/ ~pg /\ Finish(t)
    /\ UNCHANGED <<world, bus, holder, auth>>

(* holder.replace, with the version that the loops were told. *)
Apply(t) ==
    LET g == GatewayOf(t) IN
    /\ at[t] = "loaded"
    /\ file_of' = [file_of EXCEPT ![g] = read[t]]
    /\ rows_of' = [rows_of EXCEPT ![g] = rows[t]]
    /\ version' = [version EXCEPT ![g] = IF t \in Ops THEN @ ELSE ver[t]]
    /\ IF t \in Ops THEN Goto(t, "publishing") /\ UNCHANGED <<ver, read, rows>>
       ELSE Finish(t)
    /\ UNCHANGED <<world, bus, auth>>

(***************************************************************************)
(* The requests of operators                                               *)
(***************************************************************************)
Reload(o) ==
    /\ OpKind[o] = "reload" /\ at[o] = "new"
    /\ StartLoad(o, 0)
    /\ UNCHANGED <<world, bus, holder, auth>>

(* TenantStore.upsert; a failure answers the operator with an error. *)
Upsert(o) ==
    /\ OpKind[o] = "upsert" /\ at[o] = "new"
    /\ \/ pg /\ table' = table + 1 /\ Goto(o, "upserted") /\ UNCHANGED <<ver, read, rows>>
       \/ ~pg /\ table' \in {table, table + 1} /\ Finish(o)
    /\ UNCHANGED <<file, up, pg, bus, holder, auth>>

UpsertLoads(o) ==
    /\ at[o] = "upserted"
    /\ \/ /\ pg
          /\ rows' = [rows EXCEPT ![o] = table]
          /\ Goto(o, "publishing")
          /\ UNCHANGED <<ver, read>>
       \/ ~pg /\ Finish(o)
    /\ UNCHANGED <<world, bus, holder, auth>>

Announces(o) ==
    /\ counter' = counter + 1
    /\ need' = Append(need, [file |-> IF OpKind[o] = "reload" THEN read[o] ELSE 0,
                             rows |-> rows[o]])

Incr(o) ==
    /\ at[o] = "publishing" /\ up
    /\ Announces(o)
    /\ ver' = [ver EXCEPT ![o] = counter + 1]
    /\ Goto(o, "announcing")
    /\ UNCHANGED <<world, subs, events, holder, read, rows, auth>>

Publish(o) ==
    /\ at[o] = "announcing" /\ up
    /\ events' = [g \in Gateways |-> IF g \in subs THEN Append(events[g], ver[o])
                                     ELSE events[g]]
    /\ Goto(o, "naming")
    /\ UNCHANGED <<world, counter, need, subs, holder, ver, read, rows, auth>>

(* holder.replace: over what the gateway holds by now. *)
Name(o, v) ==
    LET g == OpGateway[o] IN
    /\ version' = [version EXCEPT ![g] = v]
    /\ rows_of' = [rows_of EXCEPT ![g] = IF OpKind[o] = "upsert" THEN rows[o] ELSE @]
    /\ Finish(o)
    /\ UNCHANGED <<world, file_of, auth>>

Named(o) ==
    /\ at[o] = "naming"
    /\ Name(o, ver[o])
    /\ UNCHANGED bus

(* Without Redis the gateway makes up a version of its own. *)
FallBack(o) ==
    /\ at[o] \in {"publishing", "announcing"} /\ ~up
    /\ Name(o, version[OpGateway[o]] + 1)
    /\ UNCHANGED <<counter, need>> \/ (at[o] = "publishing" /\ Announces(o))
    /\ UNCHANGED <<subs, events>>

(***************************************************************************)
(* AuthMiddleware                                                          *)
(***************************************************************************)
(* Defect: the keys of changed tenants stay. *)
AllKeys(g) == cached[g]

(* _reset_cache_if_config_changed: the keys of a tenant that changed since  *)
(* the last version a request met are dropped.                              *)
Keys(g) == IF seen[g] = version[g] \/ prints[g] = rows_of[g] THEN cached[g] ELSE {}

(* A request whose key is cached or refused, or is the tenant's now.        *)
Authenticate(g) ==
    /\ seen' = [seen EXCEPT ![g] = version[g]]
    /\ prints' = [prints EXCEPT ![g] = IF seen[g] = version[g] THEN @ ELSE rows_of[g]]
    /\ \/ cached' = [cached EXCEPT ![g] = Keys(g)]
       \/ cached' = [cached EXCEPT ![g] = Keys(g) \cup {rows_of[g]}]
    /\ UNCHANGED <<world, bus, holder, tasks>>

(* The time to live of a key that is not used, and the size of the cache. *)
Forget(g) ==
    /\ \E k \in cached[g] : cached' = [cached EXCEPT ![g] = @ \ {k}]
    /\ UNCHANGED <<world, bus, holder, tasks, prints, seen>>

(***************************************************************************)
(* The environment                                                         *)
(***************************************************************************)
Edit ==
    /\ file < MaxFile
    /\ file' = file + 1
    /\ UNCHANGED <<table, up, pg, bus, holder, tasks, auth>>

(* External: Redis goes, with the subscriptions and what they had to say. *)
Redis ==
    /\ up' = ~up
    /\ subs' = IF up THEN {} ELSE subs
    /\ events' = IF up THEN [g \in Gateways |-> <<>>] ELSE events
    /\ UNCHANGED <<file, table, pg, counter, need, holder, tasks, auth>>

Postgres ==
    /\ pg' = ~pg
    /\ UNCHANGED <<file, table, up, bus, holder, tasks, auth>>

Init ==
    /\ file = 0 /\ table = 0
    /\ counter = 0 /\ need = <<>>
    /\ up = TRUE /\ pg = TRUE
    /\ subs = {} /\ events = [g \in Gateways |-> <<>>]
    /\ file_of = [g \in Gateways |-> 0] /\ rows_of = [g \in Gateways |-> 0]
    /\ version = [g \in Gateways |-> 0]
    /\ at = [t \in Tasks |-> IF t \in Ops THEN "new" ELSE "idle"]
    /\ ver = [t \in Tasks |-> 0] /\ read = [t \in Tasks |-> 0]
    /\ rows = [t \in Tasks |-> 0]
    /\ cached = [g \in Gateways |-> {}] /\ prints = [g \in Gateways |-> 0]
    /\ seen = [g \in Gateways |-> 0]

Loop(g) == Subscribe(g) \/ Hear(g) \/ Poll(g) \/ PollCompares(g)

Operator(o) ==
    \/ Reload(o) \/ Upsert(o) \/ UpsertLoads(o)
    \/ Incr(o) \/ Publish(o) \/ Named(o) \/ FallBack(o)

Next ==
    \/ \E g \in Looping : Loop(g)
    \/ \E g \in Serving : Authenticate(g) \/ Forget(g)
    \/ \E t \in Tasks : ReadRows(t) \/ Apply(t)
    \/ \E o \in Ops : Operator(o)
    \/ Edit \/ Redis \/ Postgres

(* The poll of each gateway goes on.  Nothing is assumed of messages,       *)
(* operators and requests, and of Redis and Postgres only where a property  *)
(* says so.                                                                 *)
Fairness ==
    \A g \in Looping :
        /\ WF_vars(Poll(g)) /\ WF_vars(PollCompares(g))
        /\ \A l \in {"watch", "poll"} : WF_vars(ReadRows(<<g, l>>)) /\ WF_vars(Apply(<<g, l>>))

Spec == Init /\ [][Next]_vars /\ Fairness

(***************************************************************************)
(* Properties                                                              *)
(***************************************************************************)
Covers(g, v) == file_of[g] >= need[v].file /\ rows_of[g] >= need[v].rows

(* A gateway that operators leave alone holds, at the version it tells, all *)
(* that was announced up to that version, though its two loops overlap and  *)
(* the later version may be replaced by the earlier.                        *)
VersionCovers == \A g \in Remote : \A v \in 1..version[g] : Covers(g, v)

(* Once Redis and Postgres are back for good, such a gateway comes to hold  *)
(* all that was ever announced, whatever messages were lost.                *)
Converges ==
    (<>[](up /\ pg)) =>
        <>[](\A g \in Remote : \A v \in 1..counter : Covers(g, v))

(* Every change of the table was announced: no gateway failed between the   *)
(* write and the broadcast.                                                 *)
Told == table = 0 \/ \E v \in 1..counter : need[v].rows = table

(* The two loops of a gateway do not load at once.                          *)
Apart(g) == at[<<g, "watch">>] = "idle" \/ at[<<g, "poll">>] \in {"idle", "polled"}

(* And it ends up accepting no key from its cache that the configuration it *)
(* holds does not know, if the changes of tenants were announced and its    *)
(* loops do not overlap: the rows it holds may go back when they do, under  *)
(* the same version, and a key cached meanwhile survives in the cache.      *)
KeysRevoked ==
    (<>[](up /\ pg /\ Told) /\ [](\A g \in Remote : Apart(g))) =>
        <>[](\A g \in Remote : Keys(g) \subseteq {rows_of[g]})
=============================================================================
