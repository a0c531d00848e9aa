------------------------- MODULE ConfigReload_proofs -------------------------
(***************************************************************************)
(* Theorems about ConfigReload, for any gateways, operators and edits:     *)
(* what a gateway says it has, it has, and it lets nobody in on a key that *)
(* it knows to be replaced.                                                *)
(***************************************************************************)
EXTENDS ConfigReload, TLAPS

Places == {"new", "idle", "polled", "loading", "loaded", "upserted", "publishing",
           "announcing", "naming", "over"}

Notes == [file : Nat, rows : Nat]

ReloadTypeOK ==
    /\ file \in Nat /\ table \in Nat /\ counter \in Nat
    /\ need \in Seq(Notes) /\ Len(need) = counter
    /\ events \in [Gateways -> Seq(Nat)]
    /\ file_of \in [Gateways -> Nat] /\ rows_of \in [Gateways -> Nat]
    /\ version \in [Gateways -> Nat]

(* Nothing is ahead of its source. *)
Behind ==
    /\ \A v \in 1..counter : need[v].file <= file /\ need[v].rows <= table
    /\ \A g \in Gateways : \A i \in 1..Len(events[g]) : events[g][i] <= counter

TasksOK ==
    /\ at \in [Tasks -> Places]
    /\ ver \in [Tasks -> Nat] /\ read \in [Tasks -> Nat] /\ rows \in [Tasks -> Nat]
    /\ \A t \in Tasks : ver[t] <= counter /\ read[t] <= file /\ rows[t] <= table

(* What a loop has loaded for a version is all that the versions up to it   *)
(* announce.                                                                *)
Loaded ==
    \A t \in Loops : \A v \in 1..ver[t] :
        /\ at[t] \in {"loading", "loaded"} => need[v].file <= read[t]
        /\ at[t] = "loaded" => need[v].rows <= rows[t]

VersionKnown == \A g \in Remote : version[g] <= counter

RInv == ReloadTypeOK /\ Behind /\ TasksOK /\ Loaded /\ VersionKnown /\ VersionCovers

(* A gateway of the loops is no gateway of operators. *)
LEMMA TaskFacts ==
    /\ \A o \in Ops : o \in Tasks /\ o \notin Loops /\ GatewayOf(o) \in Gateways
                      /\ GatewayOf(o) \notin Remote
    /\ \A t \in Loops : t \in Tasks /\ t \notin Ops /\ GatewayOf(t) \in Looping
    /\ \A g \in Looping : g \in Gateways /\ <<g, "watch">> \in Loops /\ <<g, "poll">> \in Loops
                          /\ GatewayOf(<<g, "watch">>) = g /\ GatewayOf(<<g, "poll">>) = g
    /\ Remote \subseteq Gateways
BY ReloadAssumption DEF Tasks, Loops, GatewayOf, Remote

LEMMA InitHolds == Init => RInv
BY ReloadAssumption
   DEF Init, RInv, ReloadTypeOK, Behind, TasksOK, Loaded, VersionKnown, VersionCovers, Tasks,
       Places, Notes, Remote, Loops

(* The start and the end of a load, and a step that changes no task. *)
LEMMA LoadStarts ==
    ASSUME RInv, NEW t \in Tasks, NEW v \in 0..counter, StartLoad(t, v),
           UNCHANGED <<file, table, counter, need>>
    PROVE  TasksOK' /\ Loaded'
<1>1. TasksOK'
  BY DEF StartLoad, Goto, RInv, ReloadTypeOK, TasksOK, Places
<1>2. Loaded'
  BY TaskFacts DEF StartLoad, Goto, RInv, ReloadTypeOK, TasksOK, Behind, Loaded
<1>3. QED
  BY <1>1, <1>2

LEMMA TaskEnds ==
    ASSUME RInv, NEW t \in Tasks, Finish(t), UNCHANGED <<file, counter, need>>,
           table' \in Nat, table' >= table
    PROVE  TasksOK' /\ Loaded'
<1>1. TasksOK'
  BY DEF Finish, Goto, RInv, ReloadTypeOK, TasksOK, Places
<1>2. Loaded'
  BY TaskFacts DEF Finish, Goto, RInv, ReloadTypeOK, TasksOK, Loaded
<1>3. QED
  BY <1>1, <1>2

(* What the loops do before they load leaves the configuration alone. *)
LEMMA NothingHeld ==
    ASSUME RInv, UNCHANGED <<file, table, counter, need, events, file_of, rows_of, version>>
    PROVE  ReloadTypeOK' /\ Behind' /\ VersionKnown' /\ VersionCovers'
<1>1. ReloadTypeOK' /\ Behind'
  BY DEF RInv, ReloadTypeOK, Behind
<1>2. VersionKnown' /\ VersionCovers'
  BY DEF RInv, VersionKnown, VersionCovers, Covers
<1>3. QED
  BY <1>1, <1>2

LEMMA HearKeeps == ASSUME RInv, NEW g \in Looping, Hear(g) PROVE RInv'
<1> DEFINE t == <<g, "watch">>
<1>0. t \in Tasks /\ t \in Loops /\ g \in Gateways
  BY TaskFacts
<1>1. Len(events[g]) \in Nat \ {0} /\ events[g] \in Seq(Nat) /\ Head(events[g]) = events[g][1]
      /\ Tail(events[g]) \in Seq(Nat)
      /\ \A i \in 1..Len(Tail(events[g])) :
            i + 1 \in 1..Len(events[g]) /\ Tail(events[g])[i] = events[g][i + 1]
  BY <1>0 DEF Hear, RInv, ReloadTypeOK
<1>2. Head(events[g]) \in 0..counter
  BY <1>0, <1>1 DEF RInv, ReloadTypeOK, Behind
<1>3. UNCHANGED <<file, table, counter, need, file_of, rows_of, version>>
  BY DEF Hear, world, holder
<1>4. ReloadTypeOK' /\ Behind'
  BY <1>0, <1>1, <1>3 DEF Hear, RInv, ReloadTypeOK, Behind
<1>5. VersionKnown' /\ VersionCovers'
  BY <1>3 DEF RInv, VersionKnown, VersionCovers, Covers
<1>6. TasksOK' /\ Loaded'
  <2>1. CASE StartLoad(t, Head(events[g]))
    BY <1>0, <1>2, <1>3, <2>1, LoadStarts
  <2>2. CASE UNCHANGED tasks
    BY <1>3, <2>2 DEF tasks, RInv, TasksOK, Loaded
  <2>3. QED
    BY <2>1, <2>2 DEF Hear
<1>7. QED
  BY <1>4, <1>5, <1>6 DEF RInv

LEMMA PollsKeep == ASSUME RInv, NEW g \in Looping, Poll(g) \/ PollCompares(g) PROVE RInv'
<1> DEFINE t == <<g, "poll">>
<1>0. t \in Tasks /\ t \in Loops /\ t \notin Ops
  BY TaskFacts
<1>1. UNCHANGED <<file, table, counter, need, events, file_of, rows_of, version>>
  BY DEF Poll, PollCompares, world, bus, holder
<1>2. ReloadTypeOK' /\ Behind' /\ VersionKnown' /\ VersionCovers'
  BY <1>1, NothingHeld
<1>3. CASE Poll(g)
  <2>1. TasksOK'
    BY <1>0, <1>1, <1>3 DEF Poll, Goto, RInv, ReloadTypeOK, TasksOK, Places
  <2>2. Loaded'
    BY <1>0, <1>1, <1>3, TaskFacts DEF Poll, Goto, RInv, ReloadTypeOK, TasksOK, Loaded
  <2>3. QED
    BY <1>2, <2>1, <2>2 DEF RInv
<1>4. CASE PollCompares(g)
  <2>1. ver[t] \in 0..counter
    BY <1>0 DEF RInv, ReloadTypeOK, TasksOK
  <2>2. TasksOK' /\ Loaded'
    <3>1. CASE StartLoad(t, ver[t])
      BY <1>0, <1>1, <2>1, <3>1, LoadStarts
    <3>2. CASE Finish(t)
      BY <1>0, <1>1, <3>2, TaskEnds DEF RInv, ReloadTypeOK
    <3>3. QED
      BY <1>4, <3>1, <3>2 DEF PollCompares
  <2>3. QED
    BY <1>2, <2>2 DEF RInv
<1>5. QED
  BY <1>3, <1>4

LEMMA ReadRowsKeeps == ASSUME RInv, NEW t \in Tasks, ReadRows(t) PROVE RInv'
<1>1. UNCHANGED <<file, table, counter, need, events, file_of, rows_of, version>>
  BY DEF ReadRows, world, bus, holder
<1>2. ReloadTypeOK' /\ Behind' /\ VersionKnown' /\ VersionCovers'
  BY <1>1, NothingHeld
<1>3. CASE pg
  <2>0. /\ rows' = [rows EXCEPT ![t] = table] /\ at' = [at EXCEPT ![t] = "loaded"]
        /\ UNCHANGED <<ver, read>>
    BY <1>3 DEF ReadRows, Goto
  <2>1. TasksOK'
    BY <1>1, <2>0 DEF RInv, ReloadTypeOK, TasksOK, Places
  <2>2. Loaded'
    BY <1>1, <1>3, TaskFacts
       DEF ReadRows, Goto, RInv, ReloadTypeOK, Behind, TasksOK, Loaded
  <2>3. QED
    BY <1>2, <2>1, <2>2 DEF RInv
<1>4. CASE ~pg
  BY <1>1, <1>2, <1>4, TaskEnds DEF ReadRows, RInv, ReloadTypeOK
<1>5. QED
  BY <1>3, <1>4

(* What a loop applies covers its version; what an operator applies is not  *)
(* on a gateway of Remote.                                                  *)
LEMMA ApplyKeeps == ASSUME RInv, NEW t \in Tasks, Apply(t) PROVE RInv'
<1> DEFINE g == GatewayOf(t)
<1>0. g \in Gateways /\ (t \in Ops \/ t \in Loops)
  BY TaskFacts DEF Tasks
<1>1. UNCHANGED <<file, table, counter, need, events>>
  BY DEF Apply, world, bus
<1>2. ReloadTypeOK' /\ Behind'
  BY <1>0, <1>1 DEF Apply, RInv, ReloadTypeOK, Behind, TasksOK
<1>3. CASE t \in Ops
  <2>1. g \notin Remote
    BY <1>3, TaskFacts
  <2>2. VersionKnown' /\ VersionCovers'
    BY <1>0, <1>1, <2>1, TaskFacts
       DEF Apply, RInv, ReloadTypeOK, VersionKnown, VersionCovers, Covers
  <2>3. TasksOK'
    BY <1>1, <1>3 DEF Apply, Goto, RInv, TasksOK, Places
  <2>4. Loaded'
    BY <1>1, <1>3, TaskFacts DEF Apply, Goto, RInv, TasksOK, Loaded
  <2>5. QED
    BY <1>2, <2>2, <2>3, <2>4 DEF RInv
<1>4. CASE t \notin Ops
  <2>1. /\ t \in Loops /\ Finish(t)
        /\ \A v \in 1..ver[t] : need[v].file <= read[t] /\ need[v].rows <= rows[t]
        /\ ver[t] \in Nat /\ read[t] \in Nat /\ rows[t] \in Nat /\ ver[t] <= counter
    BY <1>0, <1>4 DEF Apply, RInv, ReloadTypeOK, TasksOK, Loaded
  <2>2. /\ version' = [version EXCEPT ![g] = ver[t]]
        /\ file_of' = [file_of EXCEPT ![g] = read[t]]
        /\ rows_of' = [rows_of EXCEPT ![g] = rows[t]]
    BY <1>4 DEF Apply
  <2>3. VersionKnown'
    BY <1>0, <1>1, <2>1, <2>2, TaskFacts DEF RInv, ReloadTypeOK, VersionKnown
  <2>4. VersionCovers'
    <3> SUFFICES ASSUME NEW h \in Remote, NEW v \in 1..version'[h]
                 PROVE  file_of'[h] >= need[v].file /\ rows_of'[h] >= need[v].rows
      BY <1>1 DEF VersionCovers, Covers
    <3>1. h \in Gateways
      BY TaskFacts
    <3>2. CASE h = g
      <4>1. version'[h] = ver[t] /\ file_of'[h] = read[t] /\ rows_of'[h] = rows[t]
        BY <1>0, <2>2, <3>2 DEF RInv, ReloadTypeOK
      <4>2. v \in 1..counter /\ need[v] \in Notes
        BY <2>1, <4>1 DEF RInv, ReloadTypeOK
      <4>3. QED
        BY <2>1, <4>1, <4>2 DEF Notes
    <3>3. CASE h # g
      BY <2>2, <3>1, <3>3 DEF RInv, ReloadTypeOK, VersionCovers, Covers
    <3>4. QED
      BY <3>2, <3>3
  <2>5. TasksOK' /\ Loaded'
    BY <1>1, <2>1, TaskEnds DEF RInv, ReloadTypeOK
  <2>6. QED
    BY <1>2, <2>3, <2>4, <2>5 DEF RInv
<1>5. QED
  BY <1>3, <1>4

(***************************************************************************)
(* Operators                                                               *)
(***************************************************************************)
(* Notes of announced versions stay as they are when one more is announced. *)
LEMMA OneMore ==
    ASSUME RInv, NEW o \in Ops, Announces(o), UNCHANGED <<file, table, events>>
    PROVE  /\ need' \in Seq(Notes) /\ Len(need') = counter' /\ counter' = counter + 1
           /\ \A v \in 1..counter : need'[v] = need[v]
           /\ Behind'
<1> DEFINE n == [file |-> IF OpKind[o] = "reload" THEN read[o] ELSE 0, rows |-> rows[o]]
<1>0. o \in Tasks
  BY TaskFacts
<1>1. n \in Notes /\ n.file <= file /\ n.rows <= table
  BY <1>0 DEF Notes, RInv, ReloadTypeOK, TasksOK
<1>2. need' = Append(need, n) /\ counter' = counter + 1
  BY DEF Announces
<1> HIDE DEF n
<1>3. /\ need' \in Seq(Notes) /\ Len(need') = counter'
      /\ \A v \in 1..counter : need'[v] = need[v]
      /\ need'[counter + 1] = n
  BY <1>1, <1>2 DEF RInv, ReloadTypeOK
<1>4. \A v \in 1..counter' : need'[v].file <= file' /\ need'[v].rows <= table'
  <2> SUFFICES ASSUME NEW v \in 1..counter'
               PROVE  need'[v].file <= file /\ need'[v].rows <= table
    OBVIOUS
  <2>1. CASE v = counter + 1
    BY <1>1, <1>3, <2>1
  <2>2. CASE v # counter + 1
    BY <1>2, <1>3, <2>2 DEF RInv, ReloadTypeOK, Behind
  <2>3. QED
    BY <2>1, <2>2
<1>5. \A g \in Gateways : \A i \in 1..Len(events'[g]) : events'[g][i] <= counter'
  BY <1>2 DEF RInv, ReloadTypeOK, Behind
<1>6. QED
  BY <1>2, <1>3, <1>4, <1>5 DEF Behind

(* A step of an operator that leaves the gateways as they are. *)
LEMMA TableGrows ==
    ASSUME RInv, table' \in Nat, table' >= table,
           UNCHANGED <<file, counter, need, events, file_of, rows_of, version>>
    PROVE  ReloadTypeOK' /\ Behind' /\ VersionKnown' /\ VersionCovers'
<1>1. ReloadTypeOK' /\ Behind'
  <2>1. \A v \in 1..counter : need[v] \in Notes
    BY DEF RInv, ReloadTypeOK
  <2>2. QED
    BY <2>1 DEF RInv, ReloadTypeOK, Behind, Notes
<1>2. VersionKnown' /\ VersionCovers'
  BY DEF RInv, VersionKnown, VersionCovers, Covers
<1>3. QED
  BY <1>1, <1>2

(* Remote gateways hold on to what covers their versions, which are all     *)
(* announced before this step.                                              *)
LEMMA RemoteKeeps ==
    ASSUME RInv, counter' \in Nat, counter' >= counter,
           \A v \in 1..counter : need'[v] = need[v],
           \A g \in Remote : version'[g] = version[g] /\ file_of'[g] = file_of[g]
                            /\ rows_of'[g] = rows_of[g]
    PROVE  VersionKnown' /\ VersionCovers'
<1>1. \A g \in Remote : version[g] \in Nat
  BY TaskFacts DEF RInv, ReloadTypeOK
<1>2. VersionKnown'
  BY <1>1 DEF RInv, ReloadTypeOK, VersionKnown
<1>3. VersionCovers'
  <2> SUFFICES ASSUME NEW g \in Remote, NEW v \in 1..version'[g]
               PROVE  file_of'[g] >= need'[v].file /\ rows_of'[g] >= need'[v].rows
    BY DEF VersionCovers, Covers
  <2>1. v \in 1..version[g] /\ v \in 1..counter /\ need'[v] = need[v]
    BY <1>1 DEF RInv, ReloadTypeOK, VersionKnown
  <2>2. file_of[g] >= need[v].file /\ rows_of[g] >= need[v].rows
    BY <2>1 DEF RInv, VersionCovers, Covers
  <2>3. QED
    BY <2>1, <2>2
<1>4. QED
  BY <1>2, <1>3

LEMMA RequestsKeep ==
    ASSUME RInv, NEW o \in Ops, Reload(o) \/ Upsert(o) \/ UpsertLoads(o)
    PROVE  RInv'
<1>0. o \in Tasks /\ o \notin Loops
  BY TaskFacts
<1>1. UNCHANGED <<file, counter, need, events, file_of, rows_of, version>>
      /\ table' \in Nat /\ table' >= table
  BY DEF Reload, Upsert, UpsertLoads, world, bus, holder, RInv, ReloadTypeOK
<1>2. ReloadTypeOK' /\ Behind' /\ VersionKnown' /\ VersionCovers'
  BY <1>1, TableGrows
<1>3. CASE Reload(o)
  <2>1. StartLoad(o, 0) /\ table' = table /\ 0 \in 0..counter
    BY <1>3 DEF Reload, world, RInv, ReloadTypeOK
  <2>2. QED
    BY <1>0, <1>1, <1>2, <2>1, LoadStarts DEF RInv
<1>4. CASE Finish(o)
  BY <1>0, <1>1, <1>2, <1>4, TaskEnds DEF RInv
<1>5. CASE Upsert(o) /\ Goto(o, "upserted") /\ UNCHANGED <<ver, read, rows>>
  <2>0. \A t \in Tasks : rows[t] \in Nat /\ rows[t] <= table /\ table \in Nat
    BY DEF RInv, ReloadTypeOK, TasksOK
  <2>1. TasksOK'
    <3>1. at' \in [Tasks -> Places]
      BY <1>5 DEF Goto, RInv, TasksOK, Places
    <3>2. ver' = ver /\ read' = read /\ rows' = rows /\ counter' = counter /\ file' = file
      BY <1>1, <1>5
    <3>3. \A t \in Tasks : rows[t] <= table'
      BY <1>1, <2>0
    <3>4. QED
      BY <3>1, <3>2, <3>3 DEF RInv, TasksOK
  <2>2. Loaded'
    BY <1>0, <1>1, <1>5, TaskFacts DEF Goto, RInv, TasksOK, Loaded
  <2>3. QED
    BY <1>2, <2>1, <2>2 DEF RInv
<1>6. CASE UpsertLoads(o) /\ rows' = [rows EXCEPT ![o] = table] /\ Goto(o, "publishing")
           /\ UNCHANGED <<ver, read>>
  <2>0. table' = table
    BY <1>6 DEF UpsertLoads, world
  <2>1. TasksOK'
    BY <1>1, <1>6, <2>0 DEF Goto, RInv, ReloadTypeOK, TasksOK, Places
  <2>2. Loaded'
    BY <1>0, <1>1, <1>6, TaskFacts DEF Goto, RInv, TasksOK, Loaded
  <2>3. QED
    BY <1>2, <2>1, <2>2 DEF RInv
<1>7. QED
  BY <1>3, <1>4, <1>5, <1>6 DEF Upsert, UpsertLoads

LEMMA IncrKeeps == ASSUME RInv, NEW o \in Ops, Incr(o) PROVE RInv'
<1>0. o \in Tasks /\ o \notin Loops
  BY TaskFacts
<1>1. UNCHANGED <<file, table, events, file_of, rows_of, version>>
  BY DEF Incr, world, holder
<1>2. /\ need' \in Seq(Notes) /\ Len(need') = counter' /\ counter' = counter + 1
      /\ \A v \in 1..counter : need'[v] = need[v]
      /\ Behind'
  BY <1>1, OneMore DEF Incr
<1>3. ReloadTypeOK'
  BY <1>1, <1>2 DEF RInv, ReloadTypeOK
<1>4. VersionKnown' /\ VersionCovers'
  BY <1>1, <1>2, RemoteKeeps DEF RInv, ReloadTypeOK
<1>5. TasksOK'
  BY <1>0, <1>1, <1>2 DEF Incr, Goto, RInv, ReloadTypeOK, TasksOK, Places
<1>6. Loaded'
  BY <1>0, <1>1, <1>2, TaskFacts DEF Incr, Goto, RInv, ReloadTypeOK, TasksOK, Loaded
<1>7. QED
  BY <1>2, <1>3, <1>4, <1>5, <1>6 DEF RInv

LEMMA PublishKeeps == ASSUME RInv, NEW o \in Ops, Publish(o) PROVE RInv'
<1>0. o \in Tasks /\ o \notin Loops
  BY TaskFacts
<1>1. UNCHANGED <<file, table, counter, need, file_of, rows_of, version, ver, read, rows>>
  BY DEF Publish, world, holder
<1>2. ver[o] \in Nat /\ ver[o] <= counter
  BY <1>0 DEF RInv, TasksOK
<1>3. \A g \in Gateways :
        /\ events'[g] \in Seq(Nat)
        /\ \A i \in 1..Len(events'[g]) : events'[g][i] <= counter
  <2> SUFFICES ASSUME NEW g \in Gateways
               PROVE  /\ events'[g] \in Seq(Nat)
                      /\ \A i \in 1..Len(events'[g]) : events'[g][i] <= counter
    OBVIOUS
  <2>1. CASE g \in subs
    BY <1>2, <2>1 DEF Publish, RInv, ReloadTypeOK, Behind
  <2>2. CASE g \notin subs
    BY <2>2 DEF Publish, RInv, ReloadTypeOK, Behind
  <2>3. QED
    BY <2>1, <2>2
<1>4. ReloadTypeOK'
  <2>1. events' \in [Gateways -> Seq(Nat)]
    BY <1>3 DEF Publish
  <2>2. QED
    BY <1>1, <2>1 DEF RInv, ReloadTypeOK
<1>5. Behind'
  BY <1>1, <1>3 DEF RInv, Behind
<1>6. TasksOK'
  BY <1>0, <1>1 DEF Publish, Goto, RInv, TasksOK, Places
<1>7. Loaded'
  BY <1>0, <1>1, TaskFacts DEF Publish, Goto, RInv, TasksOK, Loaded
<1>8. VersionKnown' /\ VersionCovers'
  BY <1>1, RemoteKeeps DEF RInv, ReloadTypeOK
<1>9. QED
  BY <1>4, <1>5, <1>6, <1>7, <1>8 DEF RInv

LEMMA NamesKeep == ASSUME RInv, NEW o \in Ops, Named(o) \/ FallBack(o) PROVE RInv'
<1>0. o \in Tasks /\ OpGateway[o] \in Gateways /\ OpGateway[o] \notin Remote
      /\ GatewayOf(o) = OpGateway[o]
  BY TaskFacts, ReloadAssumption DEF GatewayOf
<1>1. PICK v \in Nat : Name(o, v)
  <2>1. ver[o] \in Nat /\ version[OpGateway[o]] + 1 \in Nat
    BY <1>0 DEF RInv, ReloadTypeOK, TasksOK
  <2>2. QED
    BY <2>1 DEF Named, FallBack
<1>2. UNCHANGED <<file, table, events, file_of>> /\ Finish(o)
  BY <1>1 DEF Name, Named, FallBack, world, bus
<1>3. /\ need' \in Seq(Notes) /\ Len(need') = counter' /\ counter' \in Nat
      /\ counter' >= counter /\ Behind'
      /\ \A w \in 1..counter : need'[w] = need[w]
  <2>1. CASE UNCHANGED <<counter, need>>
    BY <1>2, <2>1 DEF RInv, ReloadTypeOK, Behind
  <2>2. CASE Announces(o)
    <3>1. /\ need' \in Seq(Notes) /\ Len(need') = counter' /\ counter' = counter + 1
          /\ \A w \in 1..counter : need'[w] = need[w]
          /\ Behind'
      BY <1>2, <2>2, OneMore
    <3>2. counter \in Nat
      BY DEF RInv, ReloadTypeOK
    <3>3. QED
      BY <3>1, <3>2
  <2>3. QED
    BY <2>1, <2>2 DEF Named, FallBack, bus
<1>4. ReloadTypeOK'
  BY <1>0, <1>1, <1>2, <1>3 DEF Name, RInv, ReloadTypeOK, TasksOK
<1>5. VersionKnown' /\ VersionCovers'
  <2>1. \A g \in Remote : version'[g] = version[g] /\ file_of'[g] = file_of[g]
                         /\ rows_of'[g] = rows_of[g]
    BY <1>0, <1>1, <1>2, TaskFacts DEF Name, RInv, ReloadTypeOK
  <2>2. QED
    BY <1>3, <2>1, RemoteKeeps
<1>6. TasksOK'
  BY <1>0, <1>2, <1>3 DEF Finish, Goto, RInv, ReloadTypeOK, TasksOK, Places
<1>7. Loaded'
  BY <1>0, <1>2, <1>3, TaskFacts DEF Finish, Goto, RInv, ReloadTypeOK, TasksOK, Loaded
<1>8. QED
  BY <1>3, <1>4, <1>5, <1>6, <1>7 DEF RInv

(***************************************************************************)
(* The rest                                                                *)
(***************************************************************************)
LEMMA OthersKeep ==
    ASSUME RInv,
           \/ \E g \in Looping : Subscribe(g)
           \/ \E g \in Serving : Authenticate(g) \/ Forget(g)
           \/ Edit \/ Redis \/ Postgres
           \/ UNCHANGED vars
    PROVE  RInv'
<1>1. UNCHANGED <<table, counter, need, holder, tasks>>
  BY DEF Subscribe, Authenticate, Forget, Edit, Redis, Postgres, vars, world, bus, holder, tasks
<1>2. file' \in Nat /\ file' >= file
  <2>1. file' = file \/ file' = file + 1
    BY DEF Subscribe, Authenticate, Forget, Edit, Redis, Postgres, vars, world
  <2>2. QED
    BY <2>1 DEF RInv, ReloadTypeOK
<1>3. events' = events \/ events' = [g \in Gateways |-> <<>>]
  BY DEF Subscribe, Authenticate, Forget, Edit, Redis, Postgres, vars, bus
<1>4. events' \in [Gateways -> Seq(Nat)]
      /\ \A g \in Gateways : \A i \in 1..Len(events'[g]) : events'[g][i] <= counter
  <2>1. CASE events' = events
    BY <2>1 DEF RInv, ReloadTypeOK, Behind
  <2>2. CASE events' = [g \in Gateways |-> <<>>]
    BY <2>2
  <2>3. QED
    BY <1>3, <2>1, <2>2
<1>5. ReloadTypeOK'
  BY <1>1, <1>2, <1>4 DEF RInv, ReloadTypeOK, holder
<1>6. Behind'
  <2>1. \A v \in 1..counter : need[v] \in Notes /\ need[v].file <= file
                            /\ need[v].rows <= table
    BY DEF RInv, ReloadTypeOK, Behind
  <2>2. file \in Nat
    BY DEF RInv, ReloadTypeOK
  <2>3. \A v \in 1..counter' : need'[v].file <= file' /\ need'[v].rows <= table'
    BY <1>1, <1>2, <2>1, <2>2 DEF Notes
  <2>4. QED
    BY <1>1, <1>4, <2>3 DEF Behind
<1>7. TasksOK' /\ Loaded'
  <2>1. \A t \in Tasks : read[t] \in Nat /\ read[t] <= file /\ file \in Nat
    BY DEF RInv, ReloadTypeOK, TasksOK
  <2>2. QED
    BY <1>1, <1>2, <2>1 DEF RInv, TasksOK, Loaded, tasks
<1>8. VersionKnown' /\ VersionCovers'
  BY <1>1 DEF RInv, VersionKnown, VersionCovers, Covers, holder
<1>9. QED
  BY <1>5, <1>6, <1>7, <1>8 DEF RInv

LEMMA StepKeeps == RInv /\ [Next]_vars => RInv'
<1> SUFFICES ASSUME RInv, [Next]_vars PROVE RInv'
  OBVIOUS
<1>1. ASSUME NEW g \in Looping, Loop(g) PROVE RInv'
  BY <1>1, HearKeeps, PollsKeep, OthersKeep DEF Loop
<1>2. ASSUME NEW t \in Tasks, ReadRows(t) \/ Apply(t) PROVE RInv'
  BY <1>2, ReadRowsKeeps, ApplyKeeps
<1>3. ASSUME NEW o \in Ops, Operator(o) PROVE RInv'
  BY <1>3, RequestsKeep, IncrKeeps, PublishKeeps, NamesKeep DEF Operator
<1>4. QED
  BY <1>1, <1>2, <1>3, OthersKeep DEF Next

(* A gateway that operators leave alone holds, at the version it tells, all *)
(* that was announced up to that version, for any number of gateways,       *)
(* operators, edits and failures (config/reloader.py, holder.py).           *)
THEOREM VersionStands == Spec => []VersionCovers
<1>1. Spec => []RInv
  BY InitHolds, StepKeeps, PTL DEF Spec
<1>2. RInv => VersionCovers
  BY DEF RInv
<1>3. QED
  BY <1>1, <1>2, PTL

(***************************************************************************)
(* The keys in the cache of the middleware                                 *)
(***************************************************************************)
(* No key that the middleware would take from its cache is older than what  *)
(* was announced up to the version its gateway holds.                       *)
RevokedKeysRefused ==
    \A g \in Remote : \A v \in 1..version[g] : \A k \in Keys(g) : k >= need[v].rows

LoopsOf(g) == {<<g, "watch">>, <<g, "poll">>}

(* The rows a gateway holds never go back while its loops are apart; the    *)
(* cached keys lie between the fingerprint and those rows, and the          *)
(* fingerprint covers what was announced up to the version last met.        *)
Fresh(g) ==
    /\ rows_of[g] <= table
    /\ \A t \in LoopsOf(g) : at[t] = "loaded" => rows_of[g] <= rows[t]
    /\ prints[g] <= rows_of[g]
    /\ cached[g] \subseteq Nat /\ prints[g] \in Nat /\ seen[g] \in Nat /\ seen[g] <= counter
    /\ \A k \in cached[g] : prints[g] <= k /\ k <= rows_of[g]
    /\ \A v \in 1..seen[g] : need[v].rows <= prints[g]

AuthTyped == /\ cached \in [Gateways -> SUBSET Nat] /\ prints \in [Gateways -> Nat]
             /\ seen \in [Gateways -> Nat]

KInv == RInv /\ AuthTyped /\ \A g \in Remote : Fresh(g)

LEMMA LoopsOfRemote ==
    ASSUME NEW g \in Remote
    PROVE  /\ g \in Gateways /\ LoopsOf(g) \subseteq Tasks /\ LoopsOf(g) \subseteq Loops
           /\ \A t \in LoopsOf(g) : GatewayOf(t) = g /\ t \notin Ops
BY TaskFacts DEF Remote, LoopsOf

LEMMA FreshStays ==
    ASSUME KInv, RInv', NEW g \in Remote, UNCHANGED auth, rows_of'[g] = rows_of[g],
           table' >= table, counter' >= counter, \A v \in 1..counter : need'[v] = need[v],
           \A t \in LoopsOf(g) :
              at'[t] = "loaded" => (at[t] = "loaded" /\ rows'[t] = rows[t]) \/ rows'[t] = table
    PROVE  Fresh(g)'
<1>1. Fresh(g) /\ g \in Gateways /\ LoopsOf(g) \subseteq Tasks
  BY LoopsOfRemote DEF KInv
<1>2. rows_of[g] \in Nat /\ table \in Nat /\ table' \in Nat /\ counter \in Nat /\ counter' \in Nat
  BY <1>1 DEF KInv, RInv, ReloadTypeOK
<1>3. rows_of'[g] <= table'
  BY <1>1, <1>2 DEF Fresh
<1>4. \A t \in LoopsOf(g) : at'[t] = "loaded" => rows_of'[g] <= rows'[t]
  BY <1>1 DEF Fresh
<1>5. \A v \in 1..seen[g] : need'[v].rows <= prints[g]
  BY <1>1, <1>2 DEF Fresh
<1>6. QED
  BY <1>1, <1>2, <1>3, <1>4, <1>5 DEF Fresh, auth

(* A loop applies what is no older than what its gateway holds. *)
LEMMA ApplyFresh ==
    ASSUME KInv, RInv', \A h \in Remote : Apart(h), NEW t \in Tasks, Apply(t), NEW g \in Remote
    PROVE  Fresh(g)'
<1>0. Fresh(g) /\ g \in Gateways /\ LoopsOf(g) \subseteq Tasks /\ RInv /\ Apart(g)
  BY LoopsOfRemote DEF KInv
<1>1. UNCHANGED <<table, counter, need, auth>>
  BY DEF Apply, world, bus
<1>2. CASE GatewayOf(t) # g
  <2>1. rows_of'[g] = rows_of[g]
    BY <1>0, <1>2 DEF Apply, RInv, ReloadTypeOK
  <2>2. \A s \in LoopsOf(g) : s # t /\ at'[s] = at[s] /\ rows'[s] = rows[s]
    <3>1. t \notin LoopsOf(g)
      BY <1>2, LoopsOfRemote
    <3>2. QED
      BY <1>0, <3>1 DEF Apply, Finish, Goto, RInv, TasksOK
  <2>3. QED
    <3>1. table' >= table /\ counter' >= counter /\ \A v \in 1..counter : need'[v] = need[v]
      BY <1>0, <1>1 DEF RInv, ReloadTypeOK
    <3>2. QED
      BY <1>1, <2>1, <2>2, <3>1, FreshStays
<1>3. CASE GatewayOf(t) = g
  <2>1. t \in LoopsOf(g) /\ t \notin Ops
    BY <1>3, TaskFacts DEF Tasks, Loops, LoopsOf, GatewayOf
  <2>2. at[t] = "loaded" /\ rows_of'[g] = rows[t] /\ rows_of[g] <= rows[t] /\ rows[t] <= table
        /\ rows[t] \in Nat /\ rows_of[g] \in Nat
    BY <1>0, <1>3, <2>1 DEF Apply, Fresh, RInv, ReloadTypeOK, TasksOK
  <2>3. \A s \in LoopsOf(g) : at'[s] # "loaded"
    BY <1>0, <2>1, <2>2 DEF Apply, Finish, Goto, LoopsOf, Apart, RInv, TasksOK
  <2>4. \A k \in cached[g] : k \in Nat /\ k <= rows[t]
    BY <1>0, <2>2 DEF Fresh
  <2>5. QED
    BY <1>0, <1>1, <2>2, <2>3, <2>4 DEF Fresh, auth
<1>4. QED
  BY <1>2, <1>3

(* A request that meets another version keeps what the fingerprint allows.  *)
LEMMA AuthenticateFresh ==
    ASSUME KInv, NEW h \in Serving, Authenticate(h)
    PROVE  AuthTyped' /\ \A g \in Remote : Fresh(g)'
<1>0. h \in Gateways /\ rows_of[h] \in Nat /\ version[h] \in Nat /\ AuthTyped
  BY ReloadAssumption DEF KInv, RInv, ReloadTypeOK
<1>1. Keys(h) \subseteq cached[h]
  BY DEF Keys
<1>2. AuthTyped'
  BY <1>0, <1>1 DEF Authenticate, AuthTyped
<1>3. UNCHANGED <<table, counter, need, rows_of, version, at, rows>>
  BY DEF Authenticate, world, bus, holder, tasks
<1>4. ASSUME NEW g \in Remote, g # h PROVE Fresh(g)'
  <2>1. Fresh(g) /\ g \in Gateways
    BY LoopsOfRemote DEF KInv
  <2>2. cached'[g] = cached[g] /\ prints'[g] = prints[g] /\ seen'[g] = seen[g]
    BY <1>0, <1>4, <2>1 DEF Authenticate, AuthTyped
  <2>3. QED
    BY <1>3, <2>1, <2>2 DEF Fresh
<1>5. ASSUME h \in Remote PROVE Fresh(h)'
  <2>1. Fresh(h) /\ VersionCovers /\ version[h] <= counter /\ counter \in Nat
    BY <1>5 DEF KInv, RInv, VersionKnown, ReloadTypeOK
  <2>2. /\ seen'[h] = version[h]
        /\ prints'[h] = IF seen[h] = version[h] THEN prints[h] ELSE rows_of[h]
        /\ cached'[h] \in {Keys(h), Keys(h) \cup {rows_of[h]}}
    BY <1>0 DEF Authenticate, AuthTyped
  <2>3. CASE seen[h] = version[h]
    <3>1. Keys(h) = cached[h] /\ prints'[h] = prints[h] /\ seen'[h] = seen[h]
      BY <2>2, <2>3 DEF Keys
    <3>2. prints[h] <= rows_of[h]
      BY <1>5, <2>1, <3>1 DEF Fresh, KInv
    <3>3. QED
      BY <1>0, <1>3, <2>1, <2>2, <3>1, <3>2 DEF Fresh
  <2>4. CASE seen[h] # version[h]
    <3>1. prints'[h] = rows_of[h] /\ seen'[h] = version[h]
      BY <2>2, <2>4
    <3>2. \A v \in 1..version[h] : need[v].rows <= rows_of[h]
      <4> SUFFICES ASSUME NEW v \in 1..version[h] PROVE need[v].rows <= rows_of[h]
        OBVIOUS
      <4>1. rows_of[h] >= need[v].rows
        BY <1>5, <2>1 DEF VersionCovers, Covers
      <4>2. v \in 1..counter
        BY <1>0, <2>1
      <4>3. need[v].rows \in Nat
        <5>1. need[v] \in Notes
          BY <4>2 DEF KInv, RInv, ReloadTypeOK
        <5>2. QED
          BY <5>1 DEF Notes
      <4>4. QED
        BY <1>0, <4>1, <4>3
    <3>3. \A k \in Keys(h) : k \in Nat /\ rows_of[h] <= k /\ k <= rows_of[h]
      BY <2>1, <2>4 DEF Keys, Fresh
    <3>4. \A k \in cached'[h] : k \in Nat /\ rows_of[h] <= k /\ k <= rows_of[h]
      BY <1>0, <2>2, <3>3
    <3>5. QED
      BY <1>0, <1>3, <2>1, <3>1, <3>2, <3>4 DEF Fresh
  <2>5. QED
    BY <2>3, <2>4
<1>6. QED
  BY <1>2, <1>4, <1>5

LEMMA ForgetFresh ==
    ASSUME KInv, NEW h \in Serving, Forget(h)
    PROVE  AuthTyped' /\ \A g \in Remote : Fresh(g)'
<1>0. h \in Gateways /\ AuthTyped
  BY ReloadAssumption DEF KInv
<1>1. UNCHANGED <<table, counter, need, rows_of, at, rows, prints, seen>>
  BY DEF Forget, world, bus, holder, tasks
<1>2. cached' \in [Gateways -> SUBSET Nat] /\ \A g \in Gateways : cached'[g] \subseteq cached[g]
  BY <1>0 DEF Forget, AuthTyped
<1>3. AuthTyped'
  BY <1>0, <1>1, <1>2 DEF AuthTyped
<1>4. ASSUME NEW g \in Remote PROVE Fresh(g)'
  BY <1>1, <1>2, LoopsOfRemote DEF KInv, Fresh
<1>5. QED
  BY <1>3, <1>4

(* The other steps end or begin a load, or read the rows. *)
LEMMA TaskFresh ==
    ASSUME KInv, RInv', NEW g \in Remote, NEW t \in Tasks,
           UNCHANGED <<auth, rows_of>>, table' >= table, counter' >= counter,
           \A v \in 1..counter : need'[v] = need[v],
           \A s \in Tasks \ {t} : at'[s] = at[s] /\ rows'[s] = rows[s],
           at'[t] = "loaded" => rows'[t] = table
    PROVE  Fresh(g)'
BY FreshStays, LoopsOfRemote

LEMMA ReadRowsFresh ==
    ASSUME KInv, RInv', NEW t \in Tasks, ReadRows(t), NEW g \in Remote PROVE Fresh(g)'
<1>0. TasksOK /\ table \in Nat /\ counter \in Nat
  BY DEF KInv, RInv, ReloadTypeOK
<1>1. UNCHANGED <<auth, rows_of, table, counter, need>>
  BY DEF ReadRows, world, bus, holder
<1>2. /\ \A s \in Tasks \ {t} : at'[s] = at[s] /\ rows'[s] = rows[s]
      /\ at'[t] = "loaded" => rows'[t] = table
  BY <1>0 DEF ReadRows, Finish, Goto, TasksOK
<1>3. QED
  BY <1>0, <1>1, <1>2, TaskFresh

LEMMA LoopFresh ==
    ASSUME KInv, RInv', NEW h \in Looping, Loop(h), NEW g \in Remote PROVE Fresh(g)'
<1>0. /\ TasksOK /\ table \in Nat /\ counter \in Nat
      /\ <<h, "watch">> \in Tasks /\ <<h, "poll">> \in Tasks
  BY TaskFacts DEF KInv, RInv, ReloadTypeOK
<1>1. UNCHANGED <<auth, rows_of, table, counter, need>>
  BY DEF Loop, Subscribe, Hear, Poll, PollCompares, world, bus, holder
<1>2. PICK t \in Tasks : /\ \A s \in Tasks \ {t} : at'[s] = at[s] /\ rows'[s] = rows[s]
                         /\ at'[t] = "loaded" => at[t] = "loaded" /\ rows'[t] = rows[t]
  <2>1. CASE Subscribe(h)
    BY <1>0, <2>1 DEF Subscribe, tasks
  <2>2. CASE Hear(h)
    <3> DEFINE t == <<h, "watch">>
    <3>1. /\ \A s \in Tasks \ {t} : at'[s] = at[s] /\ rows'[s] = rows[s]
          /\ at'[t] = "loaded" => at[t] = "loaded" /\ rows'[t] = rows[t]
      BY <1>0, <2>2 DEF Hear, StartLoad, Goto, TasksOK, tasks
    <3>2. QED
      BY <1>0, <3>1
  <2>3. CASE Poll(h) \/ PollCompares(h)
    <3> DEFINE t == <<h, "poll">>
    <3>1. /\ \A s \in Tasks \ {t} : at'[s] = at[s] /\ rows'[s] = rows[s]
          /\ at'[t] = "loaded" => at[t] = "loaded" /\ rows'[t] = rows[t]
      BY <1>0, <2>3, TaskFacts DEF Poll, PollCompares, StartLoad, Finish, Goto, TasksOK
    <3>2. QED
      BY <1>0, <3>1
  <2>4. QED
    BY <2>1, <2>2, <2>3 DEF Loop
<1>3. \A s \in LoopsOf(g) : at'[s] = "loaded" => at[s] = "loaded" /\ rows'[s] = rows[s]
  BY <1>2, LoopsOfRemote
<1>4. QED
  BY <1>0, <1>1, <1>3, FreshStays

LEMMA OperatorFresh ==
    ASSUME KInv, RInv', NEW o \in Ops, Operator(o), NEW g \in Remote PROVE Fresh(g)'
<1>0. /\ TasksOK /\ table \in Nat /\ counter \in Nat /\ o \in Tasks /\ g \in Gateways
      /\ OpGateway[o] # g /\ OpGateway[o] \in Gateways
  BY TaskFacts, ReloadAssumption DEF KInv, RInv, ReloadTypeOK, Remote
<1>1. UNCHANGED auth
  BY DEF Operator, Reload, Upsert, UpsertLoads, Incr, Publish, Named, FallBack, Name
<1>2. rows_of'[g] = rows_of[g]
  BY <1>0 DEF Operator, Reload, Upsert, UpsertLoads, Incr, Publish, Named, FallBack, Name, holder,
              KInv, RInv, ReloadTypeOK
<1>3. table' >= table
  BY <1>0 DEF Operator, Reload, Upsert, UpsertLoads, Incr, Publish, Named, FallBack, Name, world
<1>4. UNCHANGED <<counter, need>> \/ Announces(o)
  BY DEF Operator, Reload, Upsert, UpsertLoads, Incr, Publish, Named, FallBack, bus
<1>5. counter' >= counter /\ \A v \in 1..counter : need'[v] = need[v]
  <2>1. CASE Announces(o)
    <3> DEFINE n == [file |-> IF OpKind[o] = "reload" THEN read[o] ELSE 0, rows |-> rows[o]]
    <3>1. need \in Seq(Notes) /\ Len(need) = counter /\ need' = Append(need, n)
          /\ counter' = counter + 1 /\ n \in Notes
      BY <1>0, <2>1 DEF Announces, KInv, RInv, ReloadTypeOK, TasksOK, Notes
    <3> HIDE DEF n
    <3>2. QED
      BY <1>0, <3>1
  <2>2. QED
    BY <1>0, <1>4, <2>1
<1>6. \A s \in Tasks \ {o} : at'[s] = at[s] /\ rows'[s] = rows[s]
  BY <1>0 DEF Operator, Reload, Upsert, UpsertLoads, Incr, Publish, Named, FallBack, Name,
              StartLoad, Finish, Goto, TasksOK
<1>7. \A s \in LoopsOf(g) : at'[s] = at[s] /\ rows'[s] = rows[s]
  BY <1>6, LoopsOfRemote
<1>8. QED
  BY <1>1, <1>2, <1>3, <1>5, <1>7, FreshStays

LEMMA FreshKeeps == KInv /\ (\A g \in Remote : Apart(g)) /\ [Next]_vars => KInv'
<1> SUFFICES ASSUME KInv, \A g \in Remote : Apart(g), [Next]_vars PROVE KInv'
  OBVIOUS
<1>0. RInv' /\ AuthTyped
  BY StepKeeps DEF KInv
<1>1. ASSUME NEW h \in Serving, Authenticate(h) \/ Forget(h) PROVE KInv'
  BY <1>0, <1>1, AuthenticateFresh, ForgetFresh DEF KInv
<1>2. CASE \/ \E g \in Looping : Loop(g)
           \/ \E t \in Tasks : ReadRows(t) \/ Apply(t)
           \/ \E o \in Ops : Operator(o)
  <2>1. \A g \in Remote : Fresh(g)'
    BY <1>0, <1>2, LoopFresh, ReadRowsFresh, ApplyFresh, OperatorFresh
  <2>2. UNCHANGED auth
    BY <1>2 DEF Loop, Subscribe, Hear, Poll, PollCompares, ReadRows, Apply, Operator, Reload, Upsert,
                UpsertLoads, Incr, Publish, Named, FallBack, Name
  <2>3. QED
    BY <1>0, <2>1, <2>2 DEF KInv, AuthTyped, auth
<1>3. CASE Edit \/ Redis \/ Postgres \/ UNCHANGED vars
  <2>1. UNCHANGED <<table, counter, need, holder, tasks, auth>>
    BY <1>3 DEF Edit, Redis, Postgres, vars, world, bus
  <2>2. QED
    BY <1>0, <2>1 DEF KInv, Fresh, AuthTyped, holder, tasks, auth
<1>4. QED
  BY <1>1, <1>2, <1>3 DEF Next

(* While the two loops of each gateway do not overlap, no request is let    *)
(* in on a key from the cache of the middleware that a version its gateway  *)
(* holds has announced as replaced, however reloads, messages and polls     *)
(* interleave and whatever is lost (api/middleware.py, config/reloader.py). *)
THEOREM NoRevokedKey ==
    Spec /\ [](\A g \in Remote : Apart(g)) => []RevokedKeysRefused
<1>1. Init => KInv
  <2> SUFFICES ASSUME Init PROVE KInv
    OBVIOUS
  <2>1. AuthTyped
    BY DEF Init, AuthTyped
  <2>2. \A g \in Remote : Fresh(g)
    BY LoopsOfRemote DEF Init, Fresh
  <2>3. QED
    BY <2>1, <2>2, InitHolds DEF KInv
<1>2. KInv => RevokedKeysRefused
  <2> SUFFICES ASSUME KInv, NEW g \in Remote, NEW v \in 1..version[g], NEW k \in Keys(g)
               PROVE  k >= need[v].rows
    BY DEF RevokedKeysRefused
  <2>1. Fresh(g) /\ version[g] \in Nat /\ version[g] <= counter /\ counter \in Nat
    BY LoopsOfRemote DEF KInv, RInv, VersionKnown, ReloadTypeOK
  <2>2. rows_of[g] \in Nat /\ rows_of[g] >= need[v].rows /\ need[v].rows \in Nat
    <3>1. rows_of[g] \in Nat /\ rows_of[g] >= need[v].rows
      BY LoopsOfRemote DEF KInv, RInv, ReloadTypeOK, VersionCovers, Covers
    <3>2. v \in 1..counter
      BY <2>1
    <3>3. need[v] \in Notes
      BY <3>2 DEF KInv, RInv, ReloadTypeOK
    <3>4. QED
      BY <3>1, <3>3 DEF Notes
  <2>3. k \in Nat /\ prints[g] <= k /\ prints[g] \in Nat
    BY <2>1 DEF Keys, Fresh
  <2>4. CASE seen[g] = version[g]
    BY <2>1, <2>2, <2>3, <2>4 DEF Fresh
  <2>5. CASE prints[g] = rows_of[g]
    BY <2>2, <2>3, <2>5
  <2>6. QED
    BY <2>4, <2>5 DEF Keys
<1>3. QED
  BY <1>1, <1>2, FreshKeeps, PTL DEF Spec
=============================================================================
