-------------------------- MODULE SingleFlight_proofs --------------------------
(***************************************************************************)
(* Theorems about SingleFlight, for any requests of any kind and all       *)
(* faults: the leader of a flight is alone, the second lookup collapses    *)
(* misses, a flight is left behind in three ways only, its waiters in      *)
(* four, and the whole implements the single flight of Flights.            *)
(***************************************************************************)
EXTENDS SingleFlight, TLAPS

(***************************************************************************)
(* Type correctness                                                        *)
(***************************************************************************)
LEMMA TypeInit == Init => FlightTypeOK
BY FlightAssumption DEF Init, FlightTypeOK, Awaits, Ends

(* A request that moves to a known await keeps pc and last typed. *)
LEMMA GotoTyped ==
    ASSUME FlightTypeOK, NEW r \in Requests, NEW p \in Awaits \cup Ends, Goto(r, p)
    PROVE  /\ pc' \in [Requests -> Awaits \cup Ends]
           /\ last' \in [Requests -> Awaits \cup Ends]
BY DEF FlightTypeOK, Goto

LEMMA DispatchTyped ==
    ASSUME FlightTypeOK, NEW r \in Requests, Dispatch(r)
    PROVE  /\ pc' \in [Requests -> Awaits \cup Ends]
           /\ last' \in [Requests -> Awaits \cup Ends]
<1>1. \E p \in Awaits \cup Ends : Goto(r, p)
  BY DEF Dispatch, Awaits, Ends
<1> QED
  BY <1>1, GotoTyped

LEMMA CompleteTyped ==
    ASSUME FlightTypeOK, NEW r \in Requests, NEW v \in {"value", "error", "fatal"},
           Complete(r, v)
    PROVE  future' \in [Requests -> {"pending", "value", "error", "fatal"}]
BY DEF FlightTypeOK, Complete

LEMMA TypeStep == FlightTypeOK /\ [Next]_vars => FlightTypeOK'
<1> SUFFICES ASSUME FlightTypeOK, [Next]_vars PROVE FlightTypeOK'
  OBVIOUS
<1>1. ASSUME NEW r \in Requests, Step(r) PROVE FlightTypeOK'
  <2>1. \A p \in Awaits \cup Ends : Goto(r, p) =>
           /\ pc' \in [Requests -> Awaits \cup Ends]
           /\ last' \in [Requests -> Awaits \cup Ends]
    BY GotoTyped
  <2>2. Dispatch(r) => /\ pc' \in [Requests -> Awaits \cup Ends]
                       /\ last' \in [Requests -> Awaits \cup Ends]
    BY DispatchTyped
  <2>3. \A v \in {"value", "error", "fatal"} : Complete(r, v) =>
           future' \in [Requests -> {"pending", "value", "error", "fatal"}]
    BY CompleteTyped
  <2>4. Release(r) => table' \in Requests \cup {None}
    BY DEF FlightTypeOK, Release
  <2>5. CASE Acquire(r)
    <3>1. Goto(r, IF table = None THEN "rechecking" ELSE "waiting")
      BY <2>5 DEF Acquire
    <3>2. /\ pc' \in [Requests -> Awaits \cup Ends]
          /\ last' \in [Requests -> Awaits \cup Ends]
      BY <3>1, <2>1 DEF Awaits
    <3> QED
      BY <2>5, <3>2 DEF Acquire, FlightTypeOK
  <2>6. CASE Look(r) \/ Recheck(r)
    <3>1. \E p \in {"looked", "rechecked"} : Lookup(r, p)
      BY <2>6 DEF Look, Recheck
    <3>2. /\ pc' \in [Requests -> Awaits \cup Ends]
          /\ last' \in [Requests -> Awaits \cup Ends]
      BY <3>1, <2>1 DEF Lookup, Awaits
    <3>3. found' \in [Requests -> BOOLEAN] /\ early' \in [Requests -> BOOLEAN]
      <4>1. entry \in BOOLEAN /\ found \in [Requests -> BOOLEAN]
            /\ early \in [Requests -> BOOLEAN]
        BY DEF FlightTypeOK
      <4>2. PICK hit \in BOOLEAN :
               /\ found' = [found EXCEPT ![r] = hit]
               /\ early' = [early EXCEPT ![r] = @ /\ (entry => hit)]
        BY <3>1, <4>1 DEF Lookup
      <4>3. (early[r] /\ (entry => hit)) \in BOOLEAN
        OBVIOUS
      <4>4. found' \in [Requests -> BOOLEAN]
        BY <4>1, <4>2
      <4>5. early' \in [Requests -> BOOLEAN]
        BY <4>1, <4>2, <4>3
      <4> QED
        BY <4>4, <4>5
    <3> QED
      BY <3>1, <3>2, <3>3 DEF Lookup, Keep, FlightTypeOK
  <2>7. CASE Found(r) \/ LookupRaises(r) \/ Follows(r) \/ Drafts(r) \/ RecheckMiss(r)
             \/ RecheckHit(r)
    BY <2>7, <2>1, <2>2, <2>3, <2>4
       DEF Found, LookupRaises, Follows, Served, FallBack, Inherit, WaitTimesOut, Drafts,
           DraftAccepted, DraftEscalated, DraftFails, RecheckMiss, RecheckHit, Resolve,
           Reject, Same, Keep, FlightTypeOK, Awaits, Ends
  <2>8. CASE Store(r)
    BY <2>8, <2>1 DEF Store, Keep, FlightTypeOK, Awaits
  <2>9. CASE Answer(r) \/ Deliver(r) \/ StoreRaises(r) \/ Exhaust(r)
    BY <2>9, <2>1, <2>3, <2>4
       DEF Answer, Deliver, StoreRaises, Exhaust, Resolve, Reject, Same, Keep,
           FlightTypeOK, Awaits, Ends
  <2>10. CASE Stream(r)
    BY <2>10, <2>1, <2>3, <2>4
       DEF Stream, StreamStarts, StreamUnstarted, StreamAnswer, StreamFlush, Flushed,
           StreamRejects, StreamClosed, StreamCut, Leave, Resolve, Reject, Same, Keep,
           FlightTypeOK, Awaits, Ends
  <2> QED
    BY <1>1, <2>5, <2>6, <2>7, <2>8, <2>9, <2>10 DEF Step, Looks, Upstream
<1>2. CASE Expire
  BY <1>2 DEF Expire, Keep, FlightTypeOK
<1>3. CASE UNCHANGED vars
  BY <1>3 DEF vars, FlightTypeOK
<1> QED
  BY <1>1, <1>2, <1>3 DEF Next

(* Every behaviour of the single flight is type correct. *)
THEOREM FlightTypeCorrect == Spec => []FlightTypeOK
<1>1. Init => FlightTypeOK
  BY TypeInit
<1>2. FlightTypeOK /\ [Next]_vars => FlightTypeOK'
  BY TypeStep
<1> QED
  BY <1>1, <1>2, PTL DEF Spec

(***************************************************************************)
(* One leader                                                              *)
(***************************************************************************)
(* What the table and the flights say of each other: the key's flight is    *)
(* led by the request it is named after, and a request leads before its     *)
(* end exactly while it is on the way of a leader.                          *)
TableLed == \A r \in Requests : table = r => Leads(r)

WaitersFollow ==
    \A r \in Requests : /\ pc[r] \in {"new", "looked"} => flight[r] = None
                        /\ At(r, "waiting") => ~Leads(r)
                        /\ pc[r] \in Leading \cup {"waiting"} => flight[r] # None

LeaderInv == FlightTypeOK /\ OneLeader /\ TableLed /\ WaitersFollow

LEMMA LeaderInit == Init => LeaderInv
BY TypeInit, FlightAssumption
   DEF Init, LeaderInv, OneLeader, TableLed, WaitersFollow, Leads, Over, At, Ends, Leading, Awaits

(* A step of a request that acquires nothing and releases nothing. *)
LEMMA LeaderKept ==
    ASSUME LeaderInv, NEW r \in Requests, NEW p \in Leading \cup Ends, Goto(r, p),
           UNCHANGED <<flight, table>>, pc[r] \notin Ends,
           p \in Ends \/ flight[r] # None
    PROVE  OneLeader' /\ TableLed' /\ WaitersFollow'
BY FlightAssumption
   DEF LeaderInv, FlightTypeOK, OneLeader, TableLed, WaitersFollow, Leads, Over, At, Ends,
       Awaits, Leading, Goto

(* A step of a request that releases, if it leads, and ends. *)
LEMMA LeaderReleased ==
    ASSUME LeaderInv, NEW r \in Requests, NEW p \in Ends, Goto(r, p),
           Release(r), UNCHANGED flight, pc[r] \notin Ends
    PROVE  OneLeader' /\ TableLed' /\ WaitersFollow'
BY FlightAssumption
   DEF LeaderInv, FlightTypeOK, OneLeader, TableLed, WaitersFollow, Leads, Over, At, Ends,
       Awaits, Leading, Goto, Release

LEMMA LeaderStep == LeaderInv /\ [Next]_vars => LeaderInv'
<1> SUFFICES ASSUME LeaderInv, [Next]_vars PROVE LeaderInv'
  OBVIOUS
<1>1. FlightTypeOK'
  BY TypeStep DEF LeaderInv
<1>2. ASSUME NEW r \in Requests, Step(r) PROVE OneLeader' /\ TableLed' /\ WaitersFollow'
  <2>1. \A p \in Leading \cup Ends :
           /\ Goto(r, p) /\ UNCHANGED <<flight, table>> /\ pc[r] \notin Ends
           /\ p \in Ends \/ flight[r] # None
           => OneLeader' /\ TableLed' /\ WaitersFollow'
    BY LeaderKept
  <2>2. \A p \in Ends : Goto(r, p) /\ Release(r) /\ UNCHANGED flight /\ pc[r] \notin Ends
           => OneLeader' /\ TableLed' /\ WaitersFollow'
    BY LeaderReleased
  <2>3. pc[r] \in Leading \cup {"waiting"} => flight[r] # None
    BY DEF LeaderInv, WaitersFollow
  <2>4. Dispatch(r) => \E p \in Leading : Goto(r, p)
    BY DEF Dispatch, Leading, Awaits
  <2>5. CASE Look(r)
    BY <2>5, FlightAssumption
       DEF Look, Lookup, Goto, Keep, LeaderInv, FlightTypeOK, OneLeader, TableLed,
           WaitersFollow, Leads, Over, At, Ends, Leading, Awaits
  <2>6. CASE Acquire(r)
    BY <2>6, FlightAssumption
       DEF Acquire, Goto, LeaderInv, FlightTypeOK, OneLeader, TableLed,
           WaitersFollow, Leads, Over, At, Ends, Leading, Awaits
  <2>7. CASE Found(r) \/ LookupRaises(r) \/ Recheck(r)
    BY <2>7, <2>1, <2>3
       DEF Found, LookupRaises, Recheck, Lookup, Same, Keep, At, Ends, Leading, Awaits
  <2>8. CASE Follows(r) \/ RecheckMiss(r)
    BY <2>8, <2>1, <2>3, <2>4
       DEF Follows, Served, FallBack, Inherit, WaitTimesOut, RecheckMiss, Same, Keep, At,
           Ends, Leading, Awaits
  <2>9. CASE RecheckHit(r) \/ DraftAccepted(r) \/ Deliver(r) \/ StoreRaises(r)
             \/ Exhaust(r) \/ Leave(r)
    BY <2>9, <2>2
       DEF RecheckHit, DraftAccepted, Deliver, StoreRaises, Exhaust, Leave, Same, At, Ends
  <2>10. CASE DraftEscalated(r) \/ DraftFails(r) \/ Answer(r) \/ Store(r)
    BY <2>10, <2>1, <2>3
       DEF DraftEscalated, DraftFails, Answer, Store, Same, Keep, At, Ends, Leading, Awaits
  <2>11. CASE StreamStarts(r) \/ StreamUnstarted(r) \/ StreamAnswer(r) \/ StreamFlush(r)
              \/ Flushed(r) \/ StreamRejects(r) \/ StreamClosed(r) \/ StreamCut(r)
    BY <2>11, <2>1, <2>3
       DEF StreamStarts, StreamUnstarted, StreamAnswer, StreamFlush, Flushed, StreamRejects,
           StreamClosed, StreamCut, Same, Keep, At, Ends, Leading, Awaits
  <2> QED
    BY <1>2, <2>5, <2>6, <2>7, <2>8, <2>9, <2>10, <2>11
       DEF Step, Looks, Drafts, Upstream, Stream
<1>3. CASE Expire
  BY <1>3, <1>1
     DEF Expire, Keep, LeaderInv, OneLeader, TableLed, WaitersFollow, Leads, Over, At
<1>4. CASE UNCHANGED vars
  BY <1>4, <1>1 DEF vars, LeaderInv, OneLeader, TableLed, WaitersFollow, Leads, Over, At
<1> QED
  BY <1>1, <1>2, <1>3, <1>4 DEF Next, LeaderInv

(* No two requests lead at the same time, and no release takes away another *)
(* request's flight: what the key has is the flight of the one that leads.  *)
THEOREM LeaderAlone == Spec => []OneLeader
<1>1. Init => LeaderInv
  BY LeaderInit
<1>2. LeaderInv /\ [Next]_vars => LeaderInv'
  BY LeaderStep
<1>3. LeaderInv => OneLeader
  BY DEF LeaderInv
<1> QED
  BY <1>1, <1>2, <1>3, PTL DEF Spec

(***************************************************************************)
(* The flights left behind                                                 *)
(***************************************************************************)
LEMMA LeftStep == LeaderInv /\ LeftBehind /\ [Next]_vars => LeftBehind'
<1> SUFFICES ASSUME LeaderInv, LeftBehind, [Next]_vars PROVE LeftBehind'
  OBVIOUS
<1> USE DEF LeftBehind, Over
<1>1. ASSUME NEW r \in Requests, Step(r) PROVE LeftBehind'
  <2>1. ASSUME NEW p \in Awaits \cup Ends, Goto(r, p), UNCHANGED table, pc[r] \notin Ends,
               p \in Ends => ~Leads(r) \/ pc[r] \in {"draft", "rechecking", "starting"}
        PROVE  LeftBehind'
    BY <2>1 DEF LeaderInv, FlightTypeOK, TableLed, Goto, Leads
  <2>2. ASSUME NEW p \in Ends, Goto(r, p), Release(r), pc[r] \notin Ends
        PROVE  LeftBehind'
    BY <2>2, FlightAssumption DEF LeaderInv, FlightTypeOK, TableLed, Goto, Leads, Release
  <2>3. Dispatch(r) => \E p \in Awaits : Goto(r, p) /\ p \notin Ends
    BY DEF Dispatch, Awaits, Ends
  <2>4. pc[r] \in {"new", "looked", "waiting"} => ~Leads(r)
    BY FlightAssumption DEF LeaderInv, WaitersFollow, Leads, At
  <2>5. CASE Acquire(r)
    BY <2>5, FlightAssumption DEF Acquire, Goto, LeaderInv, FlightTypeOK, At, Ends
  <2>6. CASE Look(r) \/ Recheck(r) \/ Store(r)
    BY <2>6, <2>1 DEF Look, Recheck, Store, Lookup, Keep, At, Awaits, Ends
  <2>7. CASE Found(r) \/ LookupRaises(r) \/ Follows(r) \/ RecheckMiss(r)
    BY <2>7, <2>1, <2>3, <2>4
       DEF Found, LookupRaises, Follows, Served, FallBack, Inherit, WaitTimesOut, RecheckMiss,
           Same, Keep, At, Ends, Awaits
  <2>8. CASE RecheckHit(r) \/ DraftAccepted(r) \/ Deliver(r) \/ StoreRaises(r)
             \/ Exhaust(r) \/ Leave(r)
    BY <2>8, <2>2
       DEF RecheckHit, DraftAccepted, Deliver, StoreRaises, Exhaust, Leave, Same, At, Ends
  <2>9. CASE DraftEscalated(r) \/ DraftFails(r) \/ Answer(r)
    BY <2>9, <2>1 DEF DraftEscalated, DraftFails, Answer, Same, Keep, At, Ends, Awaits
  <2>10. CASE StreamStarts(r) \/ StreamUnstarted(r) \/ StreamAnswer(r) \/ StreamFlush(r)
              \/ Flushed(r) \/ StreamRejects(r) \/ StreamClosed(r) \/ StreamCut(r)
    BY <2>10, <2>1
       DEF StreamStarts, StreamUnstarted, StreamAnswer, StreamFlush, Flushed, StreamRejects,
           StreamClosed, StreamCut, Same, Keep, At, Ends, Awaits
  <2> QED
    BY <1>1, <2>5, <2>6, <2>7, <2>8, <2>9, <2>10 DEF Step, Looks, Drafts, Upstream, Stream
<1>2. CASE Expire
  BY <1>2 DEF Expire, Keep
<1>3. CASE UNCHANGED vars
  BY <1>3 DEF vars
<1> QED
  BY <1>1, <1>2, <1>3 DEF Next

(* A flight that outlives its leader was left by a draft that failed, a     *)
(* second lookup that raised or a stream that never started.                *)
THEOREM LeftByThreeWays == Spec => []LeftBehind
<1>1. Init => LeaderInv /\ LeftBehind
  BY LeaderInit DEF Init, LeftBehind
<1>2. LeaderInv /\ LeftBehind /\ [Next]_vars => (LeaderInv /\ LeftBehind)'
  BY LeaderStep, LeftStep
<1> QED
  BY <1>1, <1>2, PTL DEF Spec

(***************************************************************************)
(* Misses collapse                                                         *)
(***************************************************************************)
(* What a leader knew to be in the cache is there until it expires, and is  *)
(* found by the second lookup unless that fails.                            *)
EarlyInv ==
    \A r \in Requests :
        /\ early[r] => entry
        /\ At(r, "rechecked") /\ ~found[r] => ~early[r]

CollapsedInv == LeaderInv /\ EarlyInv /\ Collapsed

LEMMA CollapsedStep == CollapsedInv /\ [Next]_vars => CollapsedInv'
<1> SUFFICES ASSUME CollapsedInv, [Next]_vars PROVE CollapsedInv'
  OBVIOUS
<1>1. LeaderInv'
  BY LeaderStep DEF CollapsedInv
<1> USE DEF EarlyInv, Collapsed, At, Leads
<1>2. ASSUME NEW r \in Requests, Step(r) PROVE EarlyInv' /\ Collapsed'
  <2> DEFINE Out == {"draft", "starting", "upstream"}
  <2>1. ASSUME NEW p \in Awaits \cup Ends, Goto(r, p), UNCHANGED <<flight, found, early, entry>>,
               p # "rechecked",
               p \in Out => pc[r] \in Out \/ ~early[r] \/ ~Leads(r)
        PROVE  EarlyInv' /\ Collapsed'
    BY <2>1 DEF CollapsedInv, LeaderInv, FlightTypeOK, Goto
  <2>2. Dispatch(r) => \E p \in Awaits : Goto(r, p) /\ p # "rechecked"
    BY DEF Dispatch, Awaits
  <2>3. At(r, "waiting") => ~Leads(r)
    BY DEF CollapsedInv, LeaderInv, WaitersFollow
  <2>4. CASE Look(r)
    BY <2>4 DEF Look, Lookup, Goto, CollapsedInv, LeaderInv, FlightTypeOK
  <2>5. CASE Recheck(r)
    BY <2>5 DEF Recheck, Lookup, Goto, CollapsedInv, LeaderInv, FlightTypeOK
  <2>6. CASE Acquire(r)
    BY <2>6 DEF Acquire, Goto, CollapsedInv, LeaderInv, FlightTypeOK
  <2>7. CASE Store(r)
    BY <2>7 DEF Store, Goto, CollapsedInv, LeaderInv, FlightTypeOK
  <2>8. CASE Follows(r) \/ RecheckMiss(r)
    BY <2>8, <2>1, <2>2, <2>3
       DEF Follows, Served, FallBack, Inherit, WaitTimesOut, RecheckMiss, Same, Keep, Ends,
           Awaits, CollapsedInv
  <2>9. CASE Found(r) \/ LookupRaises(r) \/ RecheckHit(r) \/ Drafts(r)
    BY <2>9, <2>1
       DEF Found, LookupRaises, RecheckHit, Drafts, DraftAccepted, DraftEscalated,
           DraftFails, Same, Keep, Ends, Awaits
  <2>10. CASE Answer(r) \/ Deliver(r) \/ StoreRaises(r) \/ Exhaust(r)
    BY <2>10, <2>1 DEF Answer, Deliver, StoreRaises, Exhaust, Same, Keep, Ends, Awaits
  <2>11. CASE Stream(r)
    BY <2>11, <2>1
       DEF Stream, StreamStarts, StreamUnstarted, StreamAnswer, StreamFlush, Flushed,
           StreamRejects, StreamClosed, StreamCut, Leave, Same, Keep, Ends, Awaits
  <2> QED
    BY <1>2, <2>4, <2>5, <2>6, <2>7, <2>8, <2>9, <2>10, <2>11 DEF Step, Looks, Upstream
<1>3. CASE Expire
  BY <1>1, <1>3 DEF Expire, Keep, CollapsedInv
<1>4. CASE UNCHANGED vars
  BY <1>1, <1>4 DEF vars, CollapsedInv
<1> QED
  BY <1>1, <1>2, <1>3, <1>4 DEF Next, CollapsedInv

(* A leader whose key was answered before it acquired its flight does not   *)
(* call upstream, unless the answer expired or its own lookup failed.       *)
THEOREM MissesCollapse == Spec => []Collapsed
<1>1. Init => CollapsedInv
  BY LeaderInit DEF Init, CollapsedInv, EarlyInv, Collapsed, At
<1>2. CollapsedInv /\ [Next]_vars => CollapsedInv'
  BY CollapsedStep
<1>3. CollapsedInv => Collapsed
  BY DEF CollapsedInv
<1> QED
  BY <1>1, <1>2, <1>3, PTL DEF Spec

(***************************************************************************)
(* The results of the flights                                              *)
(***************************************************************************)
(* A stream has its result while it still stores and settles. *)
Returning(r) == r \in Streams /\ pc[r] \in {"storing", "stored", "flushing", "leaving"}

Abandoned(r) ==
    last[r] \in {"draft", "rechecking", "starting"} \/ (last[r] = "storing" /\ Plain(r))

FutureOK(r) ==
    /\ ~Leads(r) => future[r] = "pending"
    /\ flight[r] # None => Leads(flight[r])
    /\ pc[r] \in {"starting", "flushing", "leaving"} => r \in Streams
    /\ Leads(r) /\ ~Over(r) => (future[r] = "pending" <=> ~Returning(r))
    /\ Leads(r) /\ Over(r) /\ future[r] = "pending" => Abandoned(r)

ResultInv == LeaderInv /\ \A r \in Requests : FutureOK(r)

LEMMA ResultInit == Init => ResultInv /\ Air!FlightsInit
<1> SUFFICES ASSUME Init PROVE ResultInv /\ Air!FlightsInit
  OBVIOUS
<1>1. \A r \in Requests : ~Leads(r) /\ flight[r] = None /\ future[r] = "pending" /\ pc[r] = "new"
  BY FlightAssumption DEF Init, Leads
<1>2. \A r \in Requests : FutureOK(r)
  BY <1>1 DEF FutureOK
<1>3. Results = [r \in Requests |-> "none"]
  BY <1>1 DEF Results
<1>4. QED
  BY <1>2, <1>3, LeaderInit DEF ResultInv, Air!FlightsInit, Init

(* A step of a request touches its own place, future and flight, and a      *)
(* flight once acquired stays acquired.                                     *)
Local(r) ==
    /\ \A q \in Requests \ {r} :
          /\ pc'[q] = pc[q] /\ last'[q] = last[q]
          /\ flight'[q] = flight[q] /\ future'[q] = future[q]
    /\ flight'[r] = flight[r] \/ flight[r] = None

LEMMA StepLocal == ASSUME LeaderInv, NEW r \in Requests, Step(r) PROVE Local(r)
<1>0. FlightTypeOK
  BY DEF LeaderInv
<1>1. ASSUME NEW p, Goto(r, p)
      PROVE  \A q \in Requests \ {r} : pc'[q] = pc[q] /\ last'[q] = last[q]
  BY <1>0, <1>1 DEF Goto, FlightTypeOK
<1>2. ASSUME NEW v, Complete(r, v)
      PROVE  \A q \in Requests \ {r} : future'[q] = future[q]
  BY <1>0, <1>2 DEF Complete, FlightTypeOK
<1>3. ASSUME Dispatch(r)
      PROVE  \A q \in Requests \ {r} : pc'[q] = pc[q] /\ last'[q] = last[q]
  BY <1>1, <1>3 DEF Dispatch
<1>4. CASE Acquire(r)
  <2>1. flight[r] = None
    BY <1>4 DEF Acquire, LeaderInv, WaitersFollow, At
  <2>2. \A q \in Requests \ {r} : pc'[q] = pc[q] /\ last'[q] = last[q]
    BY <1>1, <1>4 DEF Acquire
  <2>3. QED
    BY <1>0, <1>4, <2>1, <2>2 DEF Acquire, Local, FlightTypeOK
<1>5. CASE Look(r) \/ Recheck(r) \/ Found(r) \/ LookupRaises(r)
  BY <1>1, <1>5 DEF Look, Recheck, Lookup, Found, LookupRaises, Same, Keep, Local
<1>6. CASE Follows(r) \/ RecheckMiss(r)
  BY <1>1, <1>3, <1>6
     DEF Follows, Served, FallBack, Inherit, WaitTimesOut, RecheckMiss, Same, Keep, Local
<1>7. CASE RecheckHit(r) \/ Drafts(r)
  BY <1>1, <1>2, <1>7
     DEF RecheckHit, Drafts, DraftAccepted, DraftEscalated, DraftFails, Resolve, Reject, Same, Keep,
         Local
<1>8. CASE Upstream(r)
  BY <1>1, <1>2, <1>8
     DEF Upstream, Answer, Store, Deliver, StoreRaises, Exhaust, Resolve, Reject, Same, Keep, Local
<1>9. CASE Stream(r)
  BY <1>1, <1>2, <1>9
     DEF Stream, StreamStarts, StreamUnstarted, StreamAnswer, StreamFlush, Flushed, StreamRejects,
         StreamClosed, StreamCut, Leave, Resolve, Reject, Same, Keep, Local
<1>10. QED
  BY <1>4, <1>5, <1>6, <1>7, <1>8, <1>9 DEF Step, Looks

LEMMA OthersOK ==
    ASSUME ResultInv, NEW r \in Requests, Local(r), NEW q \in Requests, q # r
    PROVE  FutureOK(q)'
<1>1. FutureOK(q) /\ flight[q] \in Requests \cup {None}
  BY DEF ResultInv, LeaderInv, FlightTypeOK
<1>2. /\ pc'[q] = pc[q] /\ last'[q] = last[q]
      /\ flight'[q] = flight[q] /\ future'[q] = future[q]
  BY DEF Local
<1>3. flight[q] # None => flight'[flight[q]] = flight[q]
  <2> SUFFICES ASSUME flight[q] # None PROVE flight'[flight[q]] = flight[q]
    OBVIOUS
  <2>1. flight[q] \in Requests /\ flight[flight[q]] = flight[q]
    BY <1>1 DEF FutureOK, Leads
  <2>2. QED
    BY <2>1 DEF Local
<1>4. QED
  BY <1>1, <1>2, <1>3 DEF FutureOK, Leads, Over, Returning, Abandoned

(* The three ways in which a step touches the flights. *)
Quiet(r) == UNCHANGED <<flight, future, table>>
Lands(r, v) == Complete(r, v) /\ (Release(r) \/ UNCHANGED table) /\ UNCHANGED flight
Lets(r) == Release(r) /\ UNCHANGED <<flight, future>>

LEMMA QuietAir == ASSUME NEW r, Quiet(r) PROVE UNCHANGED <<table, Results>>
BY DEF Quiet, Results, Leads

LEMMA LandsAir ==
    ASSUME ResultInv, NEW r \in Requests, NEW v \in {"value", "error", "fatal"}, Lands(r, v),
           ~Over(r), ~Returning(r)
    PROVE  Air!FlightsNext \/ UNCHANGED <<table, Results>>
<1>1. FutureOK(r) /\ FlightTypeOK /\ OneLeader
  BY DEF ResultInv, LeaderInv
<1>2. CASE Leads(r)
  <2>1. future[r] = "pending" /\ table = r
    BY <1>1, <1>2 DEF FutureOK, OneLeader
  <2>2. future' = [future EXCEPT ![r] = v] /\ flight' = flight /\ table' \in {r, None}
    BY <1>2, <2>1 DEF Lands, Complete, Release
  <2>3. Results[r] = "pending" /\ Results' = [Results EXCEPT ![r] = v]
    BY <1>1, <1>2, <2>1, <2>2 DEF Results, Leads, FlightTypeOK
  <2>4. Air!Land(r, v)
    BY <2>1, <2>2, <2>3 DEF Air!Land
  <2>5. QED
    BY <2>4 DEF Air!FlightsNext
<1>3. CASE ~Leads(r)
  BY <1>3, QuietAir DEF Lands, Complete, Release, Quiet
<1>4. QED
  BY <1>2, <1>3

LEMMA LetsAir ==
    ASSUME ResultInv, NEW r \in Requests, Lets(r), ~Over(r)
    PROVE  Air!FlightsNext \/ UNCHANGED <<table, Results>>
<1>1. CASE Leads(r)
  <2>1. table = r /\ table' = None /\ Results' = Results
    BY <1>1 DEF ResultInv, LeaderInv, OneLeader, Lets, Release, Results, Leads
  <2>2. QED
    BY <2>1 DEF Air!FlightsNext, Air!Close
<1>2. CASE ~Leads(r)
  BY <1>2, QuietAir DEF Lets, Release, Quiet
<1>3. QED
  BY <1>1, <1>2

LEMMA AcquireAir ==
    ASSUME ResultInv, NEW r \in Requests, Acquire(r)
    PROVE  FutureOK(r)' /\ (Air!FlightsNext \/ UNCHANGED <<table, Results>>)
<1>1. /\ FutureOK(r) /\ FlightTypeOK /\ TableLed /\ flight[r] = None /\ ~Leads(r)
      /\ r # None
  BY FlightAssumption DEF ResultInv, LeaderInv, Acquire, WaitersFollow, At, Leads
<1>2. future[r] = "pending"
  BY <1>1 DEF FutureOK
<1>3. CASE table = None
  <2>1. /\ flight' = [flight EXCEPT ![r] = r] /\ table' = r /\ future' = [future EXCEPT ![r] = "pending"]
        /\ pc' = [pc EXCEPT ![r] = "rechecking"]
    BY <1>3 DEF Acquire, Goto
  <2>2. FutureOK(r)'
    BY <1>1, <2>1 DEF FutureOK, Leads, Over, Returning, FlightTypeOK, Ends
  <2>3. Results[r] = "none" /\ Results' = [Results EXCEPT ![r] = "pending"]
    BY <1>1, <2>1 DEF Results, Leads, FlightTypeOK
  <2>4. Air!Open(r)
    BY <1>3, <2>1, <2>3 DEF Air!Open
  <2>5. QED
    BY <2>2, <2>4 DEF Air!FlightsNext
<1>4. CASE table # None
  <2>1. /\ flight' = [flight EXCEPT ![r] = table] /\ table' = table /\ future' = future
        /\ pc' = [pc EXCEPT ![r] = "waiting"]
    BY <1>4 DEF Acquire, Goto
  <2>2. table \in Requests /\ flight[table] = table /\ table # r
    BY <1>1, <1>4 DEF FlightTypeOK, TableLed, Leads
  <2>3. FutureOK(r)'
    BY <1>1, <1>2, <2>1, <2>2 DEF FutureOK, Leads, Over, Returning, FlightTypeOK, Ends
  <2>4. Results' = Results
    BY <1>1, <2>1, <2>2 DEF Results, Leads, FlightTypeOK
  <2>5. QED
    BY <2>1, <2>3, <2>4
<1>5. QED
  BY <1>3, <1>4

(* What each way of moving on makes of the request's own future. *)
LEMMA QuietOK ==
    ASSUME ResultInv, NEW r \in Requests, NEW p \in Awaits \cup Ends, Goto(r, p), Quiet(r), ~Over(r),
           p \in {"starting", "flushing", "leaving"} => r \in Streams,
           p \in Awaits /\ r \in Streams /\ Leads(r) =>
              (Returning(r) <=> p \in {"storing", "stored", "flushing", "leaving"}),
           p \in Ends /\ Leads(r) => pc[r] \in {"draft", "rechecking", "starting"}
    PROVE  FutureOK(r)'
<1>1. FutureOK(r) /\ FlightTypeOK
  BY DEF ResultInv, LeaderInv
<1>2. pc'[r] = p /\ (p \in Ends => last'[r] = pc[r]) /\ UNCHANGED <<flight, future>>
  BY <1>1 DEF Goto, Quiet, FlightTypeOK
<1>3. p \in Awaits <=> p \notin Ends
  BY DEF Awaits, Ends
<1>4. QED
  BY <1>1, <1>2, <1>3 DEF FutureOK, Leads, Over, Returning, Abandoned

LEMMA LandsOK ==
    ASSUME ResultInv, NEW r \in Requests, NEW v \in {"value", "error", "fatal"}, Lands(r, v),
           NEW p \in Ends \cup {"storing", "leaving"}, Goto(r, p), ~Over(r), ~Returning(r),
           p \in Ends \/ r \in Streams
    PROVE  FutureOK(r)'
<1>1. FutureOK(r) /\ FlightTypeOK
  BY DEF ResultInv, LeaderInv
<1>2. pc'[r] = p /\ flight' = flight
  BY <1>1 DEF Goto, Lands, FlightTypeOK
<1>3. future'[r] = IF Leads(r) THEN v ELSE "pending"
  BY <1>1 DEF Lands, Complete, FutureOK, FlightTypeOK
<1>4. QED
  BY <1>1, <1>2, <1>3 DEF FutureOK, Leads, Over, Returning, Ends

LEMMA LetsOK ==
    ASSUME ResultInv, NEW r \in Requests, Lets(r), NEW p \in Ends, Goto(r, p), ~Over(r),
           Returning(r) \/ Abandoned(r)' \/ ~Leads(r)
    PROVE  FutureOK(r)'
<1>1. FutureOK(r) /\ FlightTypeOK
  BY DEF ResultInv, LeaderInv
<1>2. pc'[r] = p /\ UNCHANGED <<flight, future>>
  BY <1>1 DEF Goto, Lets, FlightTypeOK
<1>3. Returning(r) /\ Leads(r) => future[r] # "pending"
  BY <1>1 DEF FutureOK
<1>4. QED
  BY <1>1, <1>2, <1>3 DEF FutureOK, Leads, Over, Returning, Ends

(* What a step does to the flight of the request that takes it. *)
Settled(r) == FutureOK(r)' /\ (Air!FlightsNext \/ UNCHANGED <<table, Results>>)

LEMMA QuietStep ==
    ASSUME ResultInv, NEW r \in Requests,
           \/ Looks(r) /\ ~Acquire(r)
           \/ Follows(r) \/ Recheck(r) \/ RecheckMiss(r)
           \/ DraftEscalated(r) \/ DraftFails(r) \/ Answer(r) \/ Store(r)
           \/ StreamStarts(r) \/ StreamUnstarted(r) \/ StreamFlush(r) \/ Flushed(r)
           \/ StreamCut(r)
    PROVE  Settled(r)
<1>1. FutureOK(r) /\ FlightTypeOK /\ (pc[r] \in {"new", "looked", "waiting"} => ~Leads(r))
  BY FlightAssumption DEF ResultInv, LeaderInv, WaitersFollow, Leads, At
<1>2. ASSUME NEW p \in Awaits \cup Ends, Goto(r, p), Quiet(r), ~Over(r),
             p \in {"starting", "flushing", "leaving"} => r \in Streams,
             p \in Awaits /\ r \in Streams /\ Leads(r) =>
                (Returning(r) <=> p \in {"storing", "stored", "flushing", "leaving"}),
             p \in Ends /\ Leads(r) => pc[r] \in {"draft", "rechecking", "starting"}
      PROVE  Settled(r)
  BY <1>2, QuietOK, QuietAir DEF Settled
<1>3. CASE Look(r) \/ Found(r) \/ LookupRaises(r) \/ Recheck(r)
  BY <1>1, <1>2, <1>3
     DEF Look, Found, LookupRaises, Recheck, Lookup, Same, Keep, Quiet, At, Over, Awaits, Ends,
         Returning
<1>4. CASE Follows(r) \/ RecheckMiss(r)
  <2>1. Dispatch(r) => \E p \in {"starting", "draft", "upstream"} :
                         Goto(r, p) /\ (p = "starting" => r \in Streams)
    BY DEF Dispatch
  <2>2. Quiet(r) /\ pc[r] \in {"waiting", "rechecked"} /\ ~Over(r) /\ ~Returning(r)
    BY <1>4 DEF Follows, Served, FallBack, Inherit, WaitTimesOut, RecheckMiss, Same, Keep, Quiet,
                At, Over, Ends, Returning
  <2>3. CASE Dispatch(r)
    BY <1>2, <2>1, <2>2, <2>3 DEF Awaits, Ends
  <2>4. CASE ~Dispatch(r)
    <3>1. pc[r] = "waiting" /\ \E p \in Ends : Goto(r, p)
      BY <1>4, <2>4 DEF Follows, Served, FallBack, Inherit, WaitTimesOut, RecheckMiss, At, Ends
    <3>2. QED
      BY <1>1, <1>2, <2>2, <3>1 DEF Awaits, Ends
  <2>5. QED
    BY <2>3, <2>4
<1>5. CASE DraftEscalated(r) \/ DraftFails(r) \/ Answer(r) \/ Store(r)
  BY <1>1, <1>2, <1>5
     DEF DraftEscalated, DraftFails, Answer, Store, Plain, Same, Keep, Quiet, At, Over, Awaits,
         Ends, Returning
<1>6. CASE StreamStarts(r) \/ StreamUnstarted(r) \/ StreamFlush(r) \/ Flushed(r) \/ StreamCut(r)
  <2>1. r \in Streams
    BY <1>1, <1>6
       DEF StreamStarts, StreamUnstarted, StreamFlush, Flushed, StreamCut, FutureOK, At
  <2>2. QED
    BY <1>1, <1>2, <1>6, <2>1
       DEF StreamStarts, StreamUnstarted, StreamFlush, Flushed, StreamCut, Same, Keep, Quiet, At,
           Over, Awaits, Ends, Returning
<1>7. QED
  BY <1>3, <1>4, <1>5, <1>6 DEF Looks

LEMMA LandsStep ==
    ASSUME ResultInv, NEW r \in Requests,
           \/ RecheckHit(r) \/ DraftAccepted(r) \/ Deliver(r) \/ Exhaust(r)
           \/ StreamAnswer(r) \/ StreamRejects(r) \/ StreamClosed(r)
    PROVE  Settled(r)
<1>1. \E v \in {"value", "error", "fatal"} : Lands(r, v)
  BY DEF RecheckHit, DraftAccepted, Deliver, Exhaust, StreamAnswer, StreamRejects, StreamClosed,
         Resolve, Reject, Same, Lands
<1>2. ~Over(r) /\ ~Returning(r)
  BY DEF RecheckHit, DraftAccepted, Deliver, Exhaust, StreamAnswer, StreamRejects, StreamClosed,
         At, Plain, Over, Ends, Returning
<1>3. \E p \in Ends \cup {"storing", "leaving"} : Goto(r, p) /\ (p \in Ends \/ r \in Streams)
  BY DEF RecheckHit, DraftAccepted, Deliver, Exhaust, StreamAnswer, StreamRejects, StreamClosed, Ends
<1>4. FutureOK(r)'
  BY <1>1, <1>2, <1>3, LandsOK
<1>5. QED
  BY <1>1, <1>2, <1>4, LandsAir DEF Settled

LEMMA LetsStep ==
    ASSUME ResultInv, NEW r \in Requests, StoreRaises(r) \/ Leave(r)
    PROVE  Settled(r)
<1>1. FutureOK(r) /\ FlightTypeOK
  BY DEF ResultInv, LeaderInv
<1>2. Lets(r) /\ ~Over(r)
  BY DEF StoreRaises, Leave, Same, Lets, At, Over, Ends
<1>3. CASE StoreRaises(r)
  <2>1. Abandoned(r)' /\ Goto(r, "failed")
    BY <1>1, <1>3 DEF StoreRaises, Goto, Abandoned, At, Plain, Ends, FlightTypeOK
  <2>2. FutureOK(r)'
    BY <1>2, <2>1, LetsOK DEF Ends
  <2>3. QED
    BY <1>2, <2>2, LetsAir DEF Settled
<1>4. CASE Leave(r)
  <2>1. Returning(r) /\ Goto(r, "served")
    BY <1>1, <1>4 DEF Leave, Returning, FutureOK, At
  <2>2. FutureOK(r)'
    BY <1>2, <2>1, LetsOK DEF Ends
  <2>3. QED
    BY <1>2, <2>2, LetsAir DEF Settled
<1>5. QED
  BY <1>3, <1>4

LEMMA ResultStep == ResultInv /\ [Next]_vars => ResultInv' /\ [Air!FlightsNext]_<<table, Results>>
<1> SUFFICES ASSUME ResultInv, [Next]_vars
             PROVE  ResultInv' /\ [Air!FlightsNext]_<<table, Results>>
  OBVIOUS
<1>1. LeaderInv'
  BY LeaderStep DEF ResultInv
<1>2. ASSUME NEW r \in Requests, Step(r)
      PROVE  ResultInv' /\ [Air!FlightsNext]_<<table, Results>>
  <2>1. Settled(r)
    <3>1. CASE Acquire(r)
      BY <3>1, AcquireAir DEF Settled
    <3>2. CASE ~Acquire(r)
      BY <1>2, <3>2, QuietStep, LandsStep, LetsStep DEF Step, Looks, Drafts, Upstream, Stream
    <3>3. QED
      BY <3>1, <3>2
  <2>2. \A q \in Requests \ {r} : FutureOK(q)'
    BY <1>2, StepLocal, OthersOK DEF ResultInv
  <2>3. QED
    BY <1>1, <2>1, <2>2 DEF ResultInv, Settled
<1>3. CASE Expire \/ UNCHANGED vars
  <2>1. UNCHANGED <<pc, flight, future, table, last>>
    BY <1>3 DEF Expire, Keep, vars
  <2>2. \A r \in Requests : FutureOK(r)'
    BY <2>1 DEF ResultInv, FutureOK, Leads, Over, Returning, Abandoned
  <2>3. QED
    BY <1>1, <2>1, <2>2 DEF ResultInv, Results, Leads
<1>4. QED
  BY <1>2, <1>3 DEF Next

(* cache/singleflight.py implements a single flight: a key has one flight   *)
(* at a time, its future is completed once, by the request that opened it   *)
(* and while the key has it, and no flight comes back once it was popped.   *)
THEOREM FlightsImplemented == Spec => Air!FlightsSpec
<1>1. Init => ResultInv /\ Air!FlightsInit
  BY ResultInit
<1>2. ResultInv /\ [Next]_vars => ResultInv' /\ [Air!FlightsNext]_<<table, Results>>
  BY ResultStep
<1> QED
  BY <1>1, <1>2, PTL DEF Spec, Air!FlightsSpec, Air!flightsVars

(* A follower waits in vain, for its timeout to end it, only if its leader  *)
(* came to its end without a word: a draft that failed, a lookup or a store *)
(* that raised, a stream that never started.                                *)
LeftWaiting ==
    \A r \in Requests :
        At(r, "waiting") /\ future[flight[r]] = "pending" /\ Over(flight[r]) =>
            last[flight[r]] \in {"draft", "rechecking", "starting", "storing"}

(* No request waits on a flight that was left behind in any other way. *)
THEOREM WaitersLeft == Spec => []LeftWaiting
<1>1. Init => ResultInv
  BY ResultInit
<1>2. ResultInv /\ [Next]_vars => ResultInv'
  BY ResultStep
<1>3. ResultInv => LeftWaiting
  <2> SUFFICES ASSUME ResultInv, NEW r \in Requests, At(r, "waiting"),
                      future[flight[r]] = "pending", Over(flight[r])
               PROVE  last[flight[r]] \in {"draft", "rechecking", "starting", "storing"}
    BY DEF LeftWaiting
  <2>1. flight[r] \in Requests /\ Leads(flight[r])
    BY DEF ResultInv, LeaderInv, FlightTypeOK, WaitersFollow, At, FutureOK
  <2>2. Abandoned(flight[r])
    BY <2>1 DEF ResultInv, FutureOK
  <2> QED
    BY <2>2 DEF Abandoned
<1> QED
  BY <1>1, <1>2, <1>3, PTL DEF Spec
=============================================================================
