--------------------------- MODULE Attempts_proofs ---------------------------
(***************************************************************************)
(* Theorems about Attempts, for any deployments, attempts and policies: a  *)
(* body has one voice, one upstream stream is open for a client that is    *)
(* there, what is billed is what was sent, and every stream is settled.    *)
(***************************************************************************)
EXTENDS Attempts, TLAPS, FiniteSetTheorems

Late == {"finally", "settling", "flushing", "over", "left"}
Racing == {"race", "racing"}
Early == Racing \cup {"pick"}
Playing == {"body", "sent"}
Closing == {"storing", "billing", "writing", "done", "said"}

Numbers == at = "race" => seq < 2 * count

(* Where the body is says which calls it uses, and that they are not closed. *)
Uses ==
    /\ at \in Racing => /\ Hedging
                        /\ prim \in Calls /\ prim < seq /\ rival \in Deployments
                        /\ call[prim].dep = dep /\ call[prim].st # "closed"
                        /\ dep \in Deployments /\ priced = dep
    /\ at = "racing" => /\ hedge \in Calls /\ hedge # prim /\ hedge < seq
                        /\ call[hedge].dep = rival /\ call[hedge].st # "closed"
    /\ at \in Playing => /\ now \in Calls /\ now < seq
                         /\ call[now].dep = dep /\ call[now].st # "closed"
                         /\ dep \in Deployments /\ priced = dep
                         /\ prim \in Calls /\ prim < seq

(* The calls that may be open while the client is there. *)
Used == CASE at = "race" -> {prim}
          [] at = "racing" -> {prim, hedge}
          [] at \in Playing -> {now}
          [] OTHER -> {}

Streams ==
    /\ gone => at \in Late
    /\ ~gone => Open \subseteq Used

Voices ==
    /\ spoke \subseteq {now}
    /\ at \in Early => spoke = {}
    /\ usage \in spoke \cup {None}

(* The numbers that still have no record. *)
Books ==
    /\ \A r \in records : r.seq < seq
    /\ at \in Racing => \A r \in records : r.seq # prim
    /\ at = "racing" => \A r \in records : r.seq # hedge
    /\ at \in Playing => \A r \in records : r.seq # now
    /\ (\E r \in records : r.outcome = "delivered") => at \in Closing \cup Late

Broken ==
    \/ \E c \in Calls : call[c].st = "crashed"
    \/ Hedging /\ spoke = {} /\ \E c \in Calls : call[c].st = "ended"

Whole ==
    /\ at = "said" => done
    /\ at \in Late /\ ~gone => done \/ Broken

AInv ==
    /\ AttemptsTypeOK /\ Numbers /\ Uses /\ Streams /\ Voices /\ Books /\ Whole
    /\ BilledAsSent

States == {"waiting", "ready", "idle"} \cup Over

CallOK == call \in [Calls -> [dep : Deployments \cup {None}, st : States]]

(***************************************************************************)
(* The two ways in which a call changes                                    *)
(***************************************************************************)
LEMMA SetFacts ==
    ASSUME CallOK, NEW c \in Calls, NEW st \in States, Set(c, st)
    PROVE  /\ CallOK'
           /\ call'[c].st = st
           /\ \A k \in Calls : call'[k].dep = call[k].dep
           /\ \A k \in Calls : k # c => call'[k].st = call[k].st
BY DEF CallOK, Set

LEMMA DispatchFacts ==
    ASSUME CallOK, NEW c \in Calls, NEW d \in Deployments, Dispatches(c, d)
    PROVE  /\ CallOK'
           /\ call'[c].st = "waiting" /\ call'[c].dep = d
           /\ \A k \in Calls : k # c => call'[k].dep = call[k].dep /\ call'[k].st = call[k].st
BY DEF CallOK, Dispatches, States

(* What a failure leaves of the books. *)
LEMMA FailsFacts ==
    ASSUME AttemptsTypeOK, NEW c \in Calls, Fails(c), prim \in Calls, dep \in Deployments
    PROVE  /\ records' \subseteq records \cup {Record(prim, "failed", dep)}
           /\ records' \subseteq [seq : Calls, outcome : {"failed", "hedge_loser", "delivered"},
                                  dep : Deployments]
           /\ at' \in {"pick", "after", "finally"}
           /\ at' = "pick" => spoke = {}
           /\ at' = "finally" => call[c].st \notin Errors
BY DEF AttemptsTypeOK, Fails, Record, Retries

(***************************************************************************)
(* Type correctness                                                        *)
(***************************************************************************)
Typed == AttemptsTypeOK /\ Numbers /\ Uses

LEMMA InitHolds == Init => AInv
<1> SUFFICES ASSUME Init PROVE AInv
  OBVIOUS
<1>1. Open = {}
  BY DEF Init, Open
<1>2. 0 \in Calls
  BY AttemptsAssumption DEF Calls
<1>3. AttemptsTypeOK
  <2>1. call \in [Calls -> [dep : Deployments \cup {None}, st : States]]
    BY DEF Init, States, Over
  <2>2. count \in 0..MaxAttempts /\ seq \in count..2 * count
    BY AttemptsAssumption DEF Init
  <2>3. records = {} /\ spoke = {} /\ tried = {}
    BY DEF Init
  <2> QED
    BY <2>1, <2>2, <2>3 DEF Init, AttemptsTypeOK, States
<1>4. Numbers /\ Uses /\ Streams /\ Voices /\ Books /\ Whole /\ BilledAsSent
  BY <1>1 DEF Init, Numbers, Uses, Streams, Voices, Books, Whole, BilledAsSent,
              Racing, Playing, Late
<1> QED
  BY <1>3, <1>4 DEF AInv

LEMMA TypeAttempt == Typed /\ Attempt => Typed'
<1> SUFFICES ASSUME Typed, Attempt PROVE Typed'
  OBVIOUS
<1> USE AttemptsAssumption
<1>1. CallOK
  BY DEF Typed, AttemptsTypeOK, CallOK, States
<1>2. ASSUME NEW d \in Deployments, Picks(d) PROVE seq \in Calls /\ seq + 1 \in Calls /\ seq + 1 < 2 * (count + 1)
                                                /\ count + 1 \in 0..MaxAttempts /\ seq + 1 \in (count + 1)..(2 * (count + 1))
  BY <1>2 DEF Typed, AttemptsTypeOK, Picks, Calls
<1>3. ASSUME NEW d \in Deployments, Refused(d) PROVE Typed'
  BY <1>3, <1>2 DEF Typed, AttemptsTypeOK, Numbers, Uses, Refused, Picks, money, client, Racing, Playing
<1>4. ASSUME NEW d \in Deployments, Starts(d) PROVE Typed'
  <2>1. Picks(d) /\ Dispatches(seq, d) /\ seq \in Calls
    BY <1>4, <1>2 DEF Starts
  <2>2. CallOK' /\ call'[seq].st = "waiting" /\ call'[seq].dep = d
    BY <1>1, <2>1, DispatchFacts
  <2> QED
    BY <1>4, <1>2, <2>1, <2>2
       DEF Typed, AttemptsTypeOK, Numbers, Uses, Starts, Picks, money, client, Racing, Playing,
           CallOK, States, Awaits
<1>5. ASSUME NEW d \in Deployments, NEW e \in Deployments, StartsRace(d, e) PROVE Typed'
  <2>1. Picks(d) /\ Dispatches(seq, d) /\ seq \in Calls
    BY <1>5, <1>2 DEF StartsRace
  <2>2. CallOK' /\ call'[seq].st = "waiting" /\ call'[seq].dep = d
    BY <1>1, <2>1, DispatchFacts
  <2> QED
    BY <1>5, <1>2, <2>1, <2>2
       DEF Typed, AttemptsTypeOK, Numbers, Uses, StartsRace, Picks, money, client, Racing, Playing,
           CallOK, States, Awaits
<1>6. CASE NobodyLeft
  BY <1>6 DEF Typed, AttemptsTypeOK, Numbers, Uses, NobodyLeft, attempt, money, client, Racing,
             Playing, Awaits
<1> QED
  BY <1>3, <1>4, <1>5, <1>6 DEF Attempt

LEMMA TypeRace == Typed /\ Race => Typed'
<1> SUFFICES ASSUME Typed, Race PROVE Typed'
  OBVIOUS
<1> USE AttemptsAssumption
<1>1. CallOK
  BY DEF Typed, AttemptsTypeOK, CallOK, States
<1>2. CASE Delay
  <2>1. seq \in Calls /\ rival \in Deployments /\ prim \in Calls /\ prim < seq
    BY <1>2 DEF Typed, AttemptsTypeOK, Numbers, Uses, Delay, Calls, Racing
  <2>2. /\ CallOK' /\ call'[seq].st = "waiting" /\ call'[seq].dep = rival
        /\ call'[prim].dep = call[prim].dep /\ call'[prim].st = call[prim].st
    BY <1>1, <1>2, <2>1, DispatchFacts DEF Delay, Calls
  <2> QED
    BY <1>2, <2>1, <2>2
       DEF Typed, AttemptsTypeOK, Numbers, Uses, Delay, money, client, Racing, Playing, CallOK,
           States, Awaits, Calls
<1>3. CASE PrimaryFirst
  <2>1. prim \in Calls /\ dep \in Deployments
    BY <1>3 DEF Typed, Uses, PrimaryFirst, Racing
  <2>2. Fails(prim) => /\ at' \in {"pick", "after", "finally"}
                       /\ records' \subseteq [seq : Calls, outcome : {"failed", "hedge_loser",
                                                "delivered"}, dep : Deployments]
    BY <2>1, FailsFacts DEF Typed
  <2> QED
    BY <1>3, <2>1, <2>2
       DEF Typed, AttemptsTypeOK, Numbers, Uses, PrimaryFirst, attempt, money, client, Racing,
           Playing, Awaits
<1>4. ASSUME NEW w, NEW l, <<w, l>> \in {<<prim, hedge>>, <<hedge, prim>>}, RaceEnds(w, l)
      PROVE  Typed'
  <2>1. /\ w \in Calls /\ l \in Calls /\ w # l /\ w < seq /\ l < seq /\ dep \in Deployments
        /\ call[w].dep \in Deployments /\ call[l].dep \in Deployments
        /\ prim \in Calls /\ prim < seq
    BY <1>4 DEF Typed, Uses, RaceEnds, Racing
  <2>2. /\ CallOK' /\ call'[w].st = call[w].st /\ call'[w].dep = call[w].dep
    BY <1>1, <1>4, <2>1, SetFacts DEF RaceEnds, LoserClosed, States, Over
  <2>3. Fails(w) => /\ at' \in {"pick", "after", "finally"}
                    /\ records' \subseteq [seq : Calls, outcome : {"failed", "hedge_loser",
                                             "delivered"}, dep : Deployments]
    BY <2>1, FailsFacts DEF Typed
  <2>4. CASE call[w].st = "ready" /\ Wins(w, l)
    <3>1. records' \subseteq [seq : Calls, outcome : {"failed", "hedge_loser", "delivered"},
                              dep : Deployments]
      BY <2>1, <2>4 DEF Wins, Record, Typed, AttemptsTypeOK
    <3> QED
      BY <1>4, <2>1, <2>2, <2>4, <3>1
         DEF Typed, AttemptsTypeOK, Numbers, Uses, RaceEnds, Wins, money, client, Racing, Playing,
             Awaits, CallOK, States
  <2>5. CASE call[w].st \in Over /\ Fails(w) /\ UNCHANGED <<dep, priced, now>>
    BY <1>4, <2>1, <2>2, <2>3, <2>5
       DEF Typed, AttemptsTypeOK, Numbers, Uses, RaceEnds, client, Racing, Playing, Awaits,
           CallOK, States
  <2> QED
    BY <1>4, <2>4, <2>5 DEF RaceEnds
<1> QED
  BY <1>2, <1>3, <1>4 DEF Race

LEMMA TypeStream == Typed /\ Stream => Typed'
<1> SUFFICES ASSUME Typed, Stream PROVE Typed'
  OBVIOUS
<1> USE AttemptsAssumption
<1>1. /\ CallOK /\ at \in Playing /\ now \in Calls /\ now < seq /\ call[now].dep = dep
      /\ dep \in Deployments /\ prim \in Calls
  BY DEF Typed, AttemptsTypeOK, CallOK, States, Stream, Delivers, Goes, Disconnects, Breaks,
         Finishes, Uses, Playing
<1>2. \A st \in States : Set(now, st) => CallOK' /\ call'[now].st = st
                                         /\ call'[now].dep = call[now].dep
  BY <1>1, SetFacts
<1>3. Fails(now) => /\ at' \in {"pick", "after", "finally"}
                    /\ records' \subseteq [seq : Calls, outcome : {"failed", "hedge_loser",
                                             "delivered"}, dep : Deployments]
  BY <1>1, FailsFacts DEF Typed
<1>4. CASE Delivers \/ Goes \/ Disconnects
  <2>1. CallOK' /\ call'[now].st # "closed" /\ call'[now].dep = dep
    BY <1>1, <1>2, <1>4 DEF Delivers, Goes, Disconnects, States, Over
  <2> QED
    BY <1>1, <1>4, <2>1
       DEF Typed, AttemptsTypeOK, Numbers, Uses, Delivers, Goes, Disconnects, attempt, money,
           client, Racing, Playing, Awaits, CallOK, States
<1>5. CASE Breaks
  BY <1>1, <1>3, <1>5
     DEF Typed, AttemptsTypeOK, Numbers, Uses, Breaks, attempt, client, Racing, Playing, Awaits
<1>6. CASE Finishes
  BY <1>1, <1>6
     DEF Typed, AttemptsTypeOK, Numbers, Uses, Finishes, Record, attempt, client, Racing, Playing,
         Awaits
<1> QED
  BY <1>4, <1>5, <1>6 DEF Stream

LEMMA TypeEnding == Typed /\ Ending => Typed'
<1> SUFFICES ASSUME Typed, Ending PROVE Typed'
  OBVIOUS
<1>1. CASE Stored \/ Billed \/ Written
  BY <1>1
     DEF Typed, AttemptsTypeOK, Numbers, Uses, Stored, Billed, Written, Begins, Ends, Unwritten, attempt,
         money, client, Racing, Playing, Awaits
<1>2. CASE Replays \/ Refunded \/ GivesUp
  BY <1>2
     DEF Typed, AttemptsTypeOK, Numbers, Uses, Replays, Refunded, GivesUp, Begins, Ends, Unwritten, attempt,
         money, client, Racing, Playing, Awaits
<1>3. CASE SaysDone \/ Returns \/ Finally
  BY <1>3
     DEF Typed, AttemptsTypeOK, Numbers, Uses, SaysDone, Returns, Finally, Begins, Ends, Unwritten, attempt,
         money, client, Racing, Playing, Awaits
<1>4. CASE Settles \/ Flushes \/ Closes
  BY <1>4
     DEF Typed, AttemptsTypeOK, Numbers, Uses, Settles, Flushes, Closes, Unwritten, Begins, Ends, Unwritten, attempt,
         money, client, Racing, Playing, Awaits
<1> QED BY <1>1, <1>2, <1>3, <1>4 DEF Ending

LEMMA TypeRest ==
    Typed /\ (Cancelled \/ \E c \in Calls : Gives(c) \/ Stops(c) \/ Collected(c)) => Typed'
<1> SUFFICES ASSUME Typed PROVE Cancelled \/ (\E c \in Calls : Gives(c) \/ Stops(c) \/ Collected(c))
                                => Typed'
  OBVIOUS
<1>1. CallOK
  BY DEF Typed, AttemptsTypeOK, CallOK, States
<1>2. ASSUME Cancelled PROVE Typed'
  <2>1. at = "body" => now \in Calls
    BY DEF Typed, Uses, Playing
  <2>2. CallOK'
    BY <1>1, <1>2, <2>1, SetFacts DEF Cancelled, CallOK, States, Over
  <2> QED
    BY <1>2, <2>2
       DEF Typed, AttemptsTypeOK, Numbers, Uses, Cancelled, attempt, money, Racing, Playing,
           Awaits, CallOK, States
<1>3. ASSUME NEW c \in Calls, Gives(c) \/ Stops(c) \/ Collected(c) PROVE Typed'
  <2>1. PICK st \in States : Set(c, st) /\ (st = "closed" => Collected(c))
    BY <1>3 DEF Gives, Stops, Collected, States, Over, Errors
  <2>2. /\ CallOK' /\ \A k \in Calls : call'[k].dep = call[k].dep
        /\ call'[c].st = st /\ \A k \in Calls : k # c => call'[k].st = call[k].st
    BY <1>1, <2>1, SetFacts
  <2>3. UNCHANGED <<at, attempt, now, priced, money, client>>
    BY <1>3 DEF Gives, Stops, Collected
  <2>4. at \in Racing \cup Playing => st # "closed"
    BY <2>1 DEF Collected, Racing, Playing
  <2> QED
    BY <2>2, <2>3, <2>4
       DEF Typed, AttemptsTypeOK, Numbers, Uses, attempt, money, client, Racing, Playing, CallOK,
           States
<1> QED
  BY <1>2, <1>3

LEMMA TypedStep == Typed /\ [Next]_vars => Typed'
<1> SUFFICES ASSUME Typed, [Next]_vars PROVE Typed'
  OBVIOUS
<1>1. CASE UNCHANGED vars
  BY <1>1 DEF vars, attempt, money, client, Typed, AttemptsTypeOK, Numbers, Uses
<1> QED
  BY <1>1, TypeAttempt, TypeRace, TypeStream, TypeEnding, TypeRest DEF Next, Gateway

(* Every behaviour of a stream is type correct: in particular there are at  *)
(* most two calls an attempt, and at most max_attempts_before_first_byte    *)
(* attempts.                                                                *)
THEOREM AttemptsTypeCorrect == Spec => []AttemptsTypeOK
<1>1. Init => Typed
  BY InitHolds DEF AInv, Typed
<1>2. Typed /\ [Next]_vars => Typed'
  BY TypedStep
<1>3. Typed => AttemptsTypeOK
  BY DEF Typed
<1> QED
  BY <1>1, <1>2, <1>3, PTL DEF Spec

(***************************************************************************)
(* What is open, what was sent, what is recorded                           *)
(***************************************************************************)
LEMMA StreamsStep == Typed /\ Streams /\ [Next]_vars => Streams'
<1> SUFFICES ASSUME Typed, Streams, [Next]_vars PROVE Streams'
  OBVIOUS
<1> USE DEF Racing, Playing, Late
<1>1. CallOK
  BY DEF Typed, AttemptsTypeOK, CallOK, States
<1>2. \A c \in Calls, st \in States : Set(c, st) =>
         /\ Open' \subseteq Open \cup {c}
         /\ st \in Over => Open' = Open \ {c}
  BY <1>1, SetFacts DEF Open, Over, Errors
<1>3. \A c \in Calls, d \in Deployments : Dispatches(c, d) => Open' \subseteq Open \cup {c}
  BY <1>1, DispatchFacts DEF Open
<1>4. UNCHANGED call => Open' = Open
  BY DEF Open
<1>5. ASSUME Attempt PROVE Streams'
  <2>1. at = "pick" /\ seq \in Calls /\ UNCHANGED gone
    BY <1>5, AttemptsAssumption
       DEF Attempt, Refused, Starts, StartsRace, NobodyLeft, Picks, client, Typed,
           AttemptsTypeOK, Calls
  <2>2. ~gone /\ Open = {}
    BY <2>1 DEF Streams, Used
  <2> QED
    BY <1>3, <1>4, <1>5, <2>1, <2>2
       DEF Attempt, Refused, Starts, StartsRace, NobodyLeft, Picks, attempt, client, Streams, Used
<1>6. ASSUME Race PROVE Streams'
  <2>1. at \in Racing /\ UNCHANGED gone /\ ~gone /\ Open \subseteq Used
    BY <1>6 DEF Race, Delay, PrimaryFirst, RaceEnds, client, Streams
  <2>2. CASE Delay
    <3>1. seq \in Calls /\ rival \in Deployments
      BY <2>2, AttemptsAssumption DEF Delay, Typed, AttemptsTypeOK, Numbers, Uses, Calls
    <3>2. Open' \subseteq Open \cup {seq}
      BY <1>3, <2>2, <3>1 DEF Delay
    <3> QED
      BY <2>1, <2>2, <3>2 DEF Delay, Streams, Used
  <2>3. CASE PrimaryFirst
    <3>1. call[prim].st \in Over => prim \notin Open
      BY DEF Open, Over, Errors
    <3>2. Fails(prim) => at' \in {"pick", "after", "finally"}
      BY DEF Fails
    <3> QED
      BY <1>4, <2>1, <2>3, <3>1, <3>2 DEF PrimaryFirst, Streams, Used
  <2>4. ASSUME NEW w, NEW l, <<w, l>> \in {<<prim, hedge>>, <<hedge, prim>>}, RaceEnds(w, l)
        PROVE  Streams'
    <3>1. l \in Calls /\ w \in Calls /\ Open \subseteq {w, l}
      BY <2>1, <2>4 DEF RaceEnds, Typed, Uses, Used
    <3>2. Open' = Open \ {l}
      BY <1>2, <2>4, <3>1 DEF RaceEnds, LoserClosed, States, Over
    <3>3. call[w].st \in Over => w \notin Open
      BY DEF Open, Over, Errors
    <3>4. Fails(w) => at' \in {"pick", "after", "finally"}
      BY DEF Fails
    <3> QED
      BY <2>1, <2>4, <3>1, <3>2, <3>3, <3>4 DEF RaceEnds, Wins, Streams, Used
  <2> QED
    BY <1>6, <2>2, <2>3, <2>4 DEF Race
<1>7. ASSUME Stream PROVE Streams'
  <2>1. at \in Playing /\ now \in Calls /\ ~gone /\ Open \subseteq {now}
    BY <1>7 DEF Stream, Delivers, Goes, Disconnects, Breaks, Finishes, Streams, Used, Typed, Uses
  <2>2. CASE Delivers \/ Goes \/ Disconnects
    BY <1>2, <1>7, <2>1, <2>2
       DEF Delivers, Goes, Disconnects, attempt, client, Streams, Used, States
  <2>3. CASE Breaks \/ Finishes
    <3>1. now \notin Open /\ UNCHANGED <<call, gone>>
      BY <2>3 DEF Breaks, Finishes, Open, Errors, client
    <3> QED
      BY <1>4, <2>1, <3>1 DEF Streams
  <2> QED
    BY <1>7, <2>2, <2>3 DEF Stream
<1>8. ASSUME Ending \/ UNCHANGED vars PROVE Streams'
  BY <1>4, <1>8
     DEF Ending, Stored, Billed, Written, Replays, Refunded, GivesUp, SaysDone, Returns, Finally,
         Settles, Flushes, Closes, Unwritten, attempt, client, vars, Streams, Used
<1>9. ASSUME Cancelled PROVE Streams'
  BY <1>9 DEF Cancelled, Streams, Awaits
<1>10. ASSUME NEW c \in Calls, Gives(c) \/ Stops(c) \/ Collected(c) PROVE Streams'
  <2>1. c \in Open /\ UNCHANGED <<at, gone, now, prim, hedge>>
    BY <1>10 DEF Gives, Stops, Collected, Open, attempt, client
  <2>2. Open' \subseteq Open \cup {c}
    BY <1>2, <1>10 DEF Gives, Stops, Collected, States, Over, Errors
  <2> QED
    BY <2>1, <2>2 DEF Streams, Used
<1> QED
  BY <1>5, <1>6, <1>7, <1>8, <1>9, <1>10 DEF Next, Gateway

LEMMA VoicesStep == Typed /\ Voices /\ [Next]_vars => Voices'
<1> SUFFICES ASSUME Typed, Voices, [Next]_vars PROVE Voices'
  OBVIOUS
<1> USE DEF Racing, Playing, Early, Voices
<1>1. CASE Attempt
  BY <1>1 DEF Attempt, Refused, Starts, StartsRace, NobodyLeft, Picks, attempt, money, client
<1>2. CASE Race
  <2>1. spoke = {} /\ usage = None /\ UNCHANGED <<spoke, usage>>
    BY <1>2 DEF Race, Delay, PrimaryFirst, RaceEnds, money, client
  <2> QED
    BY <2>1
<1>3. CASE Stream
  BY <1>3 DEF Stream, Delivers, Goes, Disconnects, Breaks, Finishes, Fails, Retries, attempt,
              money, client
<1>4. CASE Ending \/ Cancelled \/ UNCHANGED vars
  BY <1>4
     DEF Ending, Stored, Billed, Written, Replays, Refunded, GivesUp, SaysDone, Returns, Finally,
         Settles, Flushes, Closes, Unwritten, Cancelled, Awaits, attempt, money, client, vars
<1>5. CASE \E c \in Calls : Gives(c) \/ Stops(c) \/ Collected(c)
  BY <1>5 DEF Gives, Stops, Collected, money, client
<1> QED
  BY <1>1, <1>2, <1>3, <1>4, <1>5 DEF Next, Gateway

LEMMA BooksStep == Typed /\ Books /\ [Next]_vars => Books'
<1> SUFFICES ASSUME Typed, Books, [Next]_vars PROVE Books'
  OBVIOUS
<1> USE DEF Racing, Playing, Closing, Late, Books
<1>1. seq \in Nat /\ \A r \in records : r.seq \in Nat
  BY AttemptsAssumption DEF Typed, AttemptsTypeOK, Calls
<1>2. CASE Attempt
  BY <1>1, <1>2 DEF Attempt, Refused, Starts, StartsRace, NobodyLeft, Picks, attempt, money
<1>3. CASE Delay
  BY <1>1, <1>3 DEF Delay, money
<1>4. ASSUME NEW c \in Calls, Fails(c), UNCHANGED seq, at \notin Closing \cup Late,
             prim < seq, prim \in Calls
      PROVE  Books'
  <2>1. at' \in {"pick", "after", "finally"}
    BY <1>4 DEF Fails
  <2>2. records' \subseteq records \cup {Record(prim, "failed", dep)}
    BY <1>4 DEF Fails
  <2>3. \A r \in records' : r.seq < seq' /\ r.outcome # "delivered"
    BY <1>4, <2>2 DEF Record
  <2> QED
    BY <2>1, <2>3
<1>5. CASE PrimaryFirst
  BY <1>4, <1>5 DEF PrimaryFirst, Typed, Uses, attempt
<1>6. ASSUME NEW w, NEW l, <<w, l>> \in {<<prim, hedge>>, <<hedge, prim>>}, RaceEnds(w, l)
      PROVE  Books'
  <2>1. /\ w \in Calls /\ l \in Calls /\ w # l /\ w < seq /\ l < seq
        /\ prim \in Calls /\ prim < seq /\ at = "racing"
    BY <1>6 DEF RaceEnds, Typed, Uses
  <2>2. CASE Wins(w, l)
    BY <1>6, <2>1, <2>2 DEF RaceEnds, Wins, Record
  <2>3. CASE Fails(w)
    BY <1>4, <1>6, <2>1, <2>3 DEF RaceEnds
  <2> QED
    BY <1>6, <2>2, <2>3 DEF RaceEnds
<1>7. CASE Delivers \/ Goes \/ Disconnects
  BY <1>7 DEF Delivers, Goes, Disconnects, attempt, money
<1>8. CASE Breaks
  BY <1>4, <1>8 DEF Breaks, Typed, Uses, attempt
<1>9. CASE Finishes
  BY <1>9 DEF Finishes, Typed, Uses, Record, attempt
<1>10. CASE Ending \/ Cancelled \/ UNCHANGED vars
  BY <1>10
     DEF Ending, Stored, Billed, Written, Replays, Refunded, GivesUp, SaysDone, Returns, Finally,
         Settles, Flushes, Closes, Unwritten, Cancelled, Awaits, attempt, money, client, vars
<1>11. CASE \E c \in Calls : Gives(c) \/ Stops(c) \/ Collected(c)
  BY <1>11 DEF Gives, Stops, Collected, attempt, money
<1> QED
  BY <1>2, <1>3, <1>5, <1>6, <1>7, <1>8, <1>9, <1>10, <1>11 DEF Next, Gateway, Race, Stream

LEMMA BilledStep == Typed /\ Voices /\ Books /\ BilledAsSent /\ [Next]_vars => BilledAsSent'
<1> SUFFICES ASSUME Typed, Voices, Books, BilledAsSent, [Next]_vars PROVE BilledAsSent'
  OBVIOUS
<1> USE DEF Racing, Playing, Closing, Late
<1>1. CallOK
  BY DEF Typed, AttemptsTypeOK, CallOK, States
<1>2. ASSUME at \in Closing \cup Late \cup {"after", "refunding"},
             UNCHANGED <<records, spoke, usage, priced>>,
             \A c \in Calls : call'[c].dep = call[c].dep
      PROVE  BilledAsSent'
  BY <1>2 DEF BilledAsSent, Typed, AttemptsTypeOK
<1>3. ASSUME at \notin Closing \cup Late, \A r \in records' \ records : r.outcome # "delivered"
      PROVE  BilledAsSent'
  BY <1>3 DEF BilledAsSent, Books
<1>4. ASSUME Attempt \/ Delay PROVE BilledAsSent'
  BY <1>3, <1>4 DEF Attempt, Refused, Starts, StartsRace, NobodyLeft, Picks, Delay, money
<1>5. \A c : Fails(c) => \A r \in records' \ records : r.outcome # "delivered"
  BY DEF Fails, Record
<1>6. ASSUME PrimaryFirst \/ RaceEnds(prim, hedge) \/ RaceEnds(hedge, prim) PROVE BilledAsSent'
  <2>1. \A w, l : Wins(w, l) => \A r \in records' \ records : r.outcome # "delivered"
    BY DEF Wins, Record
  <2> QED
    BY <1>3, <1>5, <1>6, <2>1 DEF PrimaryFirst, RaceEnds
<1>7. ASSUME Delivers \/ Goes \/ Disconnects \/ Breaks PROVE BilledAsSent'
  BY <1>3, <1>5, <1>7 DEF Delivers, Goes, Disconnects, Breaks, money
<1>8. CASE Finishes
  <2>1. /\ at = "body" /\ now \in Calls /\ dep = call[now].dep /\ priced = dep
        /\ UNCHANGED <<call, priced, usage, spoke>>
    BY <1>8 DEF Finishes, Typed, Uses, client
  <2>2. \A r \in records : r.outcome # "delivered" /\ r.seq # now
    BY <2>1 DEF Books
  <2>3. CASE usage # None
    <3>1. usage = now /\ spoke = {now}
      BY <2>3 DEF Voices
    <3>2. records' = records \cup {Record(now, "delivered", dep)}
      BY <1>8, <2>3 DEF Finishes
    <3> QED
      BY <2>1, <2>2, <3>1, <3>2 DEF BilledAsSent, Record
  <2>4. CASE usage = None
    BY <1>3, <1>8, <2>1, <2>4 DEF Finishes
  <2> QED
    BY <2>3, <2>4
<1>9. ASSUME Ending PROVE BilledAsSent'
  BY <1>2, <1>9
     DEF Ending, Stored, Billed, Written, Replays, Refunded, GivesUp, SaysDone, Returns, Finally,
         Settles, Flushes, Closes, Unwritten, money, client, Awaits
<1>10. ASSUME Cancelled PROVE BilledAsSent'
  <2>1. at = "body" => now \in Calls
    BY DEF Typed, Uses
  <2>2. \A c \in Calls : call'[c].dep = call[c].dep
    BY <1>1, <1>10, <2>1, SetFacts DEF Cancelled, States, Over
  <2> QED
    BY <1>2, <1>3, <1>10, <2>2 DEF Cancelled, money, client
<1>11. ASSUME NEW c \in Calls, Gives(c) \/ Stops(c) \/ Collected(c) PROVE BilledAsSent'
  <2>1. \A k \in Calls : call'[k].dep = call[k].dep
    BY <1>1, <1>11, SetFacts DEF Gives, Stops, Collected, States, Over, Errors
  <2> QED
    BY <1>11, <2>1 DEF Gives, Stops, Collected, money, client, BilledAsSent, Typed, AttemptsTypeOK
<1>12. ASSUME UNCHANGED vars PROVE BilledAsSent'
  BY <1>12 DEF vars, money, client, BilledAsSent
<1> QED
  BY <1>4, <1>6, <1>7, <1>8, <1>9, <1>10, <1>11, <1>12 DEF Next, Gateway, Race, Stream

LEMMA WholeStep == Typed /\ Voices /\ Whole /\ [Next]_vars => Whole'
<1> SUFFICES ASSUME Typed, Voices, Whole, [Next]_vars PROVE Whole'
  OBVIOUS
<1> USE DEF Racing, Playing, Late, Whole
<1>1. CallOK
  BY DEF Typed, AttemptsTypeOK, CallOK, States
<1>2. CASE Attempt \/ Delay
  BY <1>2 DEF Attempt, Refused, Starts, StartsRace, NobodyLeft, Picks, Delay
<1>3. ASSUME NEW c \in Calls, Fails(c), call[c].st \in Over \ {"closed"},
             call'[c].st = call[c].st, UNCHANGED spoke,
             call[c].st = "ended" => Hedging /\ spoke = {}
      PROVE  Whole'
  BY <1>3 DEF Fails, Broken, Over, Errors
<1>4. CASE PrimaryFirst
  BY <1>3, <1>4 DEF PrimaryFirst, Typed, Uses, Voices, Early, client
<1>5. ASSUME NEW w, NEW l, <<w, l>> \in {<<prim, hedge>>, <<hedge, prim>>}, RaceEnds(w, l)
      PROVE  Whole'
  <2>1. /\ w \in Calls /\ l \in Calls /\ w # l /\ call[w].st # "closed"
        /\ Hedging /\ spoke = {} /\ UNCHANGED spoke
    BY <1>5 DEF RaceEnds, Typed, Uses, Voices, Early, client
  <2>2. call'[w].st = call[w].st
    BY <1>1, <1>5, <2>1, SetFacts DEF RaceEnds, LoserClosed, States, Over
  <2> QED
    BY <1>3, <1>5, <2>1, <2>2 DEF RaceEnds, Wins
<1>6. CASE Delivers \/ Goes \/ Disconnects \/ Finishes
  BY <1>6 DEF Delivers, Goes, Disconnects, Finishes
<1>7. CASE Breaks
  BY <1>3, <1>7 DEF Breaks, Typed, Uses, Over, client, Errors
<1>8. CASE Ending
  BY <1>8
     DEF Ending, Stored, Billed, Written, Replays, Refunded, GivesUp, SaysDone, Returns, Finally,
         Settles, Flushes, Closes, Unwritten, attempt, money, client, Broken, Typed, Uses
<1>9. CASE Cancelled
  BY <1>9 DEF Cancelled
<1>10. ASSUME NEW c \in Calls, Gives(c) \/ Stops(c) \/ Collected(c) PROVE Whole'
  <2>1. \A k \in Calls : call[k].st \in {"crashed", "ended"} => call'[k].st = call[k].st
    BY <1>1, <1>10, SetFacts DEF Gives, Stops, Collected, States, Over, Errors
  <2> QED
    BY <1>10, <2>1 DEF Gives, Stops, Collected, client, Broken
<1>11. CASE UNCHANGED vars
  BY <1>11 DEF vars, client, Broken
<1> QED
  BY <1>2, <1>4, <1>5, <1>6, <1>7, <1>8, <1>9, <1>10, <1>11 DEF Next, Gateway, Race, Stream

(***************************************************************************)
(* The theorems                                                            *)
(***************************************************************************)
LEMMA AInvHolds == Spec => []AInv
<1>1. AInv /\ [Next]_vars => AInv'
  BY TypedStep, StreamsStep, VoicesStep, BooksStep, BilledStep, WholeStep DEF AInv, Typed
<1> QED
  BY <1>1, InitHolds, PTL DEF Spec

(* The body of a stream has the data of one upstream call at most, and ends *)
(* with [DONE] unless it is broken off by what is no GatewayError.          *)
THEOREM OneVoice == Spec => []BodyWhole
<1>1. AInv => BodyWhole
  <2> SUFFICES ASSUME AInv PROVE BodyWhole
    OBVIOUS
  <2>1. Cardinality(spoke) <= 1
    <3>1. spoke \subseteq {now} /\ IsFiniteSet({now}) /\ Cardinality({now}) = 1
      BY FS_Singleton DEF AInv, Voices
    <3> QED
      BY <3>1, FS_Subset
  <2> QED
    BY <2>1 DEF AInv, Whole, Broken, Late, BodyWhole
<1> QED
  BY <1>1, AInvHolds, PTL

(* The record of the delivered attempt, the usage and the settlement name   *)
(* the call whose data was sent, and the record is alone with its number.   *)
THEOREM BilledIsSent == Spec => []BilledAsSent
<1>1. AInv => BilledAsSent
  BY DEF AInv
<1> QED
  BY <1>1, AInvHolds, PTL

(* For a client that is there at most one upstream stream is open, but      *)
(* during a race.                                                           *)
THEOREM OneUpstream == Spec => []OneOpen
<1>1. AInv => OneOpen
  <2> SUFFICES ASSUME AInv, ~gone, at # "racing" PROVE Cardinality(Open) <= 1
    BY DEF OneOpen
  <2>1. PICK x : Open \subseteq {x}
    BY DEF AInv, Streams, Used, Playing
  <2>2. IsFiniteSet({x}) /\ Cardinality({x}) = 1
    BY FS_Singleton
  <2> QED
    BY <2>1, <2>2, FS_Subset
<1> QED
  BY <1>1, AInvHolds, PTL

(***************************************************************************)
(* The money                                                               *)
(***************************************************************************)
Delivered == \E r \in records : r.outcome = "delivered"

Unsettled == Early \cup Playing \cup {"storing", "after"}
Settling == {"billing", "refunding", "settling"}

MoneyInv ==
    /\ at \in Unsettled => quota = "held"
    /\ at \in Settling => quota = "begun"
    /\ at \in {"writing", "flushing", "over"} => quota # "held"
    /\ quota = "begun" /\ ~cut => at \in Settling
    /\ at \in {"storing", "billing", "writing", "flushing"} => usage # None
    /\ at = "over" /\ ~cut => (usage # None => wrote)
    /\ quota = "refunded" \/ at = "refunding" => ~Delivered
    /\ wrote => usage # None /\ quota # "held"

LEMMA MoneyInit == Init => MoneyInv
BY DEF Init, MoneyInv, Early, Racing, Playing, Unsettled, Settling, Delivered

LEMMA MoneyStep == Typed /\ Voices /\ Books /\ MoneyInv /\ [Next]_vars => MoneyInv'
<1> SUFFICES ASSUME Typed, Voices, Books, MoneyInv, [Next]_vars PROVE MoneyInv'
  OBVIOUS
<1> USE DEF Racing, Playing, Early, Unsettled, Settling, MoneyInv
<1>1. at \in Unsettled => ~Delivered \/ at = "storing"
  BY DEF Books, Delivered, Closing, Late
(* Before the settlement: the quota is held, and nothing is written. *)
<1>2. ASSUME at \in Unsettled, quota' = "held", UNCHANGED wrote,
             at' \in Unsettled \cup {"done", "finally", "left"},
             at' = "storing" => usage' # None
      PROVE  MoneyInv'
  BY <1>2
<1>3. CASE Attempt \/ Delay
  BY <1>2, <1>3
     DEF Attempt, Refused, Starts, StartsRace, NobodyLeft, Picks, Delay, attempt, money
<1>4. \A c : Fails(c) => at' \in {"pick", "after", "finally"}
  BY DEF Fails
<1>5. CASE PrimaryFirst \/ RaceEnds(prim, hedge) \/ RaceEnds(hedge, prim)
  BY <1>2, <1>4, <1>5 DEF PrimaryFirst, RaceEnds, Wins
<1>6. CASE Stream
  BY <1>2, <1>4, <1>6 DEF Stream, Delivers, Goes, Disconnects, Breaks, Finishes, money
<1>7. CASE Stored \/ Billed \/ Written \/ Replays \/ Refunded \/ GivesUp
  <2>1. UNCHANGED <<records, usage, cut>>
    BY <1>7 DEF Stored, Billed, Written, Replays, Refunded, GivesUp, money, client
  <2>2. Delivered' = Delivered
    BY <2>1 DEF Delivered
  <2>3. QED
    BY <1>1, <1>7, <2>1, <2>2 DEF Stored, Billed, Written, Replays, Refunded, GivesUp, Begins, Ends, money
<1>8. CASE SaysDone \/ Returns \/ Finally \/ Settles \/ Flushes \/ Closes
  <2>1. UNCHANGED <<records, usage, cut>>
    BY <1>8 DEF SaysDone, Returns, Finally, Settles, Flushes, Closes, money, client
  <2>2. Delivered' = Delivered
    BY <2>1 DEF Delivered
  <2>3. CASE SaysDone \/ Returns \/ Closes
    BY <2>1, <2>2, <2>3 DEF SaysDone, Returns, Closes, money
  <2>4. CASE Finally \/ Settles \/ Flushes
    BY <2>1, <2>2, <2>4 DEF Finally, Settles, Flushes, Begins, Ends, Unwritten
  <2>5. QED
    BY <1>8, <2>3, <2>4
<1>9. CASE Cancelled
  BY <1>9 DEF Cancelled, Awaits, money, Delivered
<1>10. CASE (\E c \in Calls : Gives(c) \/ Stops(c) \/ Collected(c)) \/ UNCHANGED vars
  BY <1>10 DEF Gives, Stops, Collected, attempt, money, client, vars, Delivered
<1> QED
  BY <1>3, <1>5, <1>6, <1>7, <1>8, <1>9, <1>10 DEF Next, Gateway, Race, Ending

(* Every stream that ends has begun its settlement.  Unless its task was    *)
(* cancelled, it has finished it, by a settlement or a refund but never a   *)
(* refund of what was delivered, and the usage, if any, is in the ledger;   *)
(* nothing without usage goes there, and nothing that was not settled.      *)
MoneyAccounted ==
    /\ at = "over" =>
        /\ quota # "held"
        /\ ~cut => quota \in {"settled", "refunded"} /\ (usage # None => wrote)
    /\ quota = "refunded" => ~Delivered
    /\ wrote => usage # None /\ quota # "held"

(* So it is for every stream, however it ends (settle_once in routes.py). *)
THEOREM MoneyIsAccounted == Spec => []MoneyAccounted
<1>1. AInv /\ MoneyInv /\ [Next]_vars => MoneyInv'
  BY MoneyStep DEF AInv, Typed
<1>2. AInv /\ MoneyInv => MoneyAccounted
  BY DEF AInv, AttemptsTypeOK, MoneyInv, Settling, MoneyAccounted
<1> QED
  BY <1>1, <1>2, AInvHolds, MoneyInit, PTL DEF Spec
=============================================================================
