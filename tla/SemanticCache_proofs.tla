------------------------- MODULE SemanticCache_proofs -------------------------
(***************************************************************************)
(* Theorems about SemanticCache, for any requests, keys, ranks, thresholds *)
(* and capacities: what is served fits the request, what was deleted stays *)
(* down, the recall and the memory keep their bounds, and feedback reaches *)
(* only entries of the request's tenant.                                   *)
(***************************************************************************)
EXTENDS SemanticCache, FiniteSetTheorems, SequenceTheorems, TLAPS

(***************************************************************************)
(* The inductive invariant                                                 *)
(***************************************************************************)
Fine == {"storing", "indexing", "done"}

Before == {"new", "looking", "searching", "reading", "dropping", "marking", "hit", "upstream",
           "failed"}

CacheTyped ==
    /\ pc \in [Requests -> Fine \cup Before] /\ good \in [Requests -> BOOLEAN]
    /\ stale \in [Requests -> BOOLEAN]
    /\ cand \in [Requests -> SUBSET Requests]
    /\ usable \in [Requests -> SUBSET (Requests \X Requests)]
    /\ picked \in [Requests -> Requests \cup {None}]
    /\ via \in [Requests -> Requests \cup {None}]
    /\ served \in [Requests -> Requests \cup {None}]
    /\ l1 \in [Keys -> Requests \cup {None}]

(* An answer that may be in the cache: its request has stored it or is      *)
(* about to, and its verdict does not change any more.                      *)
Answered(a) == good[a] /\ pc[a] \in Fine

L1Fits == \A k \in Keys : l1[k] # None => Answered(l1[k]) /\ KeyOf[l1[k]] = k

Fits(r, a) ==
    /\ Answered(a)
    /\ \/ KeyOf[a] = KeyOf[r]
       \/ \E e \in {via[r], picked[r]} \ {None} :
             /\ KeyOf[a] = KeyOf[e]
             /\ Scope[KeyOf[e]] = Scope[KeyOf[r]]
             /\ Score(r, e) >= Bar(r)

(* What a request has read is of its tenant and prompt version, and answers *)
(* the entry it came through; nothing is served before a lookup succeeds or *)
(* the upstream answers.                                                    *)
Sound(r) ==
    /\ pc[r] = "storing" => good[r]
    /\ \A e \in cand[r] : Scope[KeyOf[e]] = Scope[KeyOf[r]]
    /\ \A e, a \in Requests :
          <<e, a>> \in usable[r] =>
              /\ Scope[KeyOf[e]] = Scope[KeyOf[r]]
              /\ KeyOf[a] = KeyOf[e] /\ Answered(a)
    /\ pc[r] \notin Fine \cup {"marking", "hit"} => served[r] = None
    /\ pc[r] \notin {"hit", "done"} => via[r] = None
    /\ served[r] \notin {r, None} => Fits(r, served[r])

CInv == CacheTyped /\ L1Fits /\ \A r \in Requests : Sound(r)

LEMMA InitHolds == Init => CInv
<1> SUFFICES ASSUME Init PROVE CInv
  OBVIOUS
<1>1. \A S \in SUBSET Requests : LastOf(S) = None \/ LastOf(S) \in S
  BY DEF LastOf
<1>2. \A k \in Keys : l1[k] = None \/ (l1[k] \in Earlier /\ KeyOf[l1[k]] = k)
  <2> SUFFICES ASSUME NEW k \in Keys PROVE l1[k] = None \/ (l1[k] \in Earlier /\ KeyOf[l1[k]] = k)
    OBVIOUS
  <2>1. {r \in Earlier : KeyOf[r] = k} \in SUBSET Requests
    BY CacheAssumption
  <2>2. l1[k] = LastOf({r \in Earlier : KeyOf[r] = k})
    BY DEF Init
  <2>3. QED
    BY <1>1, <2>1, <2>2
<1>3. CacheTyped
  <2>1. l1 \in [Keys -> Requests \cup {None}]
    BY <1>2, CacheAssumption DEF Init
  <2>2. QED
    BY <2>1, CacheAssumption DEF Init, CacheTyped, Fine, Before
<1>4. L1Fits
  BY <1>2, CacheAssumption DEF Init, L1Fits, Answered, Fine
<1>5. \A r \in Requests : Sound(r)
  BY DEF Init, Sound, Fine
<1>6. QED
  BY <1>3, <1>4, <1>5 DEF CInv

(***************************************************************************)
(* Steps                                                                   *)
(***************************************************************************)
(* What a step of r leaves alone. *)
Same(q) ==
    /\ pc'[q] = pc[q] /\ stale'[q] = stale[q] /\ good'[q] = good[q]
    /\ cand'[q] = cand[q] /\ usable'[q] = usable[q] /\ picked'[q] = picked[q]
    /\ served'[q] = served[q] /\ via'[q] = via[q]

Stable == \A a \in Requests : Answered(a) => Answered(a)'

LEMMA SameSound ==
    ASSUME CInv, NEW q \in Requests, Same(q), Stable
    PROVE  Sound(q)'
<1>1. Sound(q) /\ served[q] \in Requests \cup {None}
  BY DEF CInv, CacheTyped
<1>2. served'[q] \notin {q, None} => Fits(q, served[q])'
  <2> SUFFICES ASSUME served[q] \notin {q, None} PROVE Fits(q, served[q])'
    BY DEF Same
  <2>1. Fits(q, served[q]) /\ served[q] \in Requests
    BY <1>1 DEF Sound
  <2>2. Answered(served[q])'
    BY <2>1 DEF Fits, Same, Stable
  <2>3. QED
    BY <2>1, <2>2 DEF Fits, Same, Score, Bar, Answered
<1>3. QED
  BY <1>1, <1>2 DEF Sound, Same, Stable

LEMMA L1Stays == ASSUME CInv, Stable, UNCHANGED l1 PROVE L1Fits'
<1> SUFFICES ASSUME NEW k \in Keys, l1[k] # None
             PROVE  Answered(l1[k])' /\ KeyOf[l1[k]] = k
  BY DEF L1Fits, Answered
<1>1. l1[k] \in Requests /\ Answered(l1[k]) /\ KeyOf[l1[k]] = k
  BY DEF CInv, CacheTyped, L1Fits
<1>2. QED
  BY <1>1 DEF Stable, Answered

LEMMA StepOf ==
    ASSUME CInv, NEW r \in Requests, CacheTyped', Stable, L1Fits',
           \A q \in Requests \ {r} : Same(q), Sound(r)'
    PROVE  CInv'
<1>1. \A q \in Requests : Sound(q)'
  <2> SUFFICES ASSUME NEW q \in Requests, q # r PROVE Sound(q)'
    OBVIOUS
  <2>1. QED
    BY SameSound
<1>2. QED
  BY <1>1 DEF CInv

LEMMA ArriveKeeps == ASSUME CInv, NEW r \in Requests, Arrive(r) PROVE CInv'
<1>1. CacheTyped'
  BY DEF Arrive, Goto, CInv, CacheTyped, Fine, Before
<1>2. Stable
  BY DEF Arrive, Goto, Stable, Answered, CInv, CacheTyped, Fine
<1>3. \A q \in Requests \ {r} : Same(q)
  BY DEF Arrive, Goto, Same, CInv, CacheTyped
<1>4. L1Fits'
  BY <1>2, L1Stays DEF Arrive
<1>5. Sound(r)'
  BY <1>2 DEF Arrive, Goto, CInv, CacheTyped, Sound, Fits, Score, Bar, Fine, Stable, Answered
<1>6. QED
  BY <1>1, <1>2, <1>3, <1>4, <1>5, StepOf

LEMMA L1GetKeeps == ASSUME CInv, NEW r \in Requests, L1Get(r) PROVE CInv'
<1>1. CacheTyped'
  BY CacheAssumption DEF L1Get, Goto, Miss, CInv, CacheTyped, Fine, Before
<1>2. Stable
  BY DEF L1Get, Goto, Miss, Stable, Answered, CInv, CacheTyped, Fine
<1>3. \A q \in Requests \ {r} : Same(q)
  BY DEF L1Get, Goto, Miss, Same, CInv, CacheTyped
<1>4. L1Fits'
  BY <1>2, L1Stays DEF L1Get
<1>5. Sound(r)'
  <2>1. CASE l1[KeyOf[r]] # None
    <3>0. PICK a \in Requests : a = l1[KeyOf[r]]
      BY <2>1, CacheAssumption DEF CInv, CacheTyped
    <3>1. KeyOf[a] = KeyOf[r] /\ Answered(a)'
      BY <1>2, <2>1, <3>0, CacheAssumption DEF CInv, L1Fits, Stable
    <3>2. pc'[r] = "done" /\ served'[r] = a
      BY <2>1, <3>0 DEF L1Get, Goto, CInv, CacheTyped
    <3>3. UNCHANGED <<cand, usable>>
      BY DEF L1Get
    <3>4. Fits(r, a)'
      BY <3>1 DEF Fits
    <3>5. Fits(r, served[r])'
      BY <3>2, <3>4
    <3>6. QED
      BY <1>2, <3>2, <3>3, <3>5 DEF CInv, Sound, Fine, Stable
  <2>2. CASE l1[KeyOf[r]] = None
    <3>1. pc[r] = "looking" /\ pc'[r] \in {"searching", "upstream", "failed"}
      BY <2>2 DEF L1Get, Goto, Miss, CInv, CacheTyped
    <3>2. QED
      BY <1>2, <2>2, <3>1 DEF L1Get, CInv, CacheTyped, Sound, Fine, Stable
  <2>3. QED
    BY <2>1, <2>2
<1>6. QED
  BY <1>1, <1>2, <1>3, <1>4, <1>5, StepOf

LEMMA LookupGivesUpKeeps == ASSUME CInv, NEW r \in Requests, LookupGivesUp(r) PROVE CInv'
<1>1. CacheTyped'
  BY DEF LookupGivesUp, Goto, Miss, CInv, CacheTyped, Fine, Before
<1>2. Stable
  BY DEF LookupGivesUp, Goto, Miss, Stable, Answered, CInv, CacheTyped, Fine
<1>3. \A q \in Requests \ {r} : Same(q)
  BY DEF LookupGivesUp, Goto, Miss, Same, CInv, CacheTyped
<1>4. L1Fits'
  BY <1>2, L1Stays DEF LookupGivesUp
<1>5. Sound(r)'
  BY <1>2 DEF LookupGivesUp, Goto, Miss, CInv, CacheTyped, Sound, Fits, Score, Bar, Fine, Stable, Answered
<1>6. QED
  BY <1>1, <1>2, <1>3, <1>4, <1>5, StepOf

LEMMA SearchKeeps == ASSUME CInv, NEW r \in Requests, Search(r) PROVE CInv'
<1>1. CacheTyped'
  <2>1. PICK S \in SUBSET Requests : cand' = [cand EXCEPT ![r] = S]
    BY DEF Search, Near
  <2>2. QED
    BY <2>1 DEF Search, Goto, CInv, CacheTyped, Fine, Before
<1>2. Stable
  BY DEF Search, Goto, Stable, Answered, CInv, CacheTyped, Fine
<1>3. \A q \in Requests \ {r} : Same(q)
  BY DEF Search, Goto, Same, CInv, CacheTyped
<1>4. L1Fits'
  BY <1>2, L1Stays DEF Search
<1>5. Sound(r)'
  BY <1>2 DEF Search, Goto, CInv, CacheTyped, Sound, Fits, Score, Bar, Fine, Stable, Answered
<1>6. QED
  BY <1>1, <1>2, <1>3, <1>4, <1>5, StepOf

LEMMA ReadKeeps == ASSUME CInv, NEW r \in Requests, NEW e \in Requests, Read(r, e) PROVE CInv'
<1>1. CacheTyped'
  <2>1. KeyOf[e] \in Keys /\ l1[KeyOf[e]] \in Requests \cup {None}
    BY CacheAssumption DEF CInv, CacheTyped
  <2>2. QED
    BY <2>1 DEF Read, Goto, CInv, CacheTyped, Fine, Before
<1>2. Stable
  BY DEF Read, Goto, Stable, Answered, CInv, CacheTyped, Fine
<1>3. \A q \in Requests \ {r} : Same(q)
  BY DEF Read, Goto, Same, CInv, CacheTyped
<1>4. L1Fits'
  BY <1>2, L1Stays DEF Read
<1>5. Sound(r)'
  <2>1. pc[r] = "reading" /\ pc'[r] \in {"reading", "dropping"} /\ UNCHANGED <<served, via>>
    BY DEF Read, Goto, CInv, CacheTyped
  <2>2. cand'[r] \subseteq cand[r]
    BY DEF Read, CInv, CacheTyped
  <2>3. ASSUME NEW f \in Requests, NEW a \in Requests, <<f, a>> \in usable'[r]
        PROVE  Scope[KeyOf[f]] = Scope[KeyOf[r]] /\ KeyOf[a] = KeyOf[f] /\ Answered(a)
    <3>1. CASE <<f, a>> \in usable[r]
      BY <3>1 DEF CInv, Sound
    <3>2. CASE f = e /\ a = l1[KeyOf[e]] /\ l1[KeyOf[e]] # None /\ e \in cand[r]
      BY <3>2, CacheAssumption DEF CInv, CacheTyped, L1Fits, Sound
    <3>3. QED
      BY <2>3, <3>1, <3>2 DEF Read, CInv, CacheTyped
  <2>4. \A a \in Requests : Answered(a) => Answered(a)'
    BY <1>2 DEF Stable
  <2>5. QED
    BY <2>1, <2>2, <2>3, <2>4 DEF CInv, Sound, Fine
<1>6. QED
  BY <1>1, <1>2, <1>3, <1>4, <1>5, StepOf

LEMMA DropKeeps == ASSUME CInv, NEW r \in Requests, Drop(r) PROVE CInv'
<1>1. CacheTyped'
  BY DEF Drop, Goto, CInv, CacheTyped, Fine, Before
<1>2. Stable
  BY DEF Drop, Goto, Stable, Answered, CInv, CacheTyped, Fine
<1>3. \A q \in Requests \ {r} : Same(q)
  BY DEF Drop, Goto, Same, CInv, CacheTyped
<1>4. L1Fits'
  BY <1>2, L1Stays DEF Drop
<1>5. Sound(r)'
  BY <1>2 DEF Drop, Goto, CInv, CacheTyped, Sound, Fits, Score, Bar, Fine, Stable, Answered
<1>6. QED
  BY <1>1, <1>2, <1>3, <1>4, <1>5, StepOf

LEMMA RerankKeeps == ASSUME CInv, NEW r \in Requests, Rerank(r) PROVE CInv'
<1>1. CacheTyped'
  BY DEF Rerank, Goto, Miss, CInv, CacheTyped, Fine, Before
<1>2. Stable
  BY DEF Rerank, Goto, Miss, Stable, Answered, CInv, CacheTyped, Fine
<1>3. \A q \in Requests \ {r} : Same(q)
  BY DEF Rerank, Goto, Miss, Same, CInv, CacheTyped
<1>4. L1Fits'
  BY <1>2, L1Stays DEF Rerank
<1>5. Sound(r)'
  <2>1. pc[r] = "reading" /\ served[r] = None /\ cand'[r] = cand[r] /\ usable'[r] = {}
        /\ stale' = stale /\ via' = via
    BY DEF Rerank, CInv, CacheTyped, Sound, Fine
  <2>2. CASE pc'[r] \in {"upstream", "failed"} /\ UNCHANGED served
    BY <2>1, <2>2 DEF CInv, Sound, Fine
  <2>3. ASSUME NEW u \in usable[r], Score(r, u[1]) >= Bar(r),
               picked' = [picked EXCEPT ![r] = u[1]], served' = [served EXCEPT ![r] = u[2]],
               pc' = [pc EXCEPT ![r] = "marking"]
        PROVE  Sound(r)'
    <3>1. u[1] \in Requests /\ u[2] \in Requests /\ u = <<u[1], u[2]>>
      BY DEF CInv, CacheTyped
    <3>2. Scope[KeyOf[u[1]]] = Scope[KeyOf[r]] /\ KeyOf[u[2]] = KeyOf[u[1]] /\ Answered(u[2])
      BY <3>1 DEF CInv, Sound
    <3>3. picked'[r] = u[1] /\ served'[r] = u[2] /\ pc'[r] = "marking" /\ u[1] # None
      BY <2>3, <3>1, CacheAssumption DEF CInv, CacheTyped
    <3>4. Score(r, u[1])' >= Bar(r)'
      BY <2>1, <2>3 DEF Score, Bar
    <3>5. Fits(r, u[2])'
      BY <1>2, <3>1, <3>2, <3>3, <3>4 DEF Fits, Stable, Score
    <3>6. QED
      BY <2>1, <3>2, <3>3, <3>5 DEF Sound, Fine, CInv
  <2>4. CASE Miss(r) /\ UNCHANGED <<picked, served>>
    BY <2>2, <2>4 DEF Miss, Goto, CInv, CacheTyped
  <2>5. QED
    BY <2>3, <2>4 DEF Rerank, Goto
<1>6. QED
  BY <1>1, <1>2, <1>3, <1>4, <1>5, StepOf

LEMMA MarkKeeps == ASSUME CInv, NEW r \in Requests, Mark(r) PROVE CInv'
<1>1. CacheTyped'
  BY DEF Mark, Goto, CInv, CacheTyped, Fine, Before
<1>2. Stable
  BY DEF Mark, Goto, Stable, Answered, CInv, CacheTyped, Fine
<1>3. \A q \in Requests \ {r} : Same(q)
  BY DEF Mark, Goto, Same, CInv, CacheTyped
<1>4. L1Fits'
  BY <1>2, L1Stays DEF Mark
<1>5. Sound(r)'
  <2>1. /\ pc[r] = "marking" /\ pc'[r] = "hit" /\ via'[r] = picked[r] /\ via[r] = None
        /\ UNCHANGED <<stale, cand, usable, served>>
    BY DEF Mark, Goto, CInv, CacheTyped, Sound
  <2>2. Sound(r) /\ served[r] \in Requests \cup {None}
    BY DEF CInv, CacheTyped
  <2>3. served[r] \notin {r, None} => Fits(r, served[r])'
    <3> SUFFICES ASSUME served[r] \notin {r, None} PROVE Fits(r, served[r])'
      OBVIOUS
    <3>0. PICK a \in Requests : a = served[r]
      BY <2>2
    <3>1. Fits(r, a)
      BY <2>2, <3>0 DEF Sound
    <3>2. served'[r] = a
      BY <2>1, <3>0
    <3>3. Answered(a)'
      BY <1>2, <3>1 DEF Fits, Stable
    <3>4. Fits(r, a)'
      BY <2>1, <3>1, <3>3 DEF Fits, Score, Bar
    <3>5. QED
      BY <3>2, <3>4
  <2>4. QED
    BY <1>2, <2>1, <2>2, <2>3 DEF Sound, Fine, Stable
<1>6. QED
  BY <1>1, <1>2, <1>3, <1>4, <1>5, StepOf

LEMMA MarkFailsKeeps == ASSUME CInv, NEW r \in Requests, MarkFails(r) PROVE CInv'
<1>1. CacheTyped'
  BY DEF MarkFails, Goto, Miss, CInv, CacheTyped, Fine, Before
<1>2. Stable
  BY DEF MarkFails, Goto, Miss, Stable, Answered, CInv, CacheTyped, Fine
<1>3. \A q \in Requests \ {r} : Same(q)
  BY DEF MarkFails, Goto, Miss, Same, CInv, CacheTyped
<1>4. L1Fits'
  BY <1>2, L1Stays DEF MarkFails
<1>5. Sound(r)'
  BY <1>2 DEF MarkFails, Goto, Miss, CInv, CacheTyped, Sound, Fits, Score, Bar, Fine, Stable, Answered
<1>6. QED
  BY <1>1, <1>2, <1>3, <1>4, <1>5, StepOf

LEMMA RememberKeeps == ASSUME CInv, NEW r \in Requests, Remember(r) PROVE CInv'
<1>1. CacheTyped'
  BY DEF Remember, Goto, CInv, CacheTyped, Fine, Before
<1>2. Stable
  BY DEF Remember, Goto, Stable, Answered, CInv, CacheTyped, Fine
<1>3. \A q \in Requests \ {r} : Same(q)
  BY DEF Remember, Goto, Same, CInv, CacheTyped
<1>4. L1Fits'
  BY <1>2, L1Stays DEF Remember
<1>5. Sound(r)'
  <2>1. pc[r] = "hit" /\ pc'[r] = "done"
    BY DEF Remember, Goto, CInv, CacheTyped
  <2>2. UNCHANGED <<stale, cand, usable, picked, served, via, good>>
    BY DEF Remember
  <2>3. Sound(r) /\ served[r] \in Requests \cup {None}
    BY DEF CInv, CacheTyped
  <2>4. \A a \in Requests : Fits(r, a) => Fits(r, a)'
    BY <1>2, <2>2 DEF Fits, Score, Bar, Stable
  <2>5. \A e, a \in Requests : Answered(a) => Answered(a)'
    BY <1>2 DEF Stable
  <2> QED
    BY <2>1, <2>2, <2>3, <2>4, <2>5 DEF Sound, Fine
<1>6. QED
  BY <1>1, <1>2, <1>3, <1>4, <1>5, StepOf

LEMMA AnswerKeeps == ASSUME CInv, NEW r \in Requests, Answer(r) PROVE CInv'
<1>1. CacheTyped'
  BY DEF Answer, Goto, CInv, CacheTyped, Fine, Before
<1>2. Stable
  BY DEF Answer, Goto, Stable, Answered, CInv, CacheTyped, Fine
<1>3. \A q \in Requests \ {r} : Same(q)
  BY DEF Answer, Goto, Same, CInv, CacheTyped
<1>4. L1Fits'
  BY <1>2, L1Stays DEF Answer
<1>5. Sound(r)'
  BY <1>2 DEF Answer, Goto, CInv, CacheTyped, Sound, Fits, Score, Bar, Fine, Stable, Answered
<1>6. QED
  BY <1>1, <1>2, <1>3, <1>4, <1>5, StepOf

LEMMA UpstreamFailsKeeps == ASSUME CInv, NEW r \in Requests, UpstreamFails(r) PROVE CInv'
<1>1. CacheTyped'
  BY DEF UpstreamFails, Goto, CInv, CacheTyped, Fine, Before
<1>2. Stable
  BY DEF UpstreamFails, Goto, Stable, Answered, CInv, CacheTyped, Fine
<1>3. \A q \in Requests \ {r} : Same(q)
  BY DEF UpstreamFails, Goto, Same, CInv, CacheTyped
<1>4. L1Fits'
  BY <1>2, L1Stays DEF UpstreamFails
<1>5. Sound(r)'
  BY <1>2 DEF UpstreamFails, Goto, CInv, CacheTyped, Sound, Fits, Score, Bar, Fine, Stable, Answered
<1>6. QED
  BY <1>1, <1>2, <1>3, <1>4, <1>5, StepOf

LEMMA L1SetKeeps == ASSUME CInv, NEW r \in Requests, L1Set(r) PROVE CInv'
<1>1. CacheTyped'
  BY DEF L1Set, Goto, CInv, CacheTyped, Fine, Before
<1>2. Stable
  BY DEF L1Set, Goto, Stable, Answered, CInv, CacheTyped, Fine
<1>3. \A q \in Requests \ {r} : Same(q)
  BY DEF L1Set, Goto, Same, CInv, CacheTyped
<1>4. L1Fits'
  BY <1>2 DEF L1Set, CInv, CacheTyped, L1Fits, Answered, Sound, Fine, Goto
<1>5. Sound(r)'
  <2>1. /\ pc[r] = "storing" /\ pc'[r] \in {"indexing", "done"}
        /\ UNCHANGED <<stale, cand, usable, picked, served, via, good>>
    BY DEF L1Set, Goto, CInv, CacheTyped
  <2>2. Sound(r) /\ served[r] \in Requests \cup {None}
    BY DEF CInv, CacheTyped
  <2>3. served[r] \notin {r, None} => Fits(r, served[r])'
    <3> SUFFICES ASSUME served[r] \notin {r, None} PROVE Fits(r, served[r])'
      OBVIOUS
    <3>0. PICK a \in Requests : a = served[r]
      BY <2>2
    <3>1. Fits(r, a)
      BY <2>2, <3>0 DEF Sound
    <3>2. served'[r] = a
      BY <2>1, <3>0
    <3>3. Answered(a)'
      BY <1>2, <3>1 DEF Fits, Stable
    <3>4. Fits(r, a)'
      BY <2>1, <3>1, <3>3 DEF Fits, Score, Bar
    <3>5. QED
      BY <3>2, <3>4
  <2>4. QED
    BY <1>2, <2>1, <2>2, <2>3 DEF Sound, Fine, Stable
<1>6. QED
  BY <1>1, <1>2, <1>3, <1>4, <1>5, StepOf

LEMMA StoreKeeps == ASSUME CInv, NEW r \in Requests, Store(r) PROVE CInv'
<1>1. CacheTyped'
  BY DEF Store, Goto, CInv, CacheTyped, Fine, Before
<1>2. Stable
  BY DEF Store, Goto, Stable, Answered, CInv, CacheTyped, Fine
<1>3. \A q \in Requests \ {r} : Same(q)
  BY DEF Store, Goto, Same, CInv, CacheTyped
<1>4. L1Fits'
  BY <1>2, L1Stays DEF Store
<1>5. Sound(r)'
  <2>1. /\ pc[r] = "indexing" /\ pc'[r] = "done"
        /\ UNCHANGED <<stale, cand, usable, picked, served, via, good>>
    BY DEF Store, Goto, CInv, CacheTyped
  <2>2. Sound(r) /\ served[r] \in Requests \cup {None}
    BY DEF CInv, CacheTyped
  <2>3. served[r] \notin {r, None} => Fits(r, served[r])'
    <3> SUFFICES ASSUME served[r] \notin {r, None} PROVE Fits(r, served[r])'
      OBVIOUS
    <3>0. PICK a \in Requests : a = served[r]
      BY <2>2
    <3>1. Fits(r, a)
      BY <2>2, <3>0 DEF Sound
    <3>2. served'[r] = a
      BY <2>1, <3>0
    <3>3. Answered(a)'
      BY <1>2, <3>1 DEF Fits, Stable
    <3>4. Fits(r, a)'
      BY <2>1, <3>1, <3>3 DEF Fits, Score, Bar
    <3>5. QED
      BY <3>2, <3>4
  <2>4. QED
    BY <1>2, <2>1, <2>2, <2>3 DEF Sound, Fine, Stable
<1>6. QED
  BY <1>1, <1>2, <1>3, <1>4, <1>5, StepOf

(* Feedback, the sweep and Redis touch no lookup and no exact answer. *)
LEMMA LookupsAlone == ASSUME CInv, UNCHANGED <<lookups, l1>> PROVE CInv'
<1>1. CacheTyped' /\ Stable /\ \A q \in Requests : Same(q)
  BY DEF CInv, CacheTyped, lookups, Stable, Same, Answered
<1>2. L1Fits'
  BY <1>1, L1Stays DEF lookups
<1>3. QED
  BY <1>1, <1>2, SameSound DEF CInv

LEMMA ExpireKeeps == ASSUME CInv, NEW k \in Keys, Expire(k) PROVE CInv'
<1>1. CacheTyped' /\ Stable /\ \A q \in Requests : Same(q)
  BY DEF Expire, CInv, CacheTyped, lookups, Stable, Same, Answered
<1>2. L1Fits'
  BY <1>1 DEF Expire, CInv, CacheTyped, L1Fits, Stable
<1>3. QED
  BY <1>1, <1>2, SameSound DEF CInv

LEMMA StepKeeps == ASSUME CInv, NEW r \in Requests, Step(r) PROVE CInv'
BY ArriveKeeps, L1GetKeeps, LookupGivesUpKeeps, SearchKeeps, ReadKeeps, DropKeeps,
   RerankKeeps, MarkKeeps, MarkFailsKeeps, RememberKeeps, AnswerKeeps, UpstreamFailsKeeps,
   L1SetKeeps, StoreKeeps
   DEF Step

LEMMA NextKeeps == CInv /\ [Next]_vars => CInv'
<1> SUFFICES ASSUME CInv, [Next]_vars PROVE CInv'
  OBVIOUS
<1>1. CASE \E r \in Requests : Step(r)
  BY <1>1, StepKeeps
<1>2. CASE \E r \in Requests : Client(r)
  BY <1>2, LookupsAlone DEF Client, Report, Evict
<1>3. CASE \E k \in Keys : Expire(k)
  BY <1>3, ExpireKeeps
<1>4. CASE Sweep
  BY <1>4, LookupsAlone
     DEF Sweep, SweepStarts, SweepReads, SweepPicks, SweepDeletes, SweepFails
<1>5. CASE Redis \/ UNCHANGED vars
  BY <1>5, LookupsAlone DEF Redis, vars, lookups
<1>6. QED
  BY <1>1, <1>2, <1>3, <1>4, <1>5 DEF Next

(***************************************************************************)
(* Theorems                                                                *)
(***************************************************************************)
(* What the cache gives a request is a complete answer for its own key, or  *)
(* for an entry of its tenant and prompt version that passed the threshold, *)
(* for any requests, keys, ranks and capacities and a Redis that fails at   *)
(* any command (cache/service.py, cache/l2.py).                             *)
THEOREM AnswersFit == Spec => []ServedFits
<1>1. CInv => ServedFits
  BY DEF CInv, CacheTyped, Sound, Fits, Answered, ServedFits
<1> QED
  BY <1>1, InitHolds, NextKeeps, PTL DEF Spec

(* What a step may do to the index. *)
L2Typed == l2 \in [Requests -> {"none", "full", "ghost"}]

LEMMA EntriesMove ==
    ASSUME Next
    PROVE  \/ l2' = l2
           \/ \E e : \/ l2' = [l2 EXCEPT ![e] = "none"]
                   \/ l2' = [l2 EXCEPT ![e] = IF @ = "none" THEN "ghost" ELSE @]
           \/ \E e \in Requests : pc[e] = "indexing" /\ l2' = [l2 EXCEPT ![e] = "full"]
<1> DEFINE Goal ==
      \/ l2' = l2
      \/ \E e : \/ l2' = [l2 EXCEPT ![e] = "none"]
              \/ l2' = [l2 EXCEPT ![e] = IF @ = "none" THEN "ghost" ELSE @]
      \/ \E e \in Requests : pc[e] = "indexing" /\ l2' = [l2 EXCEPT ![e] = "full"]
<1>1. ASSUME NEW r \in Requests, Drop(r) PROVE Goal
  BY <1>1 DEF Drop, Delete, index
<1>2. ASSUME NEW r \in Requests, Mark(r) \/ MarkFails(r) PROVE Goal
  BY <1>2 DEF Mark, MarkFails, Touch, index
<1>3. ASSUME NEW r \in Requests, Store(r) PROVE Goal
  BY <1>3 DEF Store, index
<1>4. ASSUME NEW r \in Requests,
             \/ Arrive(r) \/ L1Get(r) \/ LookupGivesUp(r) \/ Search(r)
             \/ \E e \in Requests : Read(r, e)
             \/ Rerank(r) \/ Remember(r) \/ Answer(r) \/ UpstreamFails(r) \/ L1Set(r)
      PROVE  Goal
  BY <1>4
     DEF Arrive, L1Get, LookupGivesUp, Search, Read, Rerank, Remember, Answer, UpstreamFails,
         L1Set, index
<1>5. ASSUME NEW r \in Requests, Client(r) PROVE Goal
  BY <1>5 DEF Client, Report, Evict, Delete, index
<1>6. CASE \E k \in Keys : Expire(k)
  BY <1>6 DEF Expire, index
<1>7. CASE Sweep
  <2>1. CASE SweepDeletes
    BY <2>1 DEF SweepDeletes, Delete
  <2>2. CASE SweepStarts \/ (\E e \in Requests : SweepReads(e)) \/ SweepPicks \/ SweepFails
    BY <2>2 DEF SweepStarts, SweepReads, SweepPicks, SweepFails, index
  <2>3. QED
    BY <1>7, <2>1, <2>2 DEF Sweep
<1>8. CASE Redis
  BY <1>8 DEF Redis, index
<1>9. QED
  BY <1>1, <1>2, <1>3, <1>4, <1>5, <1>6, <1>7, <1>8 DEF Next, Step

(* A step of the cache never makes a deleted entry one that is found again, *)
(* however late hits are marked: only the request an entry was generated    *)
(* for stores it, once (cache/l2.py).                                       *)
THEOREM NoEntryComesBack == Spec => DeletedStaysDown
<1> DEFINE Down == \A e \in Requests : pc[e] = "done" /\ l2[e] # "full" => l2'[e] # "full"
<1>1. Init => L2Typed
  BY DEF Init, L2Typed
<1>2. L2Typed /\ [Next]_vars => L2Typed' /\ [Down]_vars
  <2>1. CASE UNCHANGED vars
    BY <2>1 DEF vars, index, L2Typed
  <2>2. ASSUME L2Typed, Next PROVE L2Typed' /\ Down
    <3>1. L2Typed'
      BY <2>2, EntriesMove DEF L2Typed
    <3>2. ASSUME NEW e \in Requests, pc[e] = "done", l2[e] # "full" PROVE l2'[e] # "full"
      BY <2>2, <3>2, EntriesMove DEF L2Typed
    <3>3. QED
      BY <3>1, <3>2
  <2>3. QED
    BY <2>1, <2>2
<1>3. QED
  BY <1>1, <1>2, PTL DEF Spec, DeletedStaysDown

(***************************************************************************)
(* Lemmas about time and about the memory for feedback                     *)
(***************************************************************************)
LEMMA LeastOf == ASSUME NEW T \in SUBSET Nat, T # {} PROVE \E x \in T : \A y \in T : x <= y
<1>1. PICK x \in T : \A y \in T : ~ (<<y, x>> \in OpToRel(<, Nat))
  BY NatLessThanWellFounded, WFMin
<1>2. \A y \in T : ~ (y < x)
  BY <1>1 DEF OpToRel
<1>3. QED
  BY <1>2

LEMMA MaxOf ==
    ASSUME NEW T \in SUBSET Nat, T # {}, NEW b \in Nat, \A t \in T : t <= b
    PROVE  Max(T) \in T /\ \A t \in T : t <= Max(T)
<1> DEFINE Over == {u \in Nat : \A t \in T : t <= u}
<1>1. PICK m \in Over : \A u \in Over : m <= u
  BY LeastOf, b \in Over
<1>2. m \in T
  <2>1. SUFFICES ASSUME m \notin T PROVE FALSE
    OBVIOUS
  <2>2. \A t \in T : t <= m - 1
    BY <2>1
  <2>3. m - 1 \in Nat
    <3>1. PICK t \in T : TRUE
      OBVIOUS
    <3>2. QED
      BY <2>2, <3>1
  <2>4. m - 1 \in Over
    BY <2>2, <2>3
  <2>5. QED
    BY <1>1, <2>4
<1>3. \E x \in T : \A y \in T : x >= y
  BY <1>2
<1>4. QED
  BY <1>3 DEF Max

LEMMA NowIsTime ==
    ASSUME hit \in [Requests -> Nat], seen \subseteq Nat \X Requests,
           NEW b \in Nat, \A e \in Requests : hit[e] <= b, \A s \in seen : s[1] <= b
    PROVE  Now \in Nat
<1> DEFINE T == {0} \cup {hit[e] : e \in Requests} \cup {s[1] : s \in seen}
<1>1. T \in SUBSET Nat /\ T # {} /\ \A t \in T : t <= b
  OBVIOUS
<1>2. Max(T) \in Nat
  BY <1>1, MaxOf
<1>3. QED
  BY <1>2 DEF Now

LEMMA WithoutOne ==
    ASSUME NEW S, NEW s \in Seq(S), IsInjective(s), NEW r
    PROVE  /\ Without(s, r) \in Seq(S) /\ IsInjective(Without(s, r))
           /\ Len(Without(s, r)) <= Len(s)
           /\ ~Contains(Without(s, r), r)
           /\ \A q : Contains(Without(s, r), q) => Contains(s, q)
<1>1. CASE ~Contains(s, r)
  BY <1>1 DEF Without
<1>2. CASE Contains(s, r)
  <2> DEFINE i == CHOOSE j \in 1..Len(s) : s[j] = r
             h == SubSeq(s, 1, i - 1)
             t == SubSeq(s, i + 1, Len(s))
  <2>1. i \in 1..Len(s) /\ s[i] = r /\ Len(s) \in Nat
    BY <1>2 DEF Contains
  <2> HIDE DEF i
  <2>2. h \in Seq(S) /\ Len(h) = i - 1 /\ \A j \in 1..(i - 1) : h[j] = s[j]
    BY <2>1, SubSeqProperties
  <2>3. t \in Seq(S) /\ Len(t) = Len(s) - i /\ \A j \in 1..(Len(s) - i) : t[j] = s[i + j]
    BY <2>1, SubSeqProperties
  <2>4. Without(s, r) = h \o t
    BY <1>2 DEF Without, RemoveAt, i
  <2> DEFINE w == h \o t
  <2>5. /\ w \in Seq(S) /\ Len(w) = Len(s) - 1
        /\ \A j \in 1..(Len(s) - 1) : w[j] = s[IF j < i THEN j ELSE j + 1]
    <3>1. /\ w \in Seq(S) /\ Len(w) = Len(h) + Len(t)
          /\ \A j \in 1..(Len(h) + Len(t)) : w[j] = IF j <= Len(h) THEN h[j] ELSE t[j - Len(h)]
      BY <2>2, <2>3, ConcatProperties
    <3> HIDE DEF h, t, w
    <3>2. ASSUME NEW j \in 1..(Len(s) - 1)
          PROVE  w[j] = s[IF j < i THEN j ELSE j + 1]
      <4>1. CASE j < i
        <5>1. j \in 1..(i - 1)
          BY <2>1, <4>1
        <5>2. w[j] = h[j]
          BY <2>1, <2>2, <2>3, <3>1, <4>1
        <5>3. QED
          BY <2>2, <4>1, <5>1, <5>2
      <4>2. CASE ~(j < i)
        <5>0. j \in 1..(Len(h) + Len(t)) /\ ~(j <= Len(h)) /\ j - Len(h) = j - (i - 1)
          BY <2>1, <2>2, <2>3, <4>2
        <5>1. w[j] = t[j - (i - 1)]
          BY <3>1, <5>0
        <5>2. j - (i - 1) \in 1..(Len(s) - i) /\ i + (j - (i - 1)) = j + 1
          BY <2>1, <4>2
        <5>3. QED
          BY <2>3, <4>2, <5>1, <5>2
      <4>3. QED
        BY <4>1, <4>2
    <3>3. QED
      BY <2>1, <2>2, <2>3, <3>1, <3>2
  <2> HIDE DEF w
  <2>6. ASSUME NEW j \in 1..Len(w), NEW k \in 1..Len(w), w[j] = w[k] PROVE j = k
    <3> DEFINE at(n) == IF n < i THEN n ELSE n + 1
    <3>1. at(j) \in 1..Len(s) /\ at(k) \in 1..Len(s)
      BY <2>1, <2>5
    <3>2. s[at(j)] = s[at(k)]
      BY <2>5, <2>6
    <3>3. at(j) = at(k)
      BY <3>1, <3>2 DEF IsInjective
    <3>4. QED
      BY <2>1, <2>5, <3>3
  <2>7. \A j \in 1..Len(w) : w[j] # r /\ \E k \in 1..Len(s) : s[k] = w[j]
    BY <2>1, <2>5 DEF IsInjective
  <2>8. w \in Seq(S) /\ IsInjective(w)
    BY <2>5, <2>6 DEF IsInjective
  <2>9. ~Contains(w, r) /\ \A q : Contains(w, q) => Contains(s, q)
    BY <2>7 DEF Contains
  <2>10. QED
    <3>1. Without(s, r) = w
      BY <2>4 DEF w
    <3>2. Len(w) <= Len(s)
      BY <2>1, <2>5
    <3>3. QED
      BY <2>8, <2>9, <3>1, <3>2
<1>3. QED
  BY <1>1, <1>2

LEMMA AppendTo ==
    ASSUME NEW S, NEW s \in Seq(S), IsInjective(s), NEW r \in S, ~Contains(s, r)
    PROVE  /\ Append(s, r) \in Seq(S) /\ IsInjective(Append(s, r))
           /\ Len(Append(s, r)) = Len(s) + 1
           /\ \A q : Contains(Append(s, r), q) => q = r \/ Contains(s, q)
<1>1. /\ Append(s, r) \in Seq(S) /\ Len(Append(s, r)) = Len(s) + 1
      /\ \A j \in 1..Len(s) : Append(s, r)[j] = s[j]
      /\ Append(s, r)[Len(s) + 1] = r
  BY AppendProperties
<1> DEFINE w == Append(s, r)
<1> HIDE DEF w
<1>2. \A j, k \in 1..Len(w) : w[j] = w[k] => j = k
  BY <1>1 DEF IsInjective, Contains, w
<1>3. QED
  BY <1>1, <1>2 DEF IsInjective, Contains, w

LEMMA TailOf ==
    ASSUME NEW S, NEW s \in Seq(S), IsInjective(s), Len(s) > 0
    PROVE  /\ Tail(s) \in Seq(S) /\ IsInjective(Tail(s)) /\ Len(Tail(s)) = Len(s) - 1
           /\ \A q : Contains(Tail(s), q) => Contains(s, q)
<1>1. /\ Tail(s) \in Seq(S) /\ Len(Tail(s)) = Len(s) - 1
      /\ \A j \in 1..(Len(s) - 1) : Tail(s)[j] = s[j + 1]
  BY HeadTailProperties, EmptySeq
<1>2. QED
  BY <1>1 DEF IsInjective, Contains

(***************************************************************************)
(* Types, bounds, and where an entry to be reported comes from             *)
(***************************************************************************)
IndexTyped ==
    /\ l2 \in [Requests -> {"none", "full", "ghost"}] /\ hit \in [Requests -> Nat]
    /\ report \in [Requests -> {"no", "popped", "evicted", "failed"}]
    /\ memo \in Seq(Requests) /\ IsInjective(memo) /\ Len(memo) <= MemoCapacity
    /\ sweep \in {"idle", "scanning", "deleting"}
    /\ due \subseteq Requests /\ seen \subseteq Nat \X Requests /\ doomed \subseteq Requests
    /\ up \in BOOLEAN

Timed ==
    \E b \in Nat : (\A e \in Requests : hit[e] <= b) /\ (\A s \in seen : s[1] <= b)

Recall(r) ==
    /\ Cardinality(cand[r]) + Cardinality(usable[r]) <= TopK
    /\ pc[r] \notin {"reading", "dropping"} => cand[r] = {} /\ usable[r] = {}

InTenant(r, e) == e \in Requests /\ Scope[KeyOf[e]] = Scope[KeyOf[r]]

Traced(r) ==
    /\ pc[r] = "dropping" => picked[r] \in cand[r]
    /\ pc[r] = "marking" => InTenant(r, picked[r])
    /\ pc[r] = "hit" => InTenant(r, via[r])
    /\ Contains(memo, r) \/ report[r] = "popped" => pc[r] = "done" /\ InTenant(r, via[r])

MInv == CInv /\ IndexTyped /\ Timed /\ \A r \in Requests : Recall(r) /\ Traced(r)

LEMMA InitTraced == Init => MInv
<1> SUFFICES ASSUME Init PROVE MInv
  OBVIOUS
<1>1. Cardinality({}) = 0
  BY FS_EmptySet
<1>2. \A r \in Requests : Recall(r) /\ Traced(r)
  BY <1>1, CacheAssumption DEF Init, Recall, Traced, Contains
<1>3. IndexTyped
  BY CacheAssumption DEF Init, IndexTyped, IsInjective
<1>4. Timed
  BY DEF Init, Timed
<1>5. QED
  BY <1>2, <1>3, <1>4, InitHolds DEF MInv

(***************************************************************************)
(* The index and the sweep                                                 *)
(***************************************************************************)
Written(e) == l2' = [l2 EXCEPT ![e] = "full"] /\ hit' = [hit EXCEPT ![e] = Now]

LEMMA HitsMove ==
    ASSUME IndexTyped, Timed, seen' \subseteq seen,
           UNCHANGED index \/ \E e : Delete(e) \/ Touch(e) \/ Written(e)
    PROVE  /\ l2' \in [Requests -> {"none", "full", "ghost"}] /\ hit' \in [Requests -> Nat]
           /\ Timed'
<1>1. PICK b \in Nat : (\A e \in Requests : hit[e] <= b) /\ (\A s \in seen : s[1] <= b)
  BY DEF Timed
<1>2. Now \in Nat
  BY <1>1, NowIsTime DEF IndexTyped
<1>3. l2' \in [Requests -> {"none", "full", "ghost"}]
  BY DEF IndexTyped, Delete, Touch, Written, index
<1>4. hit' = hit \/ \E e : \E n \in {0, Now} : hit' = [hit EXCEPT ![e] = n]
  BY DEF Delete, Touch, Written, index
<1> HIDE DEF Now
<1>5. hit' \in [Requests -> Nat]
  BY <1>2, <1>4 DEF IndexTyped
<1>6. \A e \in Requests : hit'[e] <= b + Now
  <2> SUFFICES ASSUME NEW e \in Requests PROVE hit'[e] <= b + Now
    OBVIOUS
  <2>1. hit[e] \in Nat /\ hit[e] <= b
    BY <1>1 DEF IndexTyped
  <2>2. hit'[e] \in {hit[e], 0, Now}
    BY <1>4 DEF IndexTyped
  <2>3. QED
    BY <1>2, <2>1, <2>2
<1>7. b + Now \in Nat /\ \A s \in seen' : s[1] <= b + Now
  BY <1>1, <1>2 DEF IndexTyped
<1>8. QED
  BY <1>3, <1>5, <1>6, <1>7 DEF Timed

LEMMA RememberTyped ==
    ASSUME MInv, NEW r \in Requests, Remember(r)
    PROVE  /\ memo' \in Seq(Requests) /\ IsInjective(memo') /\ Len(memo') <= MemoCapacity
           /\ \A q : Contains(memo', q) => q = r \/ Contains(memo, q)
<1> DEFINE w == Without(memo, r)
           o == Append(w, r)
<1>1. /\ w \in Seq(Requests) /\ IsInjective(w) /\ Len(w) <= MemoCapacity /\ ~Contains(w, r)
      /\ Len(w) \in Nat /\ \A q : Contains(w, q) => Contains(memo, q)
  BY WithoutOne, CacheAssumption DEF MInv, IndexTyped
<1> HIDE DEF w
<1>2. /\ o \in Seq(Requests) /\ IsInjective(o) /\ Len(o) = Len(w) + 1
      /\ \A q : Contains(o, q) => q = r \/ Contains(w, q)
  BY <1>1, AppendTo
<1> HIDE DEF o
<1>3. memo' = IF Len(o) > MemoCapacity THEN Tail(o) ELSE o
  BY DEF Remember, o, w
<1>4. CASE Len(o) > MemoCapacity
  BY <1>1, <1>2, <1>3, <1>4, TailOf, CacheAssumption
<1>5. CASE ~(Len(o) > MemoCapacity)
  BY <1>1, <1>2, <1>3, <1>5, CacheAssumption
<1>6. QED
  BY <1>4, <1>5

LEMMA IndexKeeps == ASSUME MInv, Next PROVE IndexTyped' /\ Timed'
<1> USE DEF MInv
<1>0. IndexTyped /\ Timed
  OBVIOUS
<1>1. ASSUME NEW r \in Requests,
             \/ Arrive(r) \/ L1Get(r) \/ LookupGivesUp(r) \/ Search(r)
             \/ \E e \in Requests : Read(r, e)
             \/ Rerank(r) \/ Answer(r) \/ UpstreamFails(r) \/ L1Set(r)
      PROVE  IndexTyped' /\ Timed'
  <2>1. UNCHANGED <<index, feedback, sweeper, up>>
    BY <1>1 DEF Arrive, L1Get, LookupGivesUp, Search, Read, Rerank, Answer, UpstreamFails, L1Set
  <2>2. QED
    BY <1>0, <2>1 DEF IndexTyped, Timed, index, feedback, sweeper
<1>2. ASSUME NEW r \in Requests, Drop(r) \/ Mark(r) \/ MarkFails(r) \/ Store(r)
      PROVE  IndexTyped' /\ Timed'
  <2>1. UNCHANGED <<feedback, sweeper, up>>
    BY <1>2 DEF Drop, Mark, MarkFails, Store
  <2>2. UNCHANGED index \/ \E e : Delete(e) \/ Touch(e) \/ Written(e)
    <3>1. CASE Drop(r)
      BY <3>1 DEF Drop
    <3>2. CASE Mark(r) \/ MarkFails(r)
      BY <3>2 DEF Mark, MarkFails
    <3>3. CASE Store(r)
      BY <3>3 DEF Store, Written
    <3>4. QED
      BY <1>2, <3>1, <3>2, <3>3
  <2>3. seen' \subseteq seen
    BY <2>1 DEF sweeper
  <2>4. QED
    BY <1>0, <2>1, <2>2, <2>3, HitsMove DEF IndexTyped, feedback, sweeper
<1>3. ASSUME NEW r \in Requests, Remember(r) PROVE IndexTyped' /\ Timed'
  <2>1. UNCHANGED <<index, sweeper, up, report>>
    BY <1>3 DEF Remember
  <2>2. QED
    BY <1>0, <1>3, <2>1, RememberTyped DEF IndexTyped, Timed, index, sweeper
<1>4. ASSUME NEW r \in Requests, Report(r) PROVE IndexTyped' /\ Timed'
  <2>1. /\ memo' \in Seq(Requests) /\ IsInjective(memo') /\ Len(memo') <= Len(memo)
        /\ Len(memo') \in Nat /\ Len(memo) \in Nat
    BY <1>4, WithoutOne DEF Report, IndexTyped
  <2>2. UNCHANGED <<index, sweeper, up>> /\ report' = [report EXCEPT ![r] = "popped"]
    BY <1>4 DEF Report
  <2>3. Len(memo') <= MemoCapacity
    BY <1>0, <2>1, CacheAssumption DEF IndexTyped
  <2>4. report' \in [Requests -> {"no", "popped", "evicted", "failed"}]
    BY <1>0, <2>2 DEF IndexTyped
  <2>5. QED
    BY <1>0, <2>1, <2>2, <2>3, <2>4 DEF IndexTyped, Timed, index, sweeper
<1>5. ASSUME NEW r \in Requests, Evict(r) PROVE IndexTyped' /\ Timed'
  <2>1. /\ UNCHANGED <<memo, sweeper, up>>
        /\ report' \in [Requests -> {"no", "popped", "evicted", "failed"}]
    BY <1>5 DEF Evict, IndexTyped
  <2>2. UNCHANGED index \/ \E e : Delete(e)
    BY <1>5 DEF Evict
  <2>3. seen' \subseteq seen
    BY <2>1 DEF sweeper
  <2>4. QED
    BY <1>0, <2>1, <2>2, <2>3, HitsMove DEF IndexTyped, sweeper
<1>6. CASE (\E k \in Keys : Expire(k)) \/ Redis
  BY <1>0, <1>6 DEF Expire, Redis, IndexTyped, Timed, index, feedback, sweeper
<1>7. CASE SweepStarts \/ SweepFails
  BY <1>0, <1>7 DEF SweepStarts, SweepFails, Present, IndexTyped, Timed, index, feedback
<1>8. ASSUME NEW e \in Requests, SweepReads(e) PROVE IndexTyped' /\ Timed'
  <2>1. IndexTyped'
    BY <1>0, <1>8 DEF SweepReads, IndexTyped, index, feedback
  <2>2. PICK b \in Nat : (\A f \in Requests : hit[f] <= b) /\ (\A s \in seen : s[1] <= b)
    BY DEF Timed
  <2>3. seen' = seen \cup {<<hit[e], e>>} /\ hit' = hit
    BY <1>8 DEF SweepReads, index
  <2>4. \A s \in seen' : s[1] <= b
    BY <2>2, <2>3
  <2>5. QED
    BY <2>1, <2>2, <2>3, <2>4 DEF Timed
<1>9. CASE SweepPicks
  <2>1. doomed' \subseteq Requests
    BY <1>9 DEF SweepPicks, IndexTyped
  <2>2. sweep' \in {"idle", "deleting"} /\ seen' = {} /\ due' = {} /\ UNCHANGED <<index, feedback, up>>
    BY <1>9 DEF SweepPicks
  <2>3. QED
    BY <1>0, <2>1, <2>2 DEF IndexTyped, Timed, index, feedback
<1>10. CASE SweepDeletes
  <2>1. UNCHANGED <<feedback, due, seen, up>> /\ sweep' \in {"idle", "deleting"}
    BY <1>10 DEF SweepDeletes
  <2>2. doomed' \subseteq Requests /\ \E e : Delete(e)
    BY <1>0, <1>10 DEF SweepDeletes, IndexTyped
  <2>3. QED
    BY <1>0, <2>1, <2>2, HitsMove DEF IndexTyped, feedback
<1>11. QED
  BY <1>1, <1>2, <1>3, <1>4, <1>5, <1>6, <1>7, <1>8, <1>9, <1>10
     DEF Next, Step, Client, Sweep

(***************************************************************************)
(* The lookups                                                             *)
(***************************************************************************)
LEMMA FrameTraced ==
    ASSUME MInv, NEW q \in Requests, Same(q), report'[q] = report[q],
           Contains(memo', q) => Contains(memo, q)
    PROVE  Recall(q)' /\ Traced(q)'
BY DEF MInv, Same, Recall, Traced, InTenant

(* What a lookup has found is finite. *)
LEMMA FoundFinite ==
    ASSUME MInv, NEW r \in Requests
    PROVE  /\ IsFiniteSet(cand[r]) /\ IsFiniteSet(usable[r])
           /\ Cardinality(cand[r]) \in Nat /\ Cardinality(usable[r]) \in Nat
<1>1. IsFiniteSet(Requests \X Requests)
  BY CacheAssumption, FS_Product
<1>2. IsFiniteSet(cand[r]) /\ IsFiniteSet(usable[r])
  BY <1>1, CacheAssumption, FS_Subset DEF MInv, CInv, CacheTyped
<1>3. QED
  BY <1>2, FS_CardinalityType

LEMMA EmptyRecall ==
    ASSUME NEW r, cand'[r] = {}, usable'[r] = {}
    PROVE  Recall(r)'
<1>1. Cardinality({}) = 0
  BY FS_EmptySet
<1>2. QED
  BY <1>1, CacheAssumption DEF Recall

LEMMA ReadTraced ==
    ASSUME MInv, NEW r \in Requests, NEW e \in Requests, Read(r, e)
    PROVE  Recall(r)' /\ Traced(r)'
<1>0. CInv /\ CacheTyped /\ Recall(r) /\ Traced(r) /\ e \in cand[r] /\ pc[r] = "reading"
  BY DEF MInv, CInv, Read
<1>1. /\ IsFiniteSet(cand[r]) /\ IsFiniteSet(usable[r])
      /\ Cardinality(cand[r]) \in Nat /\ Cardinality(usable[r]) \in Nat
  BY FoundFinite
<1>2. Cardinality(cand[r] \ {e}) = Cardinality(cand[r]) - 1
  BY <1>0, <1>1, FS_RemoveElement
<1>3. UNCHANGED <<memo, report, via>>
  BY DEF Read, feedback
<1>4. CASE up /\ l1[KeyOf[e]] # None
  <2>1. /\ usable'[r] = usable[r] \cup {<<e, l1[KeyOf[e]]>>} /\ cand'[r] = cand[r] \ {e}
        /\ UNCHANGED <<pc, picked>>
    BY <1>0, <1>4 DEF Read, CacheTyped
  <2>2. Cardinality(usable'[r]) \in Nat /\ Cardinality(usable'[r]) <= Cardinality(usable[r]) + 1
    <3> DEFINE x == <<e, l1[KeyOf[e]]>>
               U == usable[r]
    <3>1. Cardinality(U \cup {x}) = IF x \in U THEN Cardinality(U) ELSE Cardinality(U) + 1
      BY <1>1, FS_AddElement
    <3>2. usable'[r] = U \cup {x} /\ Cardinality(U) \in Nat
      BY <1>1, <2>1
    <3> HIDE DEF x, U
    <3>3. Cardinality(usable'[r]) \in Nat /\ Cardinality(usable'[r]) <= Cardinality(U) + 1
      BY <3>1, <3>2
    <3>4. QED
      BY <3>3 DEF U
  <2>3. QED
    BY <1>0, <1>1, <1>2, <1>3, <2>1, <2>2, CacheAssumption DEF Recall, Traced, InTenant
<1>5. CASE up /\ l1[KeyOf[e]] = None
  BY <1>0, <1>3, <1>5 DEF Read, Goto, CacheTyped, Recall, Traced, InTenant
<1>6. CASE ~up
  <2>1. cand'[r] = cand[r] \ {e} /\ UNCHANGED <<usable, pc, picked>>
    BY <1>0, <1>6 DEF Read, CacheTyped
  <2>2. QED
    BY <1>0, <1>1, <1>2, <1>3, <2>1, CacheAssumption DEF Recall, Traced, InTenant
<1>7. QED
  BY <1>4, <1>5, <1>6

LEMMA DropTraced ==
    ASSUME MInv, NEW r \in Requests, Drop(r)
    PROVE  Recall(r)' /\ Traced(r)'
<1>0. CInv /\ CacheTyped /\ Recall(r) /\ Traced(r) /\ pc[r] = "dropping" /\ picked[r] \in cand[r]
  BY DEF MInv, CInv, Drop, Traced
<1>1. /\ IsFiniteSet(cand[r]) /\ IsFiniteSet(usable[r])
      /\ Cardinality(cand[r]) \in Nat /\ Cardinality(usable[r]) \in Nat
  BY FoundFinite
<1>2. Cardinality(cand[r] \ {picked[r]}) = Cardinality(cand[r]) - 1
  BY <1>0, <1>1, FS_RemoveElement
<1>3. /\ UNCHANGED <<memo, report, via, usable>> /\ pc'[r] = "reading"
      /\ cand'[r] = cand[r] \ {picked[r]}
  BY <1>0 DEF Drop, Goto, feedback, CacheTyped
<1>4. QED
  BY <1>0, <1>1, <1>2, <1>3, CacheAssumption DEF Recall, Traced, InTenant

LEMMA SearchTraced ==
    ASSUME MInv, NEW r \in Requests, Search(r)
    PROVE  Recall(r)' /\ Traced(r)'
<1>0. CInv /\ CacheTyped /\ Recall(r) /\ Traced(r) /\ pc[r] = "searching" /\ usable[r] = {}
  BY DEF MInv, CInv, Search, Recall
<1>1. /\ Cardinality(cand'[r]) <= TopK /\ cand'[r] \subseteq Requests
      /\ pc'[r] = "reading" /\ usable'[r] = {} /\ UNCHANGED <<memo, report, via>>
  BY <1>0 DEF Search, Near, Goto, CacheTyped, feedback
<1>2. Cardinality({}) = 0 /\ Cardinality(cand'[r]) \in Nat
  BY <1>1, CacheAssumption, FS_EmptySet, FS_Subset, FS_CardinalityType
<1>3. QED
  BY <1>0, <1>1, <1>2 DEF Recall, Traced

LEMMA RerankTraced ==
    ASSUME MInv, NEW r \in Requests, Rerank(r)
    PROVE  Recall(r)' /\ Traced(r)'
<1>0. CInv /\ CacheTyped /\ Sound(r) /\ Traced(r) /\ pc[r] = "reading"
  BY DEF MInv, CInv, Rerank
<1>1. cand'[r] = {} /\ usable'[r] = {} /\ UNCHANGED <<memo, report, via>>
  BY <1>0 DEF Rerank, feedback, CacheTyped
<1>2. CASE Miss(r)
  BY <1>0, <1>1, <1>2, EmptyRecall DEF Miss, Goto, CacheTyped, Traced
<1>3. ASSUME NEW u \in usable[r], picked' = [picked EXCEPT ![r] = u[1]], Goto(r, "marking")
      PROVE  Recall(r)' /\ Traced(r)'
  <2>1. u[1] \in Requests /\ u[2] \in Requests /\ u = <<u[1], u[2]>>
    BY <1>0 DEF CacheTyped
  <2>2. InTenant(r, u[1])
    BY <1>0, <2>1 DEF Sound, InTenant
  <2>3. pc'[r] = "marking" /\ picked'[r] = u[1]
    BY <1>0, <1>3 DEF Goto, CacheTyped
  <2>4. QED
    BY <1>0, <1>1, <2>2, <2>3, EmptyRecall DEF Traced, InTenant
<1>4. QED
  BY <1>2, <1>3 DEF Rerank

LEMMA MarkTraced ==
    ASSUME MInv, NEW r \in Requests, Mark(r) \/ MarkFails(r)
    PROVE  Recall(r)' /\ Traced(r)'
<1>0. CacheTyped /\ Recall(r) /\ Traced(r) /\ pc[r] = "marking" /\ InTenant(r, picked[r])
  BY DEF MInv, CInv, Mark, MarkFails, Traced
<1>1. UNCHANGED <<memo, report, cand, usable>>
  BY DEF Mark, MarkFails, feedback
<1>2. \/ pc'[r] = "hit" /\ via'[r] = picked[r]
      \/ pc'[r] \in {"failed", "upstream"} /\ via' = via
  BY <1>0 DEF Mark, MarkFails, Miss, Goto, CacheTyped
<1>3. QED
  BY <1>0, <1>1, <1>2, EmptyRecall DEF Recall, Traced, InTenant

LEMMA RememberTraced ==
    ASSUME MInv, NEW r \in Requests, Remember(r)
    PROVE  Recall(r)' /\ Traced(r)'
<1>0. CacheTyped /\ Recall(r) /\ Traced(r) /\ pc[r] = "hit" /\ InTenant(r, via[r])
  BY DEF MInv, CInv, Remember, Traced
<1>1. UNCHANGED <<report, cand, usable, via>> /\ pc'[r] = "done"
  BY <1>0 DEF Remember, Goto, CacheTyped
<1>2. QED
  BY <1>0, <1>1, EmptyRecall DEF Recall, Traced, InTenant

LEMMA OtherTraced ==
    ASSUME MInv, NEW r \in Requests,
           Arrive(r) \/ L1Get(r) \/ LookupGivesUp(r) \/ Answer(r) \/ UpstreamFails(r) \/ L1Set(r)
           \/ Store(r)
    PROVE  Recall(r)' /\ Traced(r)'
<1>0. CacheTyped /\ Recall(r) /\ Traced(r)
  BY DEF MInv, CInv
<1>1. UNCHANGED <<memo, report, via>>
  BY DEF Arrive, L1Get, LookupGivesUp, Answer, UpstreamFails, L1Set, Store, feedback
<1>2. cand'[r] = {} /\ usable'[r] = {}
  BY <1>0 DEF Arrive, L1Get, LookupGivesUp, Answer, UpstreamFails, L1Set, Store, Recall, CacheTyped
<1>3. pc[r] # "done"
  BY DEF Arrive, L1Get, LookupGivesUp, Answer, UpstreamFails, L1Set, Store
<1>4. pc'[r] \notin {"dropping", "marking", "hit"}
  BY <1>0 DEF Arrive, L1Get, LookupGivesUp, Answer, UpstreamFails, L1Set, Store, Goto, Miss,
              CacheTyped
<1>5. QED
  BY <1>0, <1>1, <1>2, <1>3, <1>4, EmptyRecall DEF Traced

LEMMA StepSame == ASSUME MInv, NEW r \in Requests, Step(r) PROVE \A q \in Requests \ {r} : Same(q)
<1>0. CacheTyped
  BY DEF MInv, CInv
<1>1. CASE Arrive(r) \/ L1Get(r) \/ LookupGivesUp(r) \/ Search(r)
  BY <1>0, <1>1 DEF Arrive, L1Get, LookupGivesUp, Search, Same, Goto, Miss, CacheTyped
<1>2. CASE (\E e \in Requests : Read(r, e)) \/ Drop(r) \/ Rerank(r)
  BY <1>0, <1>2 DEF Read, Drop, Rerank, Same, Goto, Miss, CacheTyped
<1>3. CASE Mark(r) \/ MarkFails(r) \/ Remember(r)
  BY <1>0, <1>3 DEF Mark, MarkFails, Remember, Same, Goto, Miss, CacheTyped
<1>4. CASE Answer(r) \/ UpstreamFails(r) \/ L1Set(r) \/ Store(r)
  BY <1>0, <1>4 DEF Answer, UpstreamFails, L1Set, Store, Same, Goto, CacheTyped
<1>5. QED
  BY <1>1, <1>2, <1>3, <1>4 DEF Step

LEMMA StepTraced ==
    ASSUME MInv, NEW r \in Requests, Step(r)
    PROVE  \A q \in Requests : Recall(q)' /\ Traced(q)'
<1>1. Recall(r)' /\ Traced(r)'
  BY ReadTraced, DropTraced, SearchTraced, RerankTraced, MarkTraced, RememberTraced, OtherTraced
     DEF Step
<1>2. /\ report' = report
      /\ \A q : Contains(memo', q) => q = r \/ Contains(memo, q)
  <2>1. CASE Remember(r)
    BY <2>1, RememberTyped DEF Remember
  <2>2. CASE ~Remember(r)
    <3>1. UNCHANGED feedback
      BY <2>2 DEF Step, Arrive, L1Get, LookupGivesUp, Search, Read, Drop, Rerank, Mark, MarkFails,
                  Answer, UpstreamFails, L1Set, Store
    <3>2. QED
      BY <3>1 DEF feedback
  <2>3. QED
    BY <2>1, <2>2
<1>3. QED
  BY <1>1, <1>2, StepSame, FrameTraced

LEMMA ClientTraced ==
    ASSUME MInv, NEW r \in Requests, Client(r)
    PROVE  \A q \in Requests : Recall(q)' /\ Traced(q)'
<1>0. /\ IndexTyped /\ UNCHANGED lookups
      /\ \A q \in Requests : Recall(q) /\ Traced(q) /\ Same(q)
  BY DEF MInv, Client, Report, Evict, lookups, Same
<1>1. CASE Report(r)
  <2>1. /\ Contains(memo, r) /\ report' = [report EXCEPT ![r] = "popped"]
        /\ \A q : Contains(memo', q) => Contains(memo, q)
    BY <1>0, <1>1, WithoutOne DEF Report, IndexTyped
  <2>2. Recall(r)' /\ Traced(r)'
    BY <1>0, <2>1 DEF IndexTyped, Recall, Traced, InTenant, Same
  <2>3. \A q \in Requests \ {r} : report'[q] = report[q]
    BY <1>0, <2>1 DEF IndexTyped
  <2>4. QED
    BY <1>0, <2>1, <2>2, <2>3, FrameTraced
<1>2. CASE Evict(r)
  <2>1. memo' = memo /\ report[r] = "popped" /\ \A q \in Requests \ {r} : report'[q] = report[q]
    BY <1>0, <1>2 DEF Evict, IndexTyped
  <2>2. Recall(r)' /\ Traced(r)'
    BY <1>0, <2>1 DEF Recall, Traced, InTenant, Same
  <2>3. QED
    BY <1>0, <2>1, <2>2, FrameTraced
<1>3. QED
  BY <1>1, <1>2 DEF Client

LEMMA NextTraced == MInv /\ [Next]_vars => MInv'
<1> SUFFICES ASSUME MInv, [Next]_vars PROVE MInv'
  OBVIOUS
<1>1. CInv'
  BY NextKeeps DEF MInv
<1>2. CASE UNCHANGED vars
  BY <1>1, <1>2
     DEF MInv, vars, lookups, index, feedback, sweeper, IndexTyped, Timed, Recall, Traced, InTenant
<1>3. CASE Next
  <2>1. \A q \in Requests : Recall(q)' /\ Traced(q)'
    <3>1. CASE \E r \in Requests : Step(r) \/ Client(r)
      BY <3>1, StepTraced, ClientTraced
    <3>2. CASE (\E k \in Keys : Expire(k)) \/ Sweep \/ Redis
      <4>1. UNCHANGED lookups /\ UNCHANGED feedback
        BY <3>2 DEF Expire, Sweep, SweepStarts, SweepReads, SweepPicks, SweepDeletes, SweepFails,
                    Redis
      <4>2. QED
        BY <4>1 DEF MInv, lookups, feedback, Recall, Traced, InTenant
    <3>3. QED
      BY <1>3, <3>1, <3>2 DEF Next
  <2>2. QED
    BY <1>1, <1>3, <2>1, IndexKeeps DEF MInv
<1>4. QED
  BY <1>2, <1>3

(* The variables keep their types, a lookup never holds more candidates     *)
(* than l2.recall_top_k, and the memory for feedback names each request     *)
(* once and never outgrows its capacity (cache/service.py, cache/l2.py).    *)
THEOREM CacheTypeCorrect == Spec => []CacheTypeOK
<1>1. MInv => CacheTypeOK
  BY DEF MInv, CInv, CacheTyped, IndexTyped, Recall, CacheTypeOK, Fine, Before
<1>2. QED
  BY <1>1, InitTraced, NextTraced, PTL DEF Spec

(* A report removes an entry of the tenant and prompt version of the        *)
(* request it is about, whatever was stored, deleted or forgotten between   *)
(* the answer and the report (evict_feedback of cache/service.py).          *)
FeedbackInTenant ==
    \A r \in Requests :
        Contains(memo, r) \/ report[r] = "popped" =>
            via[r] # None /\ Scope[KeyOf[via[r]]] = Scope[KeyOf[r]]

(* No feedback reaches an entry of another tenant. *)
THEOREM FeedbackStaysInTenant == Spec => []FeedbackInTenant
<1>1. MInv => FeedbackInTenant
  BY CacheAssumption DEF MInv, Traced, InTenant, FeedbackInTenant
<1>2. QED
  BY <1>1, InitTraced, NextTraced, PTL DEF Spec
=============================================================================
