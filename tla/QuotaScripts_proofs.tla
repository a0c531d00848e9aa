------------------------- MODULE QuotaScripts_proofs -------------------------
(***************************************************************************)
(* Proofs about the Lua scripts of module QuotaScripts, for every set of   *)
(* requests, months and plans, every estimate and usage, any clock skew    *)
(* (the request rate of any stretch of time: for clocks that agree).       *)
(***************************************************************************)
EXTENDS QuotaScripts, FiniteSetTheorems, TLAPS

(***************************************************************************)
(* What Total of module Totals adds up to, for arbitrary finite sets and   *)
(* functions into Nat.                                                     *)
(***************************************************************************)
(* The units of a finite set are finite, so Total is a natural number. *)
LEMMA UnitsFinite ==
  ASSUME NEW S, IsFiniteSet(S), NEW f, \A x \in S : f[x] \in Nat
  PROVE  /\ IsFiniteSet(Units(f, S))
         /\ Total(f, S) \in Nat
<1> DEFINE g == [x \in S |-> {x} \X (1 .. f[x])]
           Columns == {{x} \X (1 .. f[x]) : x \in S}
<1>1. g \in Surjection(S, Columns)
  BY DEF Surjection
<1>2. IsFiniteSet(Columns)
  <2> HIDE DEF g, Columns
  <2> QED BY <1>1, FS_Surjection
<1>3. ASSUME NEW x \in S PROVE IsFiniteSet({x} \X (1 .. f[x]))
  <2>1. IsFiniteSet(1 .. f[x])
    BY FS_Interval
  <2> QED BY <2>1, FS_Singleton, FS_Product
<1>4. \A T \in Columns : IsFiniteSet(T)
  BY <1>3
<1>5. IsFiniteSet(UNION Columns)
  <2> HIDE DEF Columns
  <2> QED BY <1>2, <1>4, FS_UNION
<1>6. IsFiniteSet(Units(f, S))
  BY <1>5 DEF Units
<1> QED BY <1>6, FS_CardinalityType DEF Total

(* Nothing held adds up to nothing. *)
LEMMA TotalEmpty == ASSUME NEW f PROVE Total(f, {}) = 0
BY FS_EmptySet DEF Total, Units

(* A total depends on the values at the members of the set only. *)
LEMMA TotalSame ==
  ASSUME NEW S, NEW f, NEW g, \A x \in S : f[x] = g[x]
  PROVE  Total(f, S) = Total(g, S)
<1>1. Units(f, S) = Units(g, S)
  BY DEF Units
<1> QED BY <1>1 DEF Total

(* The total of two disjoint sets is the sum of their totals. *)
LEMMA TotalUnion ==
  ASSUME NEW S, NEW T, IsFiniteSet(S), IsFiniteSet(T), S \cap T = {},
         NEW f, \A x \in S \cup T : f[x] \in Nat
  PROVE  Total(f, S \cup T) = Total(f, S) + Total(f, T)
<1>1. Units(f, S \cup T) = Units(f, S) \cup Units(f, T)
  BY DEF Units
<1>2. Units(f, S) \cap Units(f, T) = {}
  BY DEF Units
<1>3. /\ IsFiniteSet(Units(f, S)) /\ Total(f, S) \in Nat
      /\ IsFiniteSet(Units(f, T)) /\ Total(f, T) \in Nat
  BY UnitsFinite
<1>4. Cardinality(Units(f, S) \cap Units(f, T)) = 0
  BY <1>2, FS_EmptySet
<1>5. Cardinality(Units(f, S) \cup Units(f, T))
        = Cardinality(Units(f, S)) + Cardinality(Units(f, T))
          - Cardinality(Units(f, S) \cap Units(f, T))
  BY <1>3, FS_Union
<1>6. Total(f, S \cup T) = Cardinality(Units(f, S) \cup Units(f, T))
  BY <1>1, Zenon DEF Total
<1>7. /\ Total(f, S) = Cardinality(Units(f, S))
      /\ Total(f, T) = Cardinality(Units(f, T))
  BY DEF Total
<1>8. Cardinality(Units(f, S) \cup Units(f, T)) = Total(f, S) + Total(f, T)
  BY <1>3, <1>4, <1>5, <1>7
<1> QED BY <1>6, <1>8

(* The total of one member is its value. *)
LEMMA TotalOne ==
  ASSUME NEW x, NEW f, f[x] \in Nat
  PROVE  Total(f, {x}) = f[x]
<1>1. Units(f, {x}) = {x} \X (1 .. f[x])
  BY DEF Units
<1>2. IsFiniteSet(1 .. f[x]) /\ Cardinality(1 .. f[x]) = f[x]
  <2>1. /\ IsFiniteSet(1 .. f[x])
        /\ Cardinality(1 .. f[x]) = IF 1 > f[x] THEN 0 ELSE f[x] - 1 + 1
    BY FS_Interval
  <2> QED BY <2>1
<1>3. IsFiniteSet({x}) /\ Cardinality({x}) = 1
  BY FS_Singleton
<1>4. Cardinality({x} \X (1 .. f[x])) = Cardinality({x}) * Cardinality(1 .. f[x])
  BY <1>2, <1>3, FS_Product
<1>5. 1 * f[x] = f[x]
  OBVIOUS
<1> QED BY <1>1, <1>2, <1>3, <1>4, <1>5 DEF Total

(* Taking a part out of a set takes its total out. *)
LEMMA TotalDifference ==
  ASSUME NEW S, IsFiniteSet(S), NEW T \in SUBSET S,
         NEW f, \A x \in S : f[x] \in Nat
  PROVE  /\ Total(f, S \ T) = Total(f, S) - Total(f, T)
         /\ Total(f, T) \in Nat
         /\ Total(f, S) \in Nat
         /\ Total(f, T) <= Total(f, S)
<1>1. IsFiniteSet(T) /\ IsFiniteSet(S \ T)
  BY FS_Subset, FS_Difference
<1>2. (S \ T) \cup T = S /\ (S \ T) \cap T = {}
  OBVIOUS
<1>3. Total(f, (S \ T) \cup T) = Total(f, S \ T) + Total(f, T)
  BY <1>1, <1>2, TotalUnion
<1>4. Total(f, S \ T) \in Nat
  BY <1>1, UnitsFinite
<1>5. Total(f, T) \in Nat
  BY <1>1, UnitsFinite
<1>6. Total(f, S) \in Nat
  BY UnitsFinite
<1>7. Total(f, S) = Total(f, S \ T) + Total(f, T)
  BY <1>2, <1>3
<1> QED BY <1>4, <1>5, <1>6, <1>7

(***************************************************************************)
(* Operators of the scripts.                                               *)
(***************************************************************************)
LEMMA RefilledType ==
  ASSUME NEW b, BucketType(b), NEW rate \in Nat, NEW cap \in Nat, NEW t \in Nat
  PROVE  BucketType(Refilled(b, rate, cap, t))
<1>1. Max2(0, t - b.ts_ms) \in Nat
  BY DEF BucketType, Max2
<1>2. Max2(0, t - b.ts_ms) * rate \in Nat
  BY <1>1
<1> QED BY <1>2 DEF BucketType, Refilled, Min2

LEMMA ReturnedType ==
  ASSUME NEW b, BucketType(b), NEW n \in Int
  PROVE  BucketType(Returned(b, n))
BY DEF BucketType, Returned, Min2

LEMMA DrawnType ==
  ASSUME NEW b, BucketType(b), NEW n \in Int
  PROVE  BucketType(Drawn(b, n))
BY DEF BucketType, Drawn

LEMMA WithoutType ==
  ASSUME NEW zset, NEW hash, ReservationsType(zset, hash), NEW S
  PROVE  ReservationsType(Without(zset, S), Without(hash, S))
BY DEF ReservationsType, Without

LEMMA WithEntryType ==
  ASSUME NEW zset, NEW hash, ReservationsType(zset, hash),
         NEW r \in Requests, NEW d \in Nat, NEW v \in Reservation
  PROVE  ReservationsType(WithEntry(zset, r, d), WithEntry(hash, r, v))
<1>1. /\ DOMAIN WithEntry(zset, r, d) = DOMAIN WithEntry(hash, r, v)
      /\ DOMAIN WithEntry(hash, r, v) = DOMAIN hash \cup {r}
  BY DEF ReservationsType, WithEntry
<1>2. WithEntry(hash, r, v) \in [DOMAIN hash \cup {r} -> Reservation]
  BY DEF ReservationsType, WithEntry
<1>3. WithEntry(zset, r, d) \in [DOMAIN hash \cup {r} -> Nat]
  BY DEF ReservationsType, WithEntry
<1> QED BY <1>1, <1>2, <1>3 DEF ReservationsType

(* What the reservations of a set hold, by dimension and by month. *)
LEMMA HeldFinite ==
  ASSUME TypeOK, NEW S \in SUBSET DOMAIN resv_hash
  PROVE  /\ IsFiniteSet(S)
         /\ Cardinality(S) \in Nat
         /\ Total(TpmEst(resv_hash), S) \in Nat
         /\ \A m \in Months : /\ IsFiniteSet(OfMonth(resv_hash, S, m))
                              /\ Total(BudgetEst(resv_hash), OfMonth(resv_hash, S, m)) \in Nat
<1>1. IsFiniteSet(S)
  BY MonthsAssumption, FS_Subset DEF TypeOK, ReservationsType
<1>2. \A r \in S : TpmEst(resv_hash)[r] \in Nat /\ BudgetEst(resv_hash)[r] \in Nat
  BY DEF TypeOK, ReservationsType, Reservation, TpmEst, BudgetEst
<1>3. Total(TpmEst(resv_hash), S) \in Nat
  BY <1>1, <1>2, UnitsFinite
<1>4. ASSUME NEW m \in Months
      PROVE  /\ IsFiniteSet(OfMonth(resv_hash, S, m))
             /\ Total(BudgetEst(resv_hash), OfMonth(resv_hash, S, m)) \in Nat
  <2>1. OfMonth(resv_hash, S, m) \in SUBSET S
    BY DEF OfMonth
  <2>2. IsFiniteSet(OfMonth(resv_hash, S, m))
    BY <1>1, <2>1, FS_Subset
  <2> QED BY <1>2, <2>1, <2>2, UnitsFinite
<1> QED BY <1>1, <1>3, <1>4, FS_CardinalityType

(***************************************************************************)
(* Type correctness.                                                       *)
(***************************************************************************)
LEMMA InitType == ScriptInit => TypeOK
BY DEF ScriptInit, TypeOK, ReservationsType, BucketType, NoBucket, NoEntries

LEMMA BucketsAtType ==
  ASSUME TypeOK, NEW p \in Plans, NEW t \in Clocks
  PROVE  BucketType(RpmAt(p, t)) /\ BucketType(TpmAt(p, t))
<1>1. /\ p.rpm_cap \in Nat /\ p.rpm_rate \in Nat
      /\ p.tpm_cap \in Nat /\ p.tpm_rate \in Nat
  BY PlansAssumption
<1>2. t \in Nat
  BY DEF TypeOK, Clocks
<1>3. BucketType(Refilled(rpm, p.rpm_rate, p.rpm_cap, t))
  BY <1>1, <1>2, RefilledType DEF TypeOK
<1>4. BucketType(Refilled(tpm, p.tpm_rate, p.tpm_cap, t))
  BY <1>1, <1>2, RefilledType DEF TypeOK
<1> QED BY <1>3, <1>4 DEF RpmAt, TpmAt

LEMMA AdmitType ==
  ASSUME TypeOK, NEW r \in Requests, NEW p \in Plans, NEW e \in Estimates,
         NEW m \in Months, NEW t \in Clocks, Admit(r, p, e, m, t)
  PROVE  TypeOK'
<1>1. BucketType(rpm') /\ BucketType(tpm')
  BY AmountsAssumption, BucketsAtType, DrawnType DEF Admit
<1>2. conc' \in Nat /\ admitted' \in Nat /\ tpm_spent' \in Int
  BY AmountsAssumption DEF Admit, TypeOK
<1>3. /\ opened' \subseteq Months
      /\ budget' \in [Months -> Int]
      /\ granted' \in [Months -> Nat]
      /\ charged' \in [Months -> Nat]
  BY AmountsAssumption, PlansAssumption DEF Admit, OpenMonth, BudgetAt, TypeOK
<1>4. t + Ttl \in Nat
  BY BoundsAssumption DEF Clocks, TypeOK
<1>5. [tpm_est |-> e.tpm, budget_est |-> e.budget, month |-> m] \in Reservation
  BY AmountsAssumption DEF Reservation
<1>6. ReservationsType(resv_zset', resv_hash')
  BY <1>4, <1>5, WithEntryType DEF Admit, TypeOK
<1>7. now' \in Nat
  BY DEF Admit, TypeOK
<1> QED BY <1>1, <1>2, <1>3, <1>6, <1>7 DEF TypeOK

LEMMA DenyType ==
  ASSUME TypeOK, NEW p \in Plans, NEW e \in Estimates,
         NEW m \in Months, NEW t \in Clocks, Deny(p, e, m, t)
  PROVE  TypeOK'
<1>1. BucketType(rpm') /\ BucketType(tpm')
  BY BucketsAtType DEF Deny
<1>2. /\ opened' \subseteq Months
      /\ budget' \in [Months -> Int]
      /\ granted' \in [Months -> Nat]
  BY PlansAssumption DEF Deny, OpenMonth, BudgetAt, TypeOK
<1>3. UNCHANGED <<conc, resv_zset, resv_hash, now, charged, admitted, tpm_spent>>
  BY DEF Deny
<1> QED BY <1>1, <1>2, <1>3 DEF TypeOK

LEMMA SettleType ==
  ASSUME TypeOK, NEW r \in Requests, NEW u \in Usages, Settle(r, u)
  PROVE  TypeOK'
<1>1. /\ resv_hash[r].tpm_est \in Nat /\ resv_hash[r].budget_est \in Nat
      /\ resv_hash[r].month \in Months /\ u.tpm \in Nat /\ u.budget \in Nat
  BY AmountsAssumption DEF Settle, TypeOK, ReservationsType, Reservation
<1>2. BucketType(tpm')
  <2>1. resv_hash[r].tpm_est - u.tpm \in Int
    BY <1>1
  <2> QED BY <2>1, ReturnedType DEF Settle, TypeOK
<1>3. /\ budget' \in [Months -> Int]
      /\ charged' \in [Months -> Nat]
      /\ tpm_spent' \in Int
      /\ conc' \in Nat
  BY <1>1 DEF Settle, TypeOK, Max2
<1>4. ReservationsType(resv_zset', resv_hash')
  BY WithoutType DEF Settle, TypeOK
<1>5. UNCHANGED <<rpm, opened, now, granted, admitted>>
  BY DEF Settle
<1> QED BY <1>2, <1>3, <1>4, <1>5 DEF TypeOK

LEMMA SweepType ==
  ASSUME TypeOK, NEW B, Sweep(B)
  PROVE  TypeOK'
<1> DEFINE live == B \cap DOMAIN resv_hash
<1>1. /\ Cardinality(live) \in Nat
      /\ Total(TpmEst(resv_hash), live) \in Nat
      /\ \A m \in Months : Total(BudgetEst(resv_hash), OfMonth(resv_hash, live, m)) \in Nat
  BY HeldFinite
<1>2. BucketType(tpm')
  BY <1>1, ReturnedType DEF Sweep, TypeOK
<1>3. budget' \in [Months -> Int] /\ tpm_spent' \in Int /\ conc' \in Nat
  <2>1. budget' = [m \in Months |->
           budget[m] + Total(BudgetEst(resv_hash), OfMonth(resv_hash, live, m))]
    BY DEF Sweep
  <2>2. budget' \in [Months -> Int]
    BY <1>1, <2>1 DEF TypeOK
  <2>3. tpm_spent' \in Int /\ conc' \in Nat
    BY <1>1 DEF Sweep, TypeOK, Max2
  <2> QED BY <2>2, <2>3
<1>4. ReservationsType(resv_zset', resv_hash')
  BY WithoutType DEF Sweep, TypeOK
<1>5. UNCHANGED <<rpm, opened, now, granted, charged, admitted>>
  BY DEF Sweep
<1> QED BY <1>2, <1>3, <1>4, <1>5 DEF TypeOK

LEMMA StepType == TypeOK /\ [ScriptNext]_scriptVars => TypeOK'
<1> SUFFICES ASSUME TypeOK, [ScriptNext]_scriptVars PROVE TypeOK'
  OBVIOUS
<1>1. CASE \E r \in Requests, p \in Plans, e \in Estimates, m \in Months, t \in Clocks :
              Admit(r, p, e, m, t)
  BY <1>1, AdmitType
<1>2. CASE \E p \in Plans, e \in Estimates, m \in Months, t \in Clocks : Deny(p, e, m, t)
  BY <1>2, DenyType
<1>3. CASE \E r \in Requests, u \in Usages : Settle(r, u)
  BY <1>3, SettleType
<1>4. CASE \E t \in Clocks : \E B \in Batches(t) : B # {} /\ Sweep(B)
  BY <1>4, SweepType
<1>5. CASE Tick
  BY <1>5 DEF Tick, TypeOK, keys, history
<1>6. CASE UNCHANGED scriptVars
  BY <1>6 DEF scriptVars, keys, history, TypeOK
<1> QED BY <1>1, <1>2, <1>3, <1>4, <1>5, <1>6 DEF ScriptNext

(* The keys of a tenant always have the shape the scripts expect, and the   *)
(* two reservation keys always hold the same request ids.                   *)
THEOREM ScriptsTypeCorrect == ScriptSpec => []TypeOK
<1>1. ScriptInit => TypeOK
  BY InitType
<1>2. TypeOK /\ [ScriptNext]_scriptVars => TypeOK'
  BY StepType
<1> QED BY <1>1, <1>2, PTL DEF ScriptSpec

(***************************************************************************)
(* The concurrency counter covers the reservations.                        *)
(***************************************************************************)
LEMMA HeldIsFinite ==
  ASSUME TypeOK
  PROVE  IsFiniteSet(DOMAIN resv_hash) /\ Cardinality(DOMAIN resv_hash) \in Nat
BY HeldFinite

LEMMA AdmitPermits ==
  ASSUME TypeOK, PermitsCoverHeld, NEW r \in Requests, NEW p \in Plans, NEW e \in Estimates,
         NEW m \in Months, NEW t \in Clocks, Admit(r, p, e, m, t)
  PROVE  PermitsCoverHeld'
<1>1. DOMAIN resv_hash' = DOMAIN resv_hash \cup {r}
  BY DEF Admit, WithEntry
<1>2. Cardinality(DOMAIN resv_hash') <= Cardinality(DOMAIN resv_hash) + 1
  <2>1. Cardinality(DOMAIN resv_hash \cup {r})
          = IF r \in DOMAIN resv_hash THEN Cardinality(DOMAIN resv_hash)
                                      ELSE Cardinality(DOMAIN resv_hash) + 1
    BY HeldIsFinite, FS_AddElement
  <2>2. Cardinality(DOMAIN resv_hash \cup {r}) <= Cardinality(DOMAIN resv_hash) + 1
    BY <2>1, HeldIsFinite
  <2> QED BY <1>1, <2>2
<1>3. Cardinality(DOMAIN resv_hash') \in Nat
  <2>1. IsFiniteSet(DOMAIN resv_hash \cup {r})
    BY HeldIsFinite, FS_AddElement
  <2>2. IsFiniteSet(DOMAIN resv_hash')
    BY <1>1, <2>1
  <2> QED BY <2>2, FS_CardinalityType
<1>4. conc' = conc + 1 /\ conc < p.conc_cap /\ conc \in Nat /\ p.conc_cap \in Nat
  BY PlansAssumption DEF Admit, Fits, TypeOK
<1>5. conc' <= p.conc_cap
  BY <1>4
<1>6. Cardinality(DOMAIN resv_hash') <= conc'
  BY <1>2, <1>3, <1>4, HeldIsFinite DEF PermitsCoverHeld
<1> QED BY <1>5, <1>6 DEF PermitsCoverHeld

(* Taking S out of the reservations and its size off the counter.          *)
LEMMA ReleasePermits ==
  ASSUME TypeOK, PermitsCoverHeld, NEW S \in SUBSET DOMAIN resv_hash,
         DOMAIN resv_hash' = DOMAIN resv_hash \ S,
         conc' = Max2(0, conc - Cardinality(S))
  PROVE  PermitsCoverHeld'
<1>1. IsFiniteSet(S) /\ Cardinality(S) \in Nat
  BY HeldFinite
<1>2. S \subseteq DOMAIN resv_hash /\ DOMAIN resv_hash \cap S = S
  OBVIOUS
<1>3. /\ Cardinality(DOMAIN resv_hash')
            = Cardinality(DOMAIN resv_hash) - Cardinality(DOMAIN resv_hash \cap S)
      /\ IsFiniteSet(DOMAIN resv_hash')
  BY HeldIsFinite, FS_Difference
<1>4. Cardinality(DOMAIN resv_hash') = Cardinality(DOMAIN resv_hash) - Cardinality(S)
  BY <1>2, <1>3
<1>5. Cardinality(DOMAIN resv_hash') \in Nat
  BY <1>3, FS_CardinalityType
<1>6. Cardinality(DOMAIN resv_hash) <= conc /\ conc \in Nat
  BY DEF PermitsCoverHeld, TypeOK
<1>7. conc' = conc - Cardinality(S)
  BY <1>1, <1>4, <1>5, <1>6, HeldIsFinite DEF Max2
<1>8. Cardinality(DOMAIN resv_hash') <= conc' /\ conc' <= conc /\ conc' \in Int
  BY <1>1, <1>4, <1>5, <1>6, <1>7, HeldIsFinite
<1>9. \E p \in Plans : conc' <= p.conc_cap
  <2>1. PICK p \in Plans : conc <= p.conc_cap
    BY DEF PermitsCoverHeld
  <2>2. p.conc_cap \in Nat
    BY PlansAssumption
  <2> QED BY <1>6, <1>8, <2>1, <2>2
<1> QED BY <1>8, <1>9 DEF PermitsCoverHeld

LEMMA StepPermits ==
  TypeOK /\ PermitsCoverHeld /\ [ScriptNext]_scriptVars => PermitsCoverHeld'
<1> SUFFICES ASSUME TypeOK, PermitsCoverHeld, [ScriptNext]_scriptVars
             PROVE  PermitsCoverHeld'
  OBVIOUS
<1>1. CASE \E r \in Requests, p \in Plans, e \in Estimates, m \in Months, t \in Clocks :
              Admit(r, p, e, m, t)
  BY <1>1, AdmitPermits
<1>2. CASE \E p \in Plans, e \in Estimates, m \in Months, t \in Clocks : Deny(p, e, m, t)
  BY <1>2 DEF Deny, PermitsCoverHeld
<1>3. ASSUME NEW r \in Requests, NEW u \in Usages, Settle(r, u)
      PROVE  PermitsCoverHeld'
  <2>1. {r} \in SUBSET DOMAIN resv_hash /\ Cardinality({r}) = 1
    BY <1>3, FS_Singleton DEF Settle
  <2>2. DOMAIN resv_hash' = DOMAIN resv_hash \ {r} /\ conc' = Max2(0, conc - 1)
    BY <1>3 DEF Settle, Without
  <2> QED BY <2>1, <2>2, ReleasePermits
<1>4. ASSUME NEW B, Sweep(B)
      PROVE  PermitsCoverHeld'
  <2> DEFINE live == B \cap DOMAIN resv_hash
  <2>1. live \in SUBSET DOMAIN resv_hash
    OBVIOUS
  <2>2. DOMAIN resv_hash' = DOMAIN resv_hash \ live
    BY <1>4 DEF Sweep, Without
  <2>3. conc' = Max2(0, conc - Cardinality(live))
    BY <1>4 DEF Sweep
  <2> QED BY <2>1, <2>2, <2>3, ReleasePermits
<1>5. CASE Tick
  BY <1>5 DEF Tick, PermitsCoverHeld, keys
<1>6. CASE UNCHANGED scriptVars
  BY <1>6 DEF scriptVars, keys, PermitsCoverHeld
<1> QED BY <1>1, <1>2, <1>3, <1>4, <1>5, <1>6 DEF ScriptNext

LEMMA InitPermits == ScriptInit => PermitsCoverHeld
<1> SUFFICES ASSUME ScriptInit PROVE PermitsCoverHeld
  OBVIOUS
<1>1. DOMAIN resv_hash = {} /\ conc = 0
  BY DEF ScriptInit, NoEntries
<1>2. Cardinality(DOMAIN resv_hash) = 0
  BY <1>1, FS_EmptySet
<1> QED BY <1>1, <1>2, PlansAssumption DEF PermitsCoverHeld

(* The concurrency limit holds whatever calls the gateways make, in any     *)
(* order: reserving the same id twice, settling twice or late, sweeping.    *)
THEOREM ScriptsCoverHeld == ScriptSpec => []PermitsCoverHeld
<1>1. ScriptInit => TypeOK /\ PermitsCoverHeld
  BY InitType, InitPermits
<1>2. TypeOK /\ PermitsCoverHeld /\ [ScriptNext]_scriptVars => (TypeOK /\ PermitsCoverHeld)'
  BY StepType, StepPermits
<1> QED BY <1>1, <1>2, PTL DEF ScriptSpec

(***************************************************************************)
(* Budgets are conserved, month by month.                                  *)
(***************************************************************************)
LEMMA HeldBudgetType ==
  ASSUME TypeOK, NEW k \in Months, NEW S \in SUBSET DOMAIN resv_hash
  PROVE  /\ IsFiniteSet(OfMonth(resv_hash, S, k))
         /\ \A q \in OfMonth(resv_hash, S, k) : BudgetEst(resv_hash)[q] \in Nat
         /\ Total(BudgetEst(resv_hash), OfMonth(resv_hash, S, k)) \in Nat
         /\ HeldBudget(k) \in Nat
<1>1. \A q \in OfMonth(resv_hash, S, k) : BudgetEst(resv_hash)[q] \in Nat
  BY DEF TypeOK, ReservationsType, Reservation, BudgetEst, OfMonth
<1> QED BY <1>1, HeldFinite DEF HeldBudget

(* Taking S out of the reservations takes exactly what S holds out.        *)
LEMMA HeldWithout ==
  ASSUME TypeOK, NEW k \in Months, NEW S \in SUBSET DOMAIN resv_hash
  PROVE  LET H == Without(resv_hash, S)
         IN  Total(BudgetEst(H), OfMonth(H, DOMAIN H, k))
               = HeldBudget(k) - Total(BudgetEst(resv_hash), OfMonth(resv_hash, S, k))
<1> DEFINE H == Without(resv_hash, S)
           all == OfMonth(resv_hash, DOMAIN resv_hash, k)
           out == OfMonth(resv_hash, S, k)
           b == BudgetEst(resv_hash)
<1>1. OfMonth(H, DOMAIN H, k) = all \ out
  BY DEF OfMonth, Without
<1>2. \A q \in all \ out : BudgetEst(H)[q] = b[q]
  BY DEF BudgetEst, OfMonth, Without
<1>3. Total(BudgetEst(H), all \ out) = Total(b, all \ out)
  <2> HIDE DEF H, all, out, b
  <2> QED BY <1>2, TotalSame
<1>4. IsFiniteSet(all) /\ (\A q \in all : b[q] \in Nat)
  BY HeldBudgetType
<1>5. out \in SUBSET all
  BY DEF OfMonth
<1>6. Total(b, all \ out) = Total(b, all) - Total(b, out)
  <2> HIDE DEF all, out, b
  <2> QED BY <1>4, <1>5, TotalDifference
<1> QED BY <1>1, <1>3, <1>6 DEF HeldBudget

(* A new entry adds its own estimate to its own month, and no more: an old *)
(* entry it replaces is taken out.                                         *)
LEMMA HeldWithEntry ==
  ASSUME TypeOK, NEW k \in Months, NEW r \in Requests, NEW v \in Reservation
  PROVE  LET H == WithEntry(resv_hash, r, v)
             held == Total(BudgetEst(H), OfMonth(H, DOMAIN H, k))
         IN  /\ held \in Nat
             /\ held <= HeldBudget(k) + (IF v.month = k THEN v.budget_est ELSE 0)
             /\ r \notin DOMAIN resv_hash =>
                   held = HeldBudget(k) + (IF v.month = k THEN v.budget_est ELSE 0)
<1> DEFINE H == WithEntry(resv_hash, r, v)
           all == OfMonth(resv_hash, DOMAIN resv_hash, k)
           old == OfMonth(resv_hash, DOMAIN resv_hash \cap {r}, k)
           new == IF v.month = k THEN {r} ELSE {}
           b == BudgetEst(resv_hash)
           c == BudgetEst(H)
<1>1. OfMonth(H, DOMAIN H, k) = (all \ old) \cup new /\ (all \ old) \cap new = {}
  BY DEF OfMonth, WithEntry
<1>2. \A q \in all \ old : c[q] = b[q]
  BY DEF BudgetEst, OfMonth, WithEntry
<1>3. IsFiniteSet(all) /\ (\A q \in all : b[q] \in Nat) /\ old \in SUBSET all
  BY HeldBudgetType DEF OfMonth
<1>4. c[r] = v.budget_est /\ v.budget_est \in Nat
  BY DEF BudgetEst, WithEntry, Reservation
<1>5. IsFiniteSet(new)
  BY FS_EmptySet, FS_Singleton
<1>6. Total(c, all \ old) = Total(b, all \ old)
  <2> HIDE DEF all, old, b, c
  <2> QED BY <1>2, TotalSame
<1>7. /\ Total(b, all \ old) = Total(b, all) - Total(b, old)
      /\ Total(b, old) \in Nat /\ Total(b, all) \in Nat
      /\ Total(b, old) <= Total(b, all)
  <2> HIDE DEF all, old, b
  <2> QED BY <1>3, TotalDifference
<1>8. Total(c, new) = IF v.month = k THEN v.budget_est ELSE 0
  <2>1. CASE v.month = k
    <3>1. Total(c, {r}) = c[r]
      BY <1>4, TotalOne
    <3> QED BY <1>4, <2>1, <3>1
  <2>2. CASE v.month # k
    <3>1. Total(c, {}) = 0
      BY TotalEmpty
    <3> QED BY <2>2, <3>1
  <2> QED BY <2>1, <2>2
<1>9. Total(c, (all \ old) \cup new) = Total(c, all \ old) + Total(c, new)
  <2>1. IsFiniteSet(all \ old)
    BY <1>3, FS_Difference
  <2>2. \A q \in (all \ old) \cup new : c[q] \in Nat
    BY <1>2, <1>3, <1>4
  <2> HIDE DEF all, old, new, c
  <2> QED BY <1>1, <1>5, <2>1, <2>2, TotalUnion
<1>10. Total(c, new) \in Nat
  BY <1>4, <1>8
<1>11. HeldBudget(k) = Total(b, all)
  BY DEF HeldBudget
<1>14. r \notin DOMAIN resv_hash => Total(b, old) = 0
  <2>1. r \notin DOMAIN resv_hash => old = {}
    BY DEF OfMonth
  <2>2. Total(b, {}) = 0
    BY TotalEmpty
  <2> HIDE DEF old, b
  <2> QED BY <2>1, <2>2
<1> HIDE DEF H, all, old, new, b, c
<1>12. Total(c, OfMonth(H, DOMAIN H, k)) = Total(c, (all \ old) \cup new)
  BY <1>1, Zenon
<1>13. /\ Total(c, OfMonth(H, DOMAIN H, k)) \in Nat
       /\ Total(c, OfMonth(H, DOMAIN H, k)) <= HeldBudget(k) + Total(c, new)
       /\ r \notin DOMAIN resv_hash =>
             Total(c, OfMonth(H, DOMAIN H, k)) = HeldBudget(k) + Total(c, new)
  BY <1>6, <1>7, <1>9, <1>10, <1>11, <1>12, <1>14
<1> QED BY <1>8, <1>13 DEF H, c

(* What a month was opened with and is nowhere any more. *)
Lost(k) == granted[k] - (budget[k] + HeldBudget(k) + charged[k])

MonthsInv == TypeOK /\ MonthsOpened

LEMMA LostType ==
  TypeOK => /\ \A k \in Months : Lost(k) \in Int
            /\ BudgetConserved <=> \A k \in Months : Lost(k) >= 0
<1> SUFFICES ASSUME TypeOK
             PROVE  /\ \A k \in Months : Lost(k) \in Int
                    /\ BudgetConserved <=> \A k \in Months : Lost(k) >= 0
  OBVIOUS
<1>1. ASSUME NEW k \in Months
      PROVE  /\ budget[k] \in Int /\ charged[k] \in Int /\ granted[k] \in Int
             /\ HeldBudget(k) \in Int
  <2>1. DOMAIN resv_hash \in SUBSET DOMAIN resv_hash
    OBVIOUS
  <2>2. HeldBudget(k) \in Nat
    BY <2>1, HeldBudgetType
  <2> QED BY <2>2 DEF TypeOK
<1>2. \A k \in Months : Lost(k) \in Int
  BY <1>1 DEF Lost
<1>3. ASSUME NEW k \in Months
      PROVE  budget[k] + HeldBudget(k) + charged[k] <= granted[k] <=> Lost(k) >= 0
  BY <1>1 DEF Lost
<1> QED BY <1>2, <1>3 DEF BudgetConserved

(* An id that is reserved twice loses what its first entry held. *)

LEMMA AdmitBudget ==
  ASSUME MonthsInv, NEW r \in Requests, NEW p \in Plans, NEW e \in Estimates,
         NEW m \in Months, NEW t \in Clocks, Admit(r, p, e, m, t)
  PROVE  /\ MonthsOpened'
         /\ \A k \in Months : /\ Lost(k)' >= Lost(k)
                              /\ r \notin DOMAIN resv_hash => Lost(k)' = Lost(k)
<1> DEFINE v == [tpm_est |-> e.tpm, budget_est |-> e.budget, month |-> m]
<1>1. v \in Reservation /\ e.budget \in Nat /\ p.budget_init \in Nat
  BY AmountsAssumption, PlansAssumption DEF Reservation
<1>2. resv_hash' = WithEntry(resv_hash, r, v)
  BY DEF Admit
<1>3. opened' = opened \cup {m} /\ charged' = charged
  BY DEF Admit, OpenMonth
<1>4. MonthsOpened'
  <2>1. \A q \in DOMAIN resv_hash' : resv_hash'[q].month \in opened'
    BY <1>2, <1>3 DEF MonthsInv, MonthsOpened, WithEntry
  <2>2. \A k \in Months \ opened' : budget'[k] = budget[k] /\ granted'[k] = granted[k]
    BY <1>3 DEF Admit, OpenMonth, MonthsInv, TypeOK
  <2> QED BY <1>3, <2>1, <2>2 DEF MonthsInv, MonthsOpened
<1>5. ASSUME NEW k \in Months
      PROVE  /\ Lost(k)' >= Lost(k)
             /\ r \notin DOMAIN resv_hash => Lost(k)' = Lost(k)
  <2> USE DEF Lost
  <2>1. /\ HeldBudget(k)' \in Nat
        /\ HeldBudget(k)' <= HeldBudget(k) + (IF m = k THEN e.budget ELSE 0)
        /\ r \notin DOMAIN resv_hash =>
              HeldBudget(k)' = HeldBudget(k) + (IF m = k THEN e.budget ELSE 0)
    BY <1>1, <1>2, HeldWithEntry DEF HeldBudget, MonthsInv
  <2>2. /\ HeldBudget(k) \in Nat /\ budget[k] \in Int /\ charged[k] \in Nat
        /\ granted[k] \in Nat
    BY HeldBudgetType DEF MonthsInv, TypeOK
  <2>3. CASE k # m
    <3>1. budget'[k] = budget[k] /\ granted'[k] = granted[k]
      BY <2>3 DEF Admit, OpenMonth, MonthsInv, TypeOK
    <3> QED BY <1>3, <2>1, <2>2, <2>3, <3>1
  <2>4. CASE k = m /\ m \in opened
    <3>1. budget'[k] = budget[k] - e.budget /\ granted'[k] = granted[k]
      BY <2>4 DEF Admit, OpenMonth, BudgetAt, MonthsInv, TypeOK
    <3> QED BY <1>1, <1>3, <2>1, <2>2, <2>4, <3>1
  <2>5. CASE k = m /\ m \notin opened
    <3>1. budget'[k] = p.budget_init - e.budget /\ granted'[k] = p.budget_init
      BY <2>5 DEF Admit, OpenMonth, BudgetAt, MonthsInv, TypeOK
    <3>2. budget[k] = 0 /\ granted[k] = 0
      BY <2>5 DEF MonthsInv, MonthsOpened
    <3> QED BY <1>1, <1>3, <2>1, <2>2, <2>5, <3>1, <3>2
  <2> QED BY <2>3, <2>4, <2>5
<1> QED BY <1>4, <1>5

LEMMA DenyBudget ==
  ASSUME MonthsInv, NEW p \in Plans, NEW e \in Estimates,
         NEW m \in Months, NEW t \in Clocks, Deny(p, e, m, t)
  PROVE  MonthsOpened' /\ \A k \in Months : Lost(k)' = Lost(k)
<1>1. opened' = opened \cup {m} /\ resv_hash' = resv_hash /\ charged' = charged
  BY DEF Deny, OpenMonth
<1>2. MonthsOpened'
  BY <1>1 DEF Deny, OpenMonth, MonthsInv, MonthsOpened, TypeOK
<1>3. ASSUME NEW k \in Months
      PROVE  Lost(k)' = Lost(k)
  <2> USE DEF Lost
  <2>1. HeldBudget(k)' = HeldBudget(k)
    BY <1>1 DEF HeldBudget
  <2>2. /\ HeldBudget(k) \in Nat /\ budget[k] \in Int /\ charged[k] \in Nat
        /\ granted[k] \in Nat
    BY HeldBudgetType DEF MonthsInv, TypeOK
  <2>3. CASE k # m \/ m \in opened
    <3>1. budget'[k] = budget[k] /\ granted'[k] = granted[k]
      BY <2>3 DEF Deny, OpenMonth, BudgetAt, MonthsInv, TypeOK
    <3> QED BY <1>1, <2>1, <2>2, <3>1
  <2>4. CASE k = m /\ m \notin opened
    <3>1. budget'[k] = p.budget_init /\ granted'[k] = p.budget_init
      BY <2>4 DEF Deny, OpenMonth, BudgetAt, MonthsInv, TypeOK
    <3>2. budget[k] = 0 /\ granted[k] = 0
      BY <2>4 DEF MonthsInv, MonthsOpened
    <3> QED BY <1>1, <2>1, <2>2, <3>1, <3>2, PlansAssumption
  <2> QED BY <2>3, <2>4
<1> QED BY <1>2, <1>3

LEMMA SettleBudget ==
  ASSUME MonthsInv, NEW r \in Requests, NEW u \in Usages, Settle(r, u)
  PROVE  MonthsOpened' /\ \A k \in Months : Lost(k)' = Lost(k)
<1> DEFINE data == resv_hash[r]
           S == {r}
<1>1. /\ r \in DOMAIN resv_hash /\ data.month \in Months /\ data.budget_est \in Nat
      /\ u.budget \in Nat
  BY AmountsAssumption DEF Settle, MonthsInv, TypeOK, ReservationsType, Reservation
<1>2. resv_hash' = Without(resv_hash, S) /\ opened' = opened /\ granted' = granted
  BY DEF Settle
<1>3. MonthsOpened'
  BY <1>1, <1>2 DEF Settle, Without, MonthsInv, MonthsOpened, TypeOK
<1>4. ASSUME NEW k \in Months
      PROVE  Lost(k)' = Lost(k)
  <2> USE DEF Lost
  <2>1. HeldBudget(k)'
          = HeldBudget(k) - Total(BudgetEst(resv_hash), OfMonth(resv_hash, S, k))
    BY <1>1, <1>2, HeldWithout DEF HeldBudget, MonthsInv
  <2>2. /\ HeldBudget(k) \in Nat /\ budget[k] \in Int /\ charged[k] \in Nat
        /\ granted[k] \in Nat
    BY HeldBudgetType DEF MonthsInv, TypeOK
  <2>3. CASE k = data.month
    <3>1. OfMonth(resv_hash, S, k) = {r} /\ BudgetEst(resv_hash)[r] = data.budget_est
      BY <1>1, <2>3 DEF OfMonth, BudgetEst
    <3>2. Total(BudgetEst(resv_hash), {r}) = data.budget_est
      BY <1>1, <3>1, TotalOne
    <3>3. /\ budget'[k] = budget[k] + data.budget_est - u.budget
          /\ charged'[k] = charged[k] + u.budget
      BY <2>3 DEF Settle, MonthsInv, TypeOK
    <3>4. HeldBudget(k)' = HeldBudget(k) - data.budget_est
      BY <2>1, <3>1, <3>2
    <3> QED BY <1>1, <1>2, <2>2, <3>3, <3>4
  <2>4. CASE k # data.month
    <3>1. OfMonth(resv_hash, S, k) = {}
      BY <2>4 DEF OfMonth
    <3>2. Total(BudgetEst(resv_hash), {}) = 0
      BY TotalEmpty
    <3>3. budget'[k] = budget[k] /\ charged'[k] = charged[k]
      BY <2>4 DEF Settle, MonthsInv, TypeOK
    <3>4. HeldBudget(k)' = HeldBudget(k) - 0
      BY <2>1, <3>1, <3>2, Zenon
    <3> QED BY <1>2, <2>2, <3>3, <3>4
  <2> QED BY <2>3, <2>4
<1> QED BY <1>3, <1>4

LEMMA SweepBudget ==
  ASSUME MonthsInv, NEW B, Sweep(B)
  PROVE  MonthsOpened' /\ \A k \in Months : Lost(k)' = Lost(k)
<1> DEFINE live == B \cap DOMAIN resv_hash
           refund(k) == Total(BudgetEst(resv_hash), OfMonth(resv_hash, live, k))
<1>1. live \in SUBSET DOMAIN resv_hash
  OBVIOUS
<1>2. /\ resv_hash' = Without(resv_hash, live)
      /\ opened' = opened /\ granted' = granted /\ charged' = charged
  <2>1. Without(resv_hash, B) = Without(resv_hash, live)
    BY DEF Without
  <2> QED BY <2>1 DEF Sweep
<1>3. \A k \in Months : budget'[k] = budget[k] + refund(k)
  BY DEF Sweep
<1>4. MonthsOpened'
  <2>1. \A q \in DOMAIN resv_hash' : resv_hash'[q].month \in opened'
    BY <1>2 DEF MonthsInv, MonthsOpened, Without
  <2>2. ASSUME NEW k \in Months \ opened
        PROVE  budget'[k] = 0 /\ granted'[k] = 0
    <3>1. OfMonth(resv_hash, live, k) = {}
      BY DEF OfMonth, MonthsInv, MonthsOpened
    <3>2. refund(k) = 0
      BY <3>1, TotalEmpty
    <3> QED BY <1>2, <1>3, <3>2 DEF MonthsInv, MonthsOpened
  <2> QED BY <1>2, <2>1, <2>2 DEF MonthsOpened
<1>5. ASSUME NEW k \in Months
      PROVE  Lost(k)' = Lost(k)
  <2> USE DEF Lost
  <2>1. HeldBudget(k)' = HeldBudget(k) - refund(k)
    BY <1>1, <1>2, HeldWithout DEF HeldBudget, MonthsInv
  <2>2. /\ HeldBudget(k) \in Nat /\ budget[k] \in Int /\ charged[k] \in Nat
        /\ granted[k] \in Nat /\ refund(k) \in Nat
    BY <1>1, HeldBudgetType DEF MonthsInv, TypeOK
  <2> HIDE DEF refund
  <2> QED BY <1>2, <1>3, <2>1, <2>2
<1> QED BY <1>4, <1>5

LEMMA StepMonths ==
  ASSUME MonthsInv, [ScriptNext]_scriptVars
  PROVE  MonthsOpened' /\ \A k \in Months : Lost(k)' >= Lost(k)
<1>1. ASSUME \A k \in Months : Lost(k)' = Lost(k)
      PROVE  \A k \in Months : Lost(k)' >= Lost(k)
  BY <1>1, LostType DEF MonthsInv
<1>2. CASE \E r \in Requests, p \in Plans, e \in Estimates, m \in Months, t \in Clocks :
              Admit(r, p, e, m, t)
  BY <1>2, AdmitBudget
<1>3. CASE \E p \in Plans, e \in Estimates, m \in Months, t \in Clocks : Deny(p, e, m, t)
  <2>1. MonthsOpened' /\ \A k \in Months : Lost(k)' = Lost(k)
    BY <1>3, DenyBudget
  <2> QED BY <1>1, <2>1
<1>4. CASE \E r \in Requests, u \in Usages : Settle(r, u)
  <2>1. MonthsOpened' /\ \A k \in Months : Lost(k)' = Lost(k)
    BY <1>4, SettleBudget
  <2> QED BY <1>1, <2>1
<1>5. CASE \E t \in Clocks : \E B \in Batches(t) : B # {} /\ Sweep(B)
  <2>1. MonthsOpened' /\ \A k \in Months : Lost(k)' = Lost(k)
    BY <1>5, SweepBudget
  <2> QED BY <1>1, <2>1
<1>6. CASE Tick \/ UNCHANGED scriptVars
  <2>1. UNCHANGED <<keys, history>>
    BY <1>6 DEF Tick, scriptVars
  <2>2. MonthsOpened' /\ \A k \in Months : Lost(k)' = Lost(k)
    BY <2>1 DEF keys, history, MonthsInv, MonthsOpened, Lost, HeldBudget
  <2> QED BY <1>1, <2>2
<1> QED BY <1>2, <1>3, <1>4, <1>5, <1>6 DEF ScriptNext

BudgetInv == MonthsInv /\ BudgetConserved

LEMMA StepBudget == BudgetInv /\ [ScriptNext]_scriptVars => BudgetInv'
<1> SUFFICES ASSUME BudgetInv, [ScriptNext]_scriptVars PROVE BudgetInv'
  OBVIOUS
<1>1. MonthsInv /\ TypeOK /\ TypeOK' /\ BudgetConserved
  BY StepType DEF BudgetInv, MonthsInv
<1>2. MonthsOpened' /\ \A k \in Months : Lost(k)' >= Lost(k)
  BY <1>1, StepMonths
<1>3. (TypeOK => /\ \A k \in Months : Lost(k) \in Int
                 /\ BudgetConserved <=> \A k \in Months : Lost(k) >= 0)'
  BY LostType, PTL
<1>4. \A k \in Months : Lost(k) \in Int /\ Lost(k) >= 0
  BY <1>1, LostType
<1>5. \A k \in Months : Lost(k)' >= 0
  BY <1>1, <1>2, <1>3, <1>4
<1> QED BY <1>1, <1>2, <1>3, <1>5 DEF BudgetInv, MonthsInv

LEMMA InitBudget == ScriptInit => BudgetInv
<1> SUFFICES ASSUME ScriptInit PROVE BudgetInv
  OBVIOUS
<1>1. TypeOK
  BY InitType
<1>2. MonthsOpened
  BY DEF ScriptInit, NoEntries, MonthsOpened
<1>3. ASSUME NEW m \in Months PROVE HeldBudget(m) = 0
  <2>1. OfMonth(resv_hash, DOMAIN resv_hash, m) = {}
    BY DEF ScriptInit, NoEntries, OfMonth
  <2> QED BY <2>1, TotalEmpty DEF HeldBudget
<1>4. BudgetConserved
  BY <1>3 DEF ScriptInit, BudgetConserved
<1> QED BY <1>1, <1>2, <1>4 DEF BudgetInv, MonthsInv

(* No month's budget is ever over-refunded, whatever calls are made.       *)
THEOREM ScriptsConserveBudget == ScriptSpec => []BudgetConserved
<1>1. BudgetInv => BudgetConserved
  BY DEF BudgetInv
<1> QED BY <1>1, InitBudget, StepBudget, PTL DEF ScriptSpec

(***************************************************************************)
(* Refunds never overfill the token bucket.                                *)
(***************************************************************************)
(* The bucket exists, hence has a cap, as long as anything is reserved.    *)
TpmInv == /\ TypeOK
          /\ TpmWithinCap
          /\ tpm.cap > 0 \/ DOMAIN resv_hash = {}

LEMMA ReturnedCapped ==
  ASSUME NEW b, BucketType(b), NEW n \in Int, b.cap > 0
  PROVE  Returned(b, n).tokens <= Returned(b, n).cap /\ Returned(b, n).cap = b.cap
<1>1. Returned(b, n) = [tokens |-> Min2(b.cap, b.tokens + n), ts_ms |-> b.ts_ms, cap |-> b.cap]
  BY DEF Returned, BucketType
<1> QED BY <1>1 DEF Min2, BucketType

LEMMA TpmAtCapped ==
  ASSUME TypeOK, NEW p \in Plans, NEW t \in Clocks
  PROVE  TpmAt(p, t).tokens <= TpmAt(p, t).cap /\ TpmAt(p, t).cap > 0
<1>1. p.tpm_cap \in Nat \ {0} /\ p.tpm_rate \in Nat
  BY PlansAssumption
<1>2. Max2(0, t - tpm.ts_ms) \in Nat
  BY DEF Max2, Clocks, TypeOK, BucketType
<1>3. Max2(0, t - tpm.ts_ms) * p.tpm_rate \in Int
  BY <1>1, <1>2
<1> QED BY <1>1, <1>3 DEF TpmAt, Refilled, Min2, TypeOK, BucketType

LEMMA AdmitTpm ==
  ASSUME TpmInv, NEW r \in Requests, NEW p \in Plans, NEW e \in Estimates,
         NEW m \in Months, NEW t \in Clocks, Admit(r, p, e, m, t)
  PROVE  TpmInv'
<1>1. TypeOK'
  BY AdmitType DEF TpmInv
<1>2. BucketType(TpmAt(p, t)) /\ e.tpm \in Nat
  BY BucketsAtType, AmountsAssumption DEF TpmInv
<1>3. TpmAt(p, t).tokens <= TpmAt(p, t).cap /\ TpmAt(p, t).cap > 0
  BY TpmAtCapped DEF TpmInv
<1>4. tpm' = [tokens |-> TpmAt(p, t).tokens - e.tpm, ts_ms |-> TpmAt(p, t).ts_ms,
              cap |-> TpmAt(p, t).cap]
  BY <1>2 DEF Admit, Drawn, BucketType
<1> QED BY <1>1, <1>2, <1>3, <1>4 DEF TpmInv, TpmWithinCap, BucketType

LEMMA SettleTpm ==
  ASSUME TpmInv, NEW r \in Requests, NEW u \in Usages, Settle(r, u)
  PROVE  TpmInv'
<1>1. TypeOK'
  BY SettleType DEF TpmInv
<1>2. BucketType(tpm) /\ tpm.cap > 0
  BY DEF TpmInv, TypeOK, Settle
<1>3. resv_hash[r].tpm_est - u.tpm \in Int
  <2>1. r \in DOMAIN resv_hash
    BY DEF Settle
  <2>2. resv_hash[r] \in Reservation
    BY <2>1 DEF TpmInv, TypeOK, ReservationsType
  <2>3. resv_hash[r].tpm_est \in Nat /\ u.tpm \in Nat
    BY <2>2, AmountsAssumption DEF Reservation
  <2> QED BY <2>3
<1>4. tpm' = Returned(tpm, resv_hash[r].tpm_est - u.tpm)
  BY DEF Settle
<1>5. tpm'.tokens <= tpm'.cap /\ tpm'.cap = tpm.cap
  BY <1>2, <1>3, <1>4, ReturnedCapped
<1> QED BY <1>1, <1>2, <1>5 DEF TpmInv, TpmWithinCap

LEMMA SweepTpm ==
  ASSUME TpmInv, NEW B, Sweep(B)
  PROVE  TpmInv'
<1> DEFINE live == B \cap DOMAIN resv_hash
           refund == Total(TpmEst(resv_hash), live)
<1>1. TypeOK'
  BY SweepType DEF TpmInv
<1>2. BucketType(tpm) /\ refund \in Int
  BY HeldFinite DEF TpmInv, TypeOK
<1>3. tpm' = Returned(tpm, refund) /\ DOMAIN resv_hash' \subseteq DOMAIN resv_hash
  BY DEF Sweep, Without
<1>4. CASE tpm.cap > 0
  <2>1. tpm'.tokens <= tpm'.cap /\ tpm'.cap = tpm.cap
    BY <1>2, <1>3, <1>4, ReturnedCapped
  <2> QED BY <1>1, <1>4, <2>1 DEF TpmInv, TpmWithinCap
<1>5. CASE ~(tpm.cap > 0)
  <2>1. DOMAIN resv_hash = {} /\ live = {} /\ DOMAIN resv_hash' = {}
    BY <1>3, <1>5 DEF TpmInv
  <2>2. refund = 0
    BY <2>1, TotalEmpty
  <2>3. Returned(tpm, 0) = tpm
    BY <1>2, <1>5 DEF Returned, BucketType
  <2> QED BY <1>1, <1>3, <2>1, <2>2, <2>3 DEF TpmInv, TpmWithinCap
<1> QED BY <1>4, <1>5

LEMMA StepTpm == TpmInv /\ [ScriptNext]_scriptVars => TpmInv'
<1> SUFFICES ASSUME TpmInv, [ScriptNext]_scriptVars PROVE TpmInv'
  OBVIOUS
<1>1. CASE \E r \in Requests, p \in Plans, e \in Estimates, m \in Months, t \in Clocks :
              Admit(r, p, e, m, t)
  BY <1>1, AdmitTpm
<1>2. ASSUME NEW p \in Plans, NEW e \in Estimates, NEW m \in Months, NEW t \in Clocks,
             Deny(p, e, m, t)
      PROVE  TpmInv'
  <2>1. TypeOK'
    BY <1>2, DenyType DEF TpmInv
  <2>2. tpm' = TpmAt(p, t)
    BY <1>2 DEF Deny
  <2> QED BY <2>1, <2>2, TpmAtCapped DEF TpmInv, TpmWithinCap
<1>3. CASE \E r \in Requests, u \in Usages : Settle(r, u)
  BY <1>3, SettleTpm
<1>4. CASE \E t \in Clocks : \E B \in Batches(t) : B # {} /\ Sweep(B)
  BY <1>4, SweepTpm
<1>5. CASE Tick \/ UNCHANGED scriptVars
  <2>1. UNCHANGED <<tpm, resv_hash>> /\ TypeOK'
    BY <1>5, StepType DEF Tick, scriptVars, keys, TpmInv
  <2> QED BY <2>1 DEF TpmInv, TpmWithinCap
<1> QED BY <1>1, <1>2, <1>3, <1>4, <1>5 DEF ScriptNext

(* A tenant's burst is at most its tpm cap, however much a settlement or a  *)
(* sweep gives back.                                                        *)
THEOREM ScriptsTpmWithinCap == ScriptSpec => []TpmWithinCap
<1>1. ScriptInit => TpmInv
  BY InitType DEF ScriptInit, NoBucket, NoEntries, TpmInv, TpmWithinCap
<1>2. TpmInv => TpmWithinCap
  BY DEF TpmInv
<1> QED BY <1>1, <1>2, StepTpm, PTL DEF ScriptSpec

(***************************************************************************)
(* The rate limits.                                                        *)
(***************************************************************************)
(* What was spent and what a bucket has is at most a full bucket and the    *)
(* refill up to its last refill.                                            *)
Within(b, spent, cap, rate) ==
    /\ b.ts_ms <= now
    /\ b = NoBucket => spent <= 0
    /\ b # NoBucket => b.cap > 0 /\ b.tokens + spent <= cap + rate * b.ts_ms

LEMMA RefilledWithin ==
  ASSUME NEW b, BucketType(b), NEW spent \in Int, NEW C \in Nat, NEW R \in Nat,
         Within(b, spent, C, R), now \in Nat,
         NEW cap \in 1 .. C, NEW rate \in 0 .. R
  PROVE  LET f == Refilled(b, rate, cap, now)
         IN  /\ f.ts_ms = now /\ f.cap = cap /\ BucketType(f)
             /\ f.tokens + spent <= C + R * now
             /\ b.tokens >= 0 => f.tokens >= 0
<1> DEFINE f == Refilled(b, rate, cap, now)
           past == now - b.ts_ms
<1>1. f.ts_ms = now /\ f.cap = cap /\ BucketType(f)
  BY RefilledType DEF Refilled
<1>2. b.ts_ms \in Nat /\ b.tokens \in Int /\ past \in Nat /\ Max2(0, past) = past
  BY DEF BucketType, Within, Max2
<1>3. R * now \in Nat
  OBVIOUS
<1>4. CASE b = NoBucket
  BY <1>1, <1>3, <1>4 DEF Refilled, Within
<1>5. CASE b # NoBucket
  <2>1. past * rate \in Nat /\ past * rate <= past * R
    BY <1>2
  <2>2. R * now = R * b.ts_ms + past * R
    BY <1>2
  <2>3. f.tokens = Min2(cap, b.tokens + past * rate)
    BY <1>2, <1>5 DEF Refilled
  <2>4. b.tokens + spent <= C + R * b.ts_ms /\ R * b.ts_ms \in Nat
    BY <1>2, <1>5 DEF Within
  <2> DEFINE gain == past * rate
             most == past * R
             base == R * b.ts_ms
  <2>5. most \in Nat
    BY <1>2
  <2> HIDE DEF gain, most, base, f
  <2>6. f.tokens <= b.tokens + gain
    BY <1>2, <2>1, <2>3 DEF Min2, gain
  <2>7. f.tokens \in Int
    BY <1>1 DEF BucketType
  <2>8. f.tokens + spent <= C + R * now
    <3>1. gain \in Nat /\ gain <= most /\ R * now = base + most /\ base \in Nat
      BY <2>1, <2>2, <2>4 DEF gain, most, base
    <3>2. b.tokens + spent <= C + base
      BY <2>4 DEF base
    <3>3. f.tokens + spent <= C + (base + most)
      BY <1>2, <2>5, <2>6, <2>7, <3>1, <3>2
    <3> QED BY <3>1, <3>3
  <2>9. b.tokens >= 0 => f.tokens >= 0
    BY <1>2, <2>1, <2>3 DEF Min2
  <2> QED BY <1>1, <2>8, <2>9 DEF f
<1> QED BY <1>4, <1>5

LEMMA ReturnedWithin ==
  ASSUME NEW b, BucketType(b), NEW spent \in Int, NEW C \in Nat, NEW R \in Nat,
         Within(b, spent, C, R), b.cap > 0, NEW n \in Int
  PROVE  Within(Returned(b, n), spent - n, C, R)
<1>1. Returned(b, n) = [tokens |-> Min2(b.cap, b.tokens + n), ts_ms |-> b.ts_ms, cap |-> b.cap]
  BY DEF Returned, BucketType
<1> DEFINE base == R * b.ts_ms
<1>2. base \in Nat
  BY DEF BucketType
<1>3. b.tokens + spent <= C + base
  BY DEF Within, NoBucket
<1> HIDE DEF base
<1>4. Min2(b.cap, b.tokens + n) + (spent - n) <= C + base
  BY <1>2, <1>3 DEF Min2, BucketType
<1> QED BY <1>1, <1>4 DEF Within, NoBucket, base

(* The plans of the widest limits. *)
Widest(p, q, u, v) ==
    /\ p \in Plans /\ q \in Plans /\ u \in Plans /\ v \in Plans
    /\ \A x \in Plans : /\ x.rpm_cap <= p.rpm_cap /\ x.rpm_rate <= q.rpm_rate
                        /\ x.tpm_cap <= u.tpm_cap /\ x.tpm_rate <= v.tpm_rate

RateInv(p, q, u, v) ==
    /\ TpmInv
    /\ rpm.tokens >= 0
    /\ Within(rpm, admitted, p.rpm_cap, q.rpm_rate)
    /\ Within(tpm, tpm_spent, u.tpm_cap, v.tpm_rate)

LEMMA RefillsWithin ==
  ASSUME NEW p, NEW q, NEW u, NEW v, Widest(p, q, u, v), RateInv(p, q, u, v), NEW x \in Plans
  PROVE  /\ RpmAt(x, now).ts_ms = now /\ RpmAt(x, now).cap > 0
         /\ RpmAt(x, now).tokens + admitted <= p.rpm_cap + q.rpm_rate * now
         /\ RpmAt(x, now).tokens >= 0
         /\ TpmAt(x, now).ts_ms = now /\ TpmAt(x, now).cap > 0
         /\ TpmAt(x, now).tokens + tpm_spent <= u.tpm_cap + v.tpm_rate * now
         /\ BucketType(RpmAt(x, now)) /\ BucketType(TpmAt(x, now))
<1>1. /\ BucketType(rpm) /\ BucketType(tpm)
      /\ admitted \in Int /\ tpm_spent \in Int /\ now \in Nat
  BY DEF RateInv, TpmInv, TypeOK
<1>2. /\ p.rpm_cap \in Nat /\ q.rpm_rate \in Nat /\ u.tpm_cap \in Nat /\ v.tpm_rate \in Nat
      /\ x.rpm_cap \in 1 .. p.rpm_cap /\ x.rpm_rate \in 0 .. q.rpm_rate
      /\ x.tpm_cap \in 1 .. u.tpm_cap /\ x.tpm_rate \in 0 .. v.tpm_rate
  BY PlansAssumption DEF Widest
<1>3. LET f == Refilled(rpm, x.rpm_rate, x.rpm_cap, now)
      IN  /\ f.ts_ms = now /\ f.cap = x.rpm_cap /\ BucketType(f)
          /\ f.tokens + admitted <= p.rpm_cap + q.rpm_rate * now
          /\ rpm.tokens >= 0 => f.tokens >= 0
  BY <1>1, <1>2, RefilledWithin DEF RateInv
<1>4. LET f == Refilled(tpm, x.tpm_rate, x.tpm_cap, now)
      IN  /\ f.ts_ms = now /\ f.cap = x.tpm_cap /\ BucketType(f)
          /\ f.tokens + tpm_spent <= u.tpm_cap + v.tpm_rate * now
          /\ tpm.tokens >= 0 => f.tokens >= 0
  BY <1>1, <1>2, RefilledWithin DEF RateInv
<1> QED BY <1>2, <1>3, <1>4 DEF RpmAt, TpmAt, RateInv

(* A bucket just refilled, from which n was taken and spent. *)
LEMMA DrawnWithin ==
  ASSUME NEW b, BucketType(b), b.ts_ms = now, b.cap > 0, NEW spent \in Int, NEW C \in Nat,
         NEW R \in Nat, now \in Nat, b.tokens + spent <= C + R * now, NEW n \in Nat
  PROVE  Within(Drawn(b, n), spent + n, C, R) /\ Within(b, spent, C, R)
<1> DEFINE base == R * now
<1>1. Drawn(b, n) = [tokens |-> b.tokens - n, ts_ms |-> b.ts_ms, cap |-> b.cap]
  BY DEF Drawn, BucketType
<1>2. base \in Nat /\ b.tokens + spent <= C + base
  OBVIOUS
<1> HIDE DEF base
<1>3. (b.tokens - n) + (spent + n) <= C + base
  BY <1>2 DEF BucketType
<1>4. Within(Drawn(b, n), spent + n, C, R)
  BY <1>1, <1>3 DEF Within, NoBucket, base
<1>5. Within(b, spent, C, R)
  BY DEF Within, NoBucket
<1> QED BY <1>4, <1>5

LEMMA StepRate ==
  ASSUME NEW p, NEW q, NEW u, NEW v, Widest(p, q, u, v), MaxSkew = 0
  PROVE  RateInv(p, q, u, v) /\ [ScriptNext]_scriptVars => RateInv(p, q, u, v)'
<1> SUFFICES ASSUME RateInv(p, q, u, v), [ScriptNext]_scriptVars
             PROVE  /\ rpm'.tokens >= 0
                    /\ Within(rpm, admitted, p.rpm_cap, q.rpm_rate)'
                    /\ Within(tpm, tpm_spent, u.tpm_cap, v.tpm_rate)'
  BY StepTpm DEF RateInv
<1>1. /\ BucketType(rpm) /\ BucketType(tpm)
      /\ admitted \in Int /\ tpm_spent \in Int /\ now \in Nat
  BY DEF RateInv, TpmInv, TypeOK
<1>2. /\ p.rpm_cap \in Nat /\ q.rpm_rate \in Nat /\ u.tpm_cap \in Nat /\ v.tpm_rate \in Nat
  BY PlansAssumption DEF Widest
<1>3. \A t \in Clocks : t = now
  BY <1>1 DEF Clocks
<1>4. ASSUME NEW r \in Requests, NEW x \in Plans, NEW e \in Estimates, NEW m \in Months,
             Admit(r, x, e, m, now)
      PROVE  /\ rpm'.tokens >= 0
             /\ Within(rpm, admitted, p.rpm_cap, q.rpm_rate)'
             /\ Within(tpm, tpm_spent, u.tpm_cap, v.tpm_rate)'
  <2>1. /\ rpm' = Drawn(RpmAt(x, now), 1) /\ tpm' = Drawn(TpmAt(x, now), e.tpm)
        /\ admitted' = admitted + 1 /\ tpm_spent' = tpm_spent + e.tpm /\ now' = now
        /\ RpmAt(x, now).tokens >= 1 /\ e.tpm \in Nat
    BY <1>4, AmountsAssumption DEF Admit, Fits
  <2>2. Within(Drawn(RpmAt(x, now), 1), admitted + 1, p.rpm_cap, q.rpm_rate)
    BY <1>1, <1>2, RefillsWithin, DrawnWithin
  <2>3. Within(Drawn(TpmAt(x, now), e.tpm), tpm_spent + e.tpm, u.tpm_cap, v.tpm_rate)
    BY <1>1, <1>2, <2>1, RefillsWithin, DrawnWithin
  <2>4. rpm'.tokens >= 0
    <3>1. BucketType(RpmAt(x, now))
      BY RefillsWithin
    <3> QED BY <2>1, <3>1 DEF Drawn, BucketType
  <2> QED BY <2>1, <2>2, <2>3, <2>4 DEF Within
<1>5. ASSUME NEW x \in Plans, NEW e \in Estimates, NEW m \in Months, Deny(x, e, m, now)
      PROVE  /\ rpm'.tokens >= 0
             /\ Within(rpm, admitted, p.rpm_cap, q.rpm_rate)'
             /\ Within(tpm, tpm_spent, u.tpm_cap, v.tpm_rate)'
  <2>1. /\ rpm' = RpmAt(x, now) /\ tpm' = TpmAt(x, now)
        /\ admitted' = admitted /\ tpm_spent' = tpm_spent /\ now' = now
    BY <1>5 DEF Deny
  <2>2. /\ Within(RpmAt(x, now), admitted, p.rpm_cap, q.rpm_rate)
        /\ Within(TpmAt(x, now), tpm_spent, u.tpm_cap, v.tpm_rate)
    BY <1>1, <1>2, RefillsWithin, DrawnWithin
  <2> QED BY <2>1, <2>2, RefillsWithin DEF Within
<1>6. ASSUME NEW n \in Int, tpm' = Returned(tpm, n), tpm_spent' = tpm_spent - n,
             UNCHANGED <<rpm, admitted, now>>, tpm.cap > 0
      PROVE  /\ rpm'.tokens >= 0
             /\ Within(rpm, admitted, p.rpm_cap, q.rpm_rate)'
             /\ Within(tpm, tpm_spent, u.tpm_cap, v.tpm_rate)'
  <2>1. Within(Returned(tpm, n), tpm_spent - n, u.tpm_cap, v.tpm_rate)
    BY <1>1, <1>2, <1>6, ReturnedWithin DEF RateInv
  <2> QED BY <1>6, <2>1 DEF RateInv, Within
<1>7. ASSUME UNCHANGED <<rpm, admitted, tpm, tpm_spent>>, now' \in Nat, now <= now'
      PROVE  /\ rpm'.tokens >= 0
             /\ Within(rpm, admitted, p.rpm_cap, q.rpm_rate)'
             /\ Within(tpm, tpm_spent, u.tpm_cap, v.tpm_rate)'
  BY <1>1, <1>7 DEF RateInv, Within, BucketType
<1>8. ASSUME NEW r \in Requests, NEW y \in Usages, Settle(r, y)
      PROVE  /\ rpm'.tokens >= 0
             /\ Within(rpm, admitted, p.rpm_cap, q.rpm_rate)'
             /\ Within(tpm, tpm_spent, u.tpm_cap, v.tpm_rate)'
  <2> DEFINE n == resv_hash[r].tpm_est - y.tpm
  <2>1. n \in Int
    BY <1>8, AmountsAssumption
       DEF Settle, RateInv, TpmInv, TypeOK, ReservationsType, Reservation
  <2>2. /\ tpm' = Returned(tpm, n) /\ tpm_spent' = tpm_spent - n
        /\ UNCHANGED <<rpm, admitted, now>>
    BY <1>8 DEF Settle
  <2>3. tpm.cap > 0
    BY <1>8 DEF Settle, RateInv, TpmInv
  <2> HIDE DEF n
  <2> QED BY <1>6, <2>1, <2>2, <2>3
<1>9. ASSUME NEW B, Sweep(B)
      PROVE  /\ rpm'.tokens >= 0
             /\ Within(rpm, admitted, p.rpm_cap, q.rpm_rate)'
             /\ Within(tpm, tpm_spent, u.tpm_cap, v.tpm_rate)'
  <2> DEFINE live == B \cap DOMAIN resv_hash
             n == Total(TpmEst(resv_hash), live)
  <2>1. n \in Int
    <3>1. live \in SUBSET DOMAIN resv_hash
      OBVIOUS
    <3> HIDE DEF live
    <3> QED BY <3>1, HeldFinite DEF RateInv, TpmInv
  <2>2. /\ tpm' = Returned(tpm, n) /\ tpm_spent' = tpm_spent - n
        /\ UNCHANGED <<rpm, admitted, now>>
    BY <1>9 DEF Sweep
  <2>3. CASE tpm.cap > 0
    <3> HIDE DEF n
    <3> QED BY <1>6, <2>1, <2>2, <2>3
  <2>4. CASE ~(tpm.cap > 0)
    <3>1. live = {}
      BY <2>4 DEF RateInv, TpmInv
    <3>2. n = 0
      BY <3>1, TotalEmpty
    <3>3. Returned(tpm, 0) = tpm
      BY <1>1, <2>4 DEF Returned, BucketType
    <3> HIDE DEF n
    <3>4. UNCHANGED <<rpm, admitted, tpm, tpm_spent>> /\ now' = now
      BY <1>1, <2>2, <3>2, <3>3
    <3> QED BY <1>1, <1>7, <3>4
  <2> QED BY <2>3, <2>4
<1>10. CASE Tick
  BY <1>1, <1>7, <1>10 DEF Tick, keys, history
<1>11. CASE UNCHANGED scriptVars
  BY <1>1, <1>7, <1>11 DEF scriptVars, keys, history
<1> QED BY <1>3, <1>4, <1>5, <1>8, <1>9, <1>10, <1>11 DEF ScriptNext

(* The rate limits hold whatever calls are made, if the gateways' clocks    *)
(* agree and there is a plan of the widest limits.                          *)
THEOREM ScriptsBoundRates ==
  ASSUME MaxSkew = 0, \E p, q, u, v \in Plans : Widest(p, q, u, v)
  PROVE  ScriptSpec => []RateBounded
<1> PICK p \in Plans, q \in Plans, u \in Plans, v \in Plans : Widest(p, q, u, v)
  OBVIOUS
<1>1. ScriptInit => RateInv(p, q, u, v)
  <2> SUFFICES ASSUME ScriptInit PROVE RateInv(p, q, u, v)
    OBVIOUS
  <2>1. TpmInv
    BY InitType DEF ScriptInit, NoBucket, NoEntries, TpmInv, TpmWithinCap
  <2> QED BY <2>1 DEF ScriptInit, RateInv, Within, NoBucket
<1>2. RateInv(p, q, u, v) => RateBounded
  <2> SUFFICES ASSUME RateInv(p, q, u, v) PROVE RateBounded
    OBVIOUS
  <2>1. /\ BucketType(rpm) /\ BucketType(tpm)
        /\ admitted \in Int /\ tpm_spent \in Int /\ now \in Nat
    BY DEF RateInv, TpmInv, TypeOK
  <2>2. ASSUME NEW b, BucketType(b), NEW spent \in Int, NEW C \in Nat \ {0}, NEW R \in Nat,
               Within(b, spent, C, R)
        PROVE  b.tokens + spent <= C + R * now
    <3>1. b.ts_ms \in Nat /\ R * b.ts_ms <= R * now /\ R * b.ts_ms \in Nat /\ R * now \in Nat
      BY <2>1, <2>2 DEF BucketType, Within
    <3>2. CASE b = NoBucket
      BY <2>2, <3>1, <3>2 DEF Within, NoBucket
    <3>3. CASE b # NoBucket
      <4> DEFINE now_base == R * now
                 base == R * b.ts_ms
      <4>1. b.tokens + spent <= C + base /\ base <= now_base /\ base \in Nat /\ now_base \in Nat
        BY <2>2, <3>1, <3>3 DEF Within
      <4> HIDE DEF base, now_base
      <4>2. b.tokens + spent <= C + now_base
        BY <2>2, <4>1 DEF BucketType
      <4> QED BY <4>2 DEF now_base
    <3> QED BY <3>2, <3>3
  <2>3. /\ p.rpm_cap \in Nat \ {0} /\ q.rpm_rate \in Nat
        /\ u.tpm_cap \in Nat \ {0} /\ v.tpm_rate \in Nat
    BY PlansAssumption
  <2>4. rpm.tokens + admitted <= p.rpm_cap + q.rpm_rate * now
    BY <2>1, <2>2, <2>3 DEF RateInv
  <2>5. tpm.tokens + tpm_spent <= u.tpm_cap + v.tpm_rate * now
    BY <2>1, <2>2, <2>3 DEF RateInv
  <2> QED BY <2>4, <2>5 DEF RateInv, RateBounded
<1>3. RateInv(p, q, u, v) /\ [ScriptNext]_scriptVars => RateInv(p, q, u, v)'
  BY StepRate
<1> QED BY <1>1, <1>2, <1>3, PTL DEF ScriptSpec

(***************************************************************************)
(* The request rate of any stretch of time                                 *)
(***************************************************************************)
(* Since the clock was T and a requests had been admitted, the bucket was   *)
(* not refilled, or what was admitted since is paid by it.                  *)
Windowed(p, q, a, T) ==
    /\ T <= now
    /\ \/ admitted = a /\ (rpm = NoBucket \/ rpm.ts_ms < T)
       \/ rpm # NoBucket /\ Within(rpm, admitted - a + q.rpm_rate * T, p.rpm_cap, q.rpm_rate)

FullInv(p, q, u, v) == RateInv(p, q, u, v) /\ rpm.tokens <= p.rpm_cap

(* What a refill now leaves for the requests admitted since T. *)
LEMMA RefillWindowed ==
  ASSUME NEW p, NEW q, NEW u, NEW v, Widest(p, q, u, v), FullInv(p, q, u, v), NEW x \in Plans
  PROVE  /\ RpmAt(x, now).tokens <= p.rpm_cap
         /\ \A a, T \in Nat : Windowed(p, q, a, T) =>
               RpmAt(x, now).tokens + (admitted - a + q.rpm_rate * T)
                  <= p.rpm_cap + q.rpm_rate * now
<1>1. /\ BucketType(rpm) /\ admitted \in Int /\ now \in Nat
      /\ BucketType(RpmAt(x, now))
  BY RefillsWithin DEF FullInv, RateInv, TpmInv, TypeOK
<1>2. /\ p.rpm_cap \in Nat /\ q.rpm_rate \in Nat
      /\ x.rpm_cap \in 1 .. p.rpm_cap /\ x.rpm_rate \in 0 .. q.rpm_rate
  BY PlansAssumption DEF Widest
<1>3. RpmAt(x, now).tokens <= p.rpm_cap
  <2>1. /\ rpm = NoBucket => RpmAt(x, now).tokens = x.rpm_cap
        /\ rpm # NoBucket => RpmAt(x, now).tokens
                               = Min2(x.rpm_cap, rpm.tokens + Max2(0, now - rpm.ts_ms) * x.rpm_rate)
    BY DEF RpmAt, Refilled
  <2>2. rpm.tokens + Max2(0, now - rpm.ts_ms) * x.rpm_rate \in Int
    BY <1>1, <1>2 DEF BucketType, Max2
  <2> QED BY <1>2, <2>1, <2>2 DEF Min2
<1>4. ASSUME NEW a \in Nat, NEW T \in Nat, Windowed(p, q, a, T)
      PROVE  RpmAt(x, now).tokens + (admitted - a + q.rpm_rate * T)
                <= p.rpm_cap + q.rpm_rate * now
  <2>1. q.rpm_rate * T \in Nat /\ q.rpm_rate * now \in Nat /\ q.rpm_rate * T <= q.rpm_rate * now
    BY <1>1, <1>2, <1>4 DEF Windowed
  <2> DEFINE base == q.rpm_rate * T
             far == q.rpm_rate * now
  <2>2. CASE admitted = a
    <3> HIDE DEF base, far
    <3>1. RpmAt(x, now).tokens \in Int /\ base \in Nat /\ far \in Nat /\ base <= far
      BY <1>1, <2>1 DEF BucketType, base, far
    <3>2. RpmAt(x, now).tokens + (admitted - a + base) <= p.rpm_cap + far
      BY <1>1, <1>2, <1>3, <2>2, <3>1
    <3> QED BY <3>2 DEF base, far
  <2>3. CASE Within(rpm, admitted - a + base, p.rpm_cap, q.rpm_rate)
    <3>1. admitted - a + base \in Int
      BY <1>1, <2>1
    <3> HIDE DEF base
    <3>2. RpmAt(x, now).tokens + (admitted - a + base) <= p.rpm_cap + q.rpm_rate * now
      BY <1>1, <1>2, <2>3, <3>1, RefilledWithin DEF RpmAt
    <3> QED BY <3>2 DEF base
  <2> QED BY <1>4, <2>2, <2>3 DEF Windowed
<1> QED BY <1>3, <1>4

(* Every script but check_and_reserve leaves the request bucket alone. *)
LEMMA RpmSteps ==
  ASSUME NEW p, NEW q, NEW u, NEW v, RateInv(p, q, u, v), MaxSkew = 0, [ScriptNext]_scriptVars
  PROVE  \/ \E x \in Plans : /\ now' = now
                             /\ \/ /\ rpm' = Drawn(RpmAt(x, now), 1) /\ admitted' = admitted + 1
                                   /\ RpmAt(x, now).tokens >= 1
                                \/ rpm' = RpmAt(x, now) /\ admitted' = admitted
         \/ UNCHANGED <<rpm, admitted>> /\ now' \in {now, now + 1}
<1>1. \A t \in Clocks : t = now
  BY DEF Clocks, RateInv, TpmInv, TypeOK
<1>2. ASSUME NEW r \in Requests, NEW x \in Plans, NEW e \in Estimates, NEW m \in Months,
             NEW t \in Clocks, Admit(r, x, e, m, t)
      PROVE  /\ now' = now /\ rpm' = Drawn(RpmAt(x, now), 1) /\ admitted' = admitted + 1
             /\ RpmAt(x, now).tokens >= 1
  BY <1>1, <1>2 DEF Admit, Fits
<1>3. ASSUME NEW x \in Plans, NEW e \in Estimates, NEW m \in Months, NEW t \in Clocks,
             Deny(x, e, m, t)
      PROVE  now' = now /\ rpm' = RpmAt(x, now) /\ admitted' = admitted
  BY <1>1, <1>3 DEF Deny
<1>4. ASSUME \/ \E r \in Requests, y \in Usages : Settle(r, y)
             \/ \E B : Sweep(B)
             \/ Tick
             \/ UNCHANGED scriptVars
      PROVE  UNCHANGED <<rpm, admitted>> /\ now' \in {now, now + 1}
  BY <1>4 DEF Settle, Sweep, Tick, keys, history, scriptVars
<1> QED BY <1>2, <1>3, <1>4 DEF ScriptNext

LEMMA FullStep ==
  ASSUME NEW p, NEW q, NEW u, NEW v, Widest(p, q, u, v), MaxSkew = 0
  PROVE  FullInv(p, q, u, v) /\ [ScriptNext]_scriptVars => FullInv(p, q, u, v)'
<1> SUFFICES ASSUME FullInv(p, q, u, v), [ScriptNext]_scriptVars
             PROVE  rpm'.tokens <= p.rpm_cap
  BY StepRate DEF FullInv
<1>1. p.rpm_cap \in Nat /\ \A x \in Plans : BucketType(RpmAt(x, now))
  BY PlansAssumption, RefillsWithin DEF Widest, FullInv
<1>2. \A x \in Plans : RpmAt(x, now).tokens <= p.rpm_cap
  BY RefillWindowed
<1>3. ASSUME NEW x \in Plans, rpm' = Drawn(RpmAt(x, now), 1) PROVE rpm'.tokens <= p.rpm_cap
  BY <1>1, <1>2, <1>3 DEF Drawn, BucketType
<1> QED BY <1>2, <1>3, RpmSteps DEF FullInv

LEMMA WindowStep ==
  ASSUME NEW p, NEW q, NEW u, NEW v, Widest(p, q, u, v), MaxSkew = 0, NEW a \in Nat, NEW T \in Nat
  PROVE  FullInv(p, q, u, v) /\ Windowed(p, q, a, T) /\ [ScriptNext]_scriptVars
            => Windowed(p, q, a, T)'
<1> SUFFICES ASSUME FullInv(p, q, u, v), Windowed(p, q, a, T), [ScriptNext]_scriptVars
             PROVE  Windowed(p, q, a, T)'
  OBVIOUS
<1>1. /\ BucketType(rpm) /\ admitted \in Int /\ now \in Nat /\ T <= now
      /\ p.rpm_cap \in Nat /\ q.rpm_rate \in Nat
  BY PlansAssumption DEF FullInv, RateInv, TpmInv, TypeOK, Windowed, Widest
<1> DEFINE spent == admitted - a + q.rpm_rate * T
<1>2. spent \in Int
  BY <1>1
<1>3. ASSUME NEW x \in Plans
      PROVE  /\ Within(Drawn(RpmAt(x, now), 1), spent + 1, p.rpm_cap, q.rpm_rate)
             /\ Within(RpmAt(x, now), spent, p.rpm_cap, q.rpm_rate)
             /\ Drawn(RpmAt(x, now), 1) # NoBucket /\ RpmAt(x, now) # NoBucket
  <2>1. /\ BucketType(RpmAt(x, now)) /\ RpmAt(x, now).ts_ms = now /\ RpmAt(x, now).cap > 0
        /\ RpmAt(x, now).tokens + spent <= p.rpm_cap + q.rpm_rate * now
    BY RefillsWithin, RefillWindowed DEF FullInv
  <2>2. Drawn(RpmAt(x, now), 1).cap = RpmAt(x, now).cap
    BY <2>1 DEF Drawn, BucketType
  <2> HIDE DEF spent
  <2> QED BY <1>1, <1>2, <2>1, <2>2, DrawnWithin DEF NoBucket
<1>4. CASE \E x \in Plans : /\ now' = now
                            /\ rpm' = Drawn(RpmAt(x, now), 1) /\ admitted' = admitted + 1
  <2>1. admitted' - a + q.rpm_rate * T = spent + 1
    BY <1>1, <1>4
  <2> HIDE DEF spent
  <2> QED BY <1>1, <1>3, <1>4, <2>1 DEF Windowed, Within
<1>5. CASE \E x \in Plans : now' = now /\ rpm' = RpmAt(x, now) /\ admitted' = admitted
  BY <1>1, <1>3, <1>5 DEF Windowed, Within
<1>6. CASE UNCHANGED <<rpm, admitted>> /\ now' \in {now, now + 1}
  BY <1>1, <1>6 DEF Windowed, Within, BucketType
<1> QED BY <1>4, <1>5, <1>6, RpmSteps DEF FullInv

(* In any stretch of time, not only from the first request on, a tenant has *)
(* at most a full bucket of requests admitted and the refill of that time,  *)
(* whatever calls are made and refused, if the gateways' clocks agree.      *)
THEOREM AnyWindowRate ==
  ASSUME MaxSkew = 0, NEW p, NEW q, NEW u, NEW v, Widest(p, q, u, v),
         NEW a \in Nat, NEW T \in Nat
  PROVE  ScriptSpec => [](now = T /\ admitted = a
                            => [](admitted - a <= p.rpm_cap + q.rpm_rate * (now - T)))
<1>1. ScriptInit => FullInv(p, q, u, v)
  <2> SUFFICES ASSUME ScriptInit PROVE FullInv(p, q, u, v)
    OBVIOUS
  <2>1. TpmInv
    BY InitType DEF ScriptInit, NoBucket, NoEntries, TpmInv, TpmWithinCap
  <2>2. p.rpm_cap \in Nat
    BY PlansAssumption DEF Widest
  <2> QED BY <2>1, <2>2 DEF ScriptInit, FullInv, RateInv, Within, NoBucket
<1>2. FullInv(p, q, u, v) /\ [ScriptNext]_scriptVars => FullInv(p, q, u, v)'
  BY FullStep
<1>3. FullInv(p, q, u, v) /\ now = T /\ admitted = a => Windowed(p, q, a, T)
  <2> SUFFICES ASSUME FullInv(p, q, u, v), now = T, admitted = a PROVE Windowed(p, q, a, T)
    OBVIOUS
  <2>1. /\ BucketType(rpm) /\ rpm.ts_ms <= now /\ rpm.tokens <= p.rpm_cap
        /\ rpm # NoBucket => rpm.cap > 0
        /\ p.rpm_cap \in Nat /\ q.rpm_rate \in Nat
    BY PlansAssumption DEF FullInv, RateInv, TpmInv, TypeOK, Within, Widest
  <2>2. CASE rpm # NoBucket /\ rpm.ts_ms = T
    <3> DEFINE base == q.rpm_rate * T
    <3>1. base \in Nat
      BY <2>1
    <3> HIDE DEF base
    <3>2. rpm.tokens + (admitted - a + base) <= p.rpm_cap + base
      BY <2>1, <3>1 DEF BucketType
    <3> QED BY <2>1, <2>2, <3>2 DEF Windowed, Within, base
  <2>3. CASE rpm.ts_ms # T
    <3>1. rpm.ts_ms < T
      BY <2>1, <2>3 DEF BucketType
    <3> QED BY <2>1, <3>1 DEF Windowed
  <2>4. CASE rpm = NoBucket
    BY <2>1, <2>4 DEF Windowed
  <2> QED BY <2>2, <2>3, <2>4
<1>4. FullInv(p, q, u, v) /\ Windowed(p, q, a, T) /\ [ScriptNext]_scriptVars
         => Windowed(p, q, a, T)'
  BY WindowStep
<1>5. FullInv(p, q, u, v) /\ Windowed(p, q, a, T)
         => admitted - a <= p.rpm_cap + q.rpm_rate * (now - T)
  <2> SUFFICES ASSUME FullInv(p, q, u, v), Windowed(p, q, a, T)
               PROVE  admitted - a <= p.rpm_cap + q.rpm_rate * (now - T)
    OBVIOUS
  <2>1. /\ BucketType(rpm) /\ rpm.tokens >= 0 /\ now \in Nat /\ T <= now /\ admitted \in Int
        /\ p.rpm_cap \in Nat /\ q.rpm_rate \in Nat
    BY PlansAssumption DEF FullInv, RateInv, TpmInv, TypeOK, Windowed, Widest
  <2> DEFINE base == q.rpm_rate * T
             far == q.rpm_rate * now
             upto == q.rpm_rate * rpm.ts_ms
  <2>2. q.rpm_rate * (now - T) = far - base /\ far \in Nat /\ base \in Nat /\ base <= far
    BY <2>1
  <2>3. CASE admitted = a
    <3> HIDE DEF base, far
    <3> QED BY <2>1, <2>2, <2>3
  <2>4. CASE Within(rpm, admitted - a + base, p.rpm_cap, q.rpm_rate) /\ rpm # NoBucket
    <3>1. rpm.ts_ms <= now /\ rpm.tokens + (admitted - a + base) <= p.rpm_cap + upto
      BY <2>4 DEF Within
    <3>2. upto \in Nat /\ upto <= far
      BY <2>1, <3>1 DEF BucketType
    <3> HIDE DEF base, far, upto
    <3> QED BY <2>1, <2>2, <3>1, <3>2 DEF BucketType
  <2> QED BY <2>3, <2>4 DEF Windowed
<1> QED BY <1>1, <1>2, <1>3, <1>4, <1>5, PTL DEF ScriptSpec
=============================================================================
