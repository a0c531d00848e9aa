--------------------------- MODULE MCQuotaService ---------------------------
(* QuotaService for TLC: a plan with one concurrent stream and one with two *)
(* (a reload changes the plan), whose rates do not get in the way, usages   *)
(* below and above the estimate, and a month that ends while reservations   *)
(* are held.                                                                *)
EXTENDS QuotaService

Plan(streams) ==
    [rpm_cap |-> 9, rpm_rate |-> 0, tpm_cap |-> 9, tpm_rate |-> 0,
     conc_cap |-> streams, budget_init |-> 5]

MCPlans == {Plan(1), Plan(2)}

MCEstimates == {[tpm |-> 1, budget |-> 2]}
MCUsages == {[tpm |-> 0, budget |-> 0], [tpm |-> 2, budget |-> 3]}

MCCalendar == [t \in 0 .. MaxTime |-> IF t = 0 THEN "june" ELSE "july"]
=============================================================================
