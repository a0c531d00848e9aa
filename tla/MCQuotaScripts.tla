--------------------------- MODULE MCQuotaScripts ---------------------------
(* QuotaScripts for TLC: two plans of one tenant (a reload changes the plan), *)
(* two estimates, and usages below and above them.                            *)
EXTENDS QuotaScripts, TLC

MCPlans ==
    {[rpm_cap |-> 2, rpm_rate |-> 1, tpm_cap |-> 4, tpm_rate |-> 1,
      conc_cap |-> 2, budget_init |-> 4],
     [rpm_cap |-> 1, rpm_rate |-> 1, tpm_cap |-> 3, tpm_rate |-> 0,
      conc_cap |-> 1, budget_init |-> 3]}

MCEstimates == {[tpm |-> 1, budget |-> 2], [tpm |-> 3, budget |-> 1]}
MCUsages == {[tpm |-> 0, budget |-> 0], [tpm |-> 3, budget |-> 3]}

Symmetry == Permutations(Requests) \cup Permutations(Months)
=============================================================================
