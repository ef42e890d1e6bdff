------------------------------- MODULE MCAccess -------------------------------
EXTENDS Requests, TLC

CONSTANTS basicPlan, proPlan, trialPlan, o, u, v

PlansMC == {basicPlan, proPlan, trialPlan}
MaxMembersMC == (basicPlan :> 2) @@ (proPlan :> -1) @@ (trialPlan :> 3)
MaxCollaboratorsMC == (basicPlan :> 0) @@ (proPlan :> 1) @@ (trialPlan :> -1)

Symmetry == Permutations({u, v})
=============================================================================
