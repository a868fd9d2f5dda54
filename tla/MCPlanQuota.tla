----------------------------- MODULE MCPlanQuota -----------------------------
(***************************************************************************)
(* Small instances of PlanQuota: three tiers, 5 dollars apart, and        *)
(* allowances of one or two messages, so that few sends climb them all.   *)
(***************************************************************************)
EXTENDS PlanQuota, TLC

CONSTANTS a, b

MCLimitOf == [t \in Tiers |-> IF t = Top THEN 2 ELSE 1]
MCPriceOf == [t \in Tiers |-> 5 * t]

Symmetry == Permutations(Callers)
=============================================================================
