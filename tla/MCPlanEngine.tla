---------------------------- MODULE MCPlanEngine ----------------------------
(***************************************************************************)
(* A small instance of PlanEngine: one tenant, whose clients pay, renew,   *)
(* consume and are assigned plans at the same time.                        *)
(***************************************************************************)
EXTENDS PlanEngine, TLC

CONSTANTS shop, basic, free, o1, o2

\* Two purchases of the same plan, monthly and yearly.
MCAsked ==
    o1 :> [tenant |-> shop, plan |-> basic, cycle |-> "monthly"] @@
    o2 :> [tenant |-> shop, plan |-> basic, cycle |-> "yearly"]

MCLength == [monthly |-> 2, yearly |-> 3]

MCBuiltin == basic :> 1

MCLimits == {1}

\* Without end, or until the second unit of time.
MCExpiries == {0, 2}

MCSymmetry == Permutations(Clients)

=============================================================================
