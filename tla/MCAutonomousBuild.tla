-------------------------- MODULE MCAutonomousBuild --------------------------
(* Instances of AutonomousBuild for TLC.                                   *)
EXTENDS AutonomousBuild, TLC

\* Every plan with at most two changes, contradictory ones included.
PairPlans == {plans \in SUBSET PlannedChange : Cardinality(plans) <= 2}

=============================================================================
