------------------------------ MODULE MCFindings ------------------------------
(***************************************************************************)
(* Four models of what Ovid concludes that share no state: the runs of one    *)
(* group intervention merged (Intervention), the labels of a workload with   *)
(* known needs (ProveTruth), a repository's declarations (Inspect) and its    *)
(* commands (Planner).  A behaviour is of one of them; the others stay in an   *)
(* initial state.                                                           *)
(***************************************************************************)
EXTENDS MCIntervention, MCTruth, MCInspect

VARIABLE of

IdleAnalysis ==
  /\ Init
  /\ nature = [needs |-> {}, probes |-> {}, up |-> Dep, refused |-> {}]
  /\ policy.max_trials = 4 /\ caps.per_dependency_egress

FindingsInit ==
  \/ of = "intervention" /\ InterventionInit /\ IdleAnalysis /\ IdleInspect /\ IdlePlanner
  \/ of = "labels" /\ InterventionInit /\ Init /\ IdleInspect /\ IdlePlanner
  \/ of = "declarations" /\ InterventionInit /\ IdleAnalysis /\ InspectInit /\ IdlePlanner
  \/ of = "commands" /\ InterventionInit /\ IdleAnalysis /\ IdleInspect /\ PlannerInit

FindingsNext ==
  \/ of = "intervention" /\ InterventionNext /\ UNCHANGED <<of, vars, inspectVars, plannerVars>>
  \/ of = "labels" /\ Next /\ UNCHANGED <<of, interventionVars, inspectVars, plannerVars>>
  \/ of = "declarations" /\ InspectNext /\ UNCHANGED <<of, interventionVars, vars, plannerVars>>
  \/ of = "commands" /\ PlannerNext /\ UNCHANGED <<of, interventionVars, vars, inspectVars>>

FindingsSpec ==
  FindingsInit /\ [][FindingsNext]_<<of, interventionVars, vars, inspectVars, plannerVars>>
=============================================================================
