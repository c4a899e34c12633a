---------------------------- MODULE Intervention ----------------------------
(***************************************************************************)
(* One group intervention as its evidence comes in: a baseline run by run, *)
(* then variant runs of one treatment, each with what the observer saw.    *)
(* The code classifies once, after the last run; here the rules of         *)
(* Classify are applied after every run, so that what one more run may do  *)
(* to a label can be stated.                                               *)
(***************************************************************************)
EXTENDS Classify

CONSTANTS
  MaxRuns,     \* variant runs considered
  Sightings    \* what one run may report of a service

ASSUME MaxRunsAssumption == MaxRuns \in Nat
ASSUME SightingsAssumption == Sightings \subseteq Sighting

VARIABLES
  outcomes,    \* outcomes of the baseline runs
  variants,      \* records of the variant runs
  history,     \* what each variant run saw
  merged       \* the merged observations, kept run by run

interventionVars == <<outcomes, variants, history, merged>>

InterventionInit == outcomes = <<>> /\ variants = <<>> /\ history = <<>> /\ merged = NothingSeen

\* The variant runs start when the baseline is over.
BaselineRun(o) ==
  /\ variants = <<>>
  /\ Len(outcomes) < 2
  /\ outcomes' = Append(outcomes, o)
  /\ UNCHANGED <<variants, history, merged>>

VariantRun(enforcement, o, network) ==
  LET saw == [network |-> network, executables |-> EmptyMap, observed |-> TRUE]
  IN  /\ outcomes # <<>>
      /\ Len(variants) < MaxRuns
      /\ variants' = Append(variants, [label |-> [purpose |-> "no-egress", key |-> 0,
                                                run |-> Len(variants) + 1],
                                     treatment |-> DenyAllEgress, enforcement |-> enforcement,
                                     outcome |-> o])
      /\ history' = Append(history, saw)
      /\ merged' = MergeObservations(merged, saw)
      /\ UNCHANGED outcomes

InterventionNext ==
  \/ \E o \in TrialOutcome : BaselineRun(o)
  \/ \E enforcement \in {"enforced", "partially-enforced"}, o \in TrialOutcome,
        network \in PartialFunctions(Net, Sightings) : VariantRun(enforcement, o, network)

InterventionSpec == InterventionInit /\ [][InterventionNext]_interventionVars

-----------------------------------------------------------------------------
\* The evidence prove() builds for the services the baseline reached.
GroupEvidence ==
  {[key |-> n, external |-> TRUE, attempted |-> TRUE,
    unavailable |-> n \in DOMAIN merged.network => merged.network[n].allFailed] : n \in Net}

Conclusions ==
  classify_intervention(assess_baseline(outcomes), {variants[i] : i \in DOMAIN variants},
                        GroupEvidence)

Labelled(necessity) == {c.dependency : c \in {d \in Conclusions : d.necessity = necessity}}

\* Rule 2 as the code computes it: every known signature equals the first
\* known one, in the order of the runs.
Known == {i \in DOMAIN variants : variants[i].outcome.signature # NoSignature}

FirstKnown == variants[CHOOSE i \in Known : \A j \in Known : i <= j].outcome.signature

signatures_compatible == \A i \in Known : variants[i].outcome.signature = FirstKnown

-----------------------------------------------------------------------------
(* Properties.                                                             *)

\* One more run may earn a label or withdraw it, but never turns a causal
\* label into its opposite or moves the blame to another dependency, and a
\* withdrawn optional label is not earned back.
NeverReversed ==
  [][variants # <<>> =>
       /\ Labelled("required") # {} => Labelled("required")' \subseteq Labelled("required")
       /\ Labelled("optional")' \subseteq Labelled("optional")
       /\ Labelled("required")' \cap Labelled("optional") = {}]_interventionVars

\* Merging run by run loses nothing: a service is available exactly when some
\* run got through to it, and refused by the gateway only when every run that
\* saw it was refused.
MergeIsExact ==
  \A n \in Net :
    LET saw == {i \in DOMAIN history : n \in DOMAIN history[i].network}
    IN  /\ n \in DOMAIN merged.network <=> saw # {}
        /\ saw # {} =>
             /\ merged.network[n].allFailed <=> \A i \in saw : history[i].network[n].allFailed
             /\ merged.network[n].enforced <=> \A i \in saw : history[i].network[n].enforced
             /\ merged.network[n].external <=> \E i \in saw : history[i].network[n].external

\* A blamed dependency was never seen to work, every other one got through in
\* some run, and no run passed or left a signature unlike the first known one.
BlameIsCovered ==
  \A n \in Labelled("required") :
    /\ signatures_compatible
    /\ \A i \in DOMAIN variants : ~variants[i].outcome.passed
    /\ \A i \in DOMAIN history : n \in DOMAIN history[i].network =>
                                   history[i].network[n].allFailed
    /\ \A m \in Net \ {n} : \E i \in DOMAIN history :
         m \in DOMAIN history[i].network /\ ~history[i].network[m].allFailed
=============================================================================
