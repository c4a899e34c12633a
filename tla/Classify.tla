------------------------------ MODULE Classify ------------------------------
(***************************************************************************)
(* The causal rules of crates/ovid-domain: what a trial is, when a         *)
(* baseline is stable, how observations of several trials are merged, and  *)
(* the only functions that may call a dependency required or optional.     *)
(*                                                                         *)
(* A dependency key is a positive natural number: keys are totally ordered *)
(* in the code (DependencyKey derives Ord) and iteration follows that      *)
(* order.  0 stands for "no dependency".  Reasons and confidences are left *)
(* out; a conclusion keeps the labels of the trials it rests on, and its   *)
(* confidence in the code is a function of their number.                   *)
(*                                                                         *)
(* MergeSightingEither, Conclusive... and                                  *)
(* JudgementGroup, each before the definition it resembles, are seeded     *)
(* mistakes: no specification uses them, the properties reject them.       *)
(***************************************************************************)
EXTENDS Naturals, Sequences

CONSTANTS
  Net,          \* keys of the network services
  Exe,          \* keys of the executables
  Signature,    \* failure signatures a run can leave
  NoSignature   \* Option::None of a failure signature

ASSUME KeyAssumption ==
  /\ Net \subseteq Nat \ {0}
  /\ Exe \subseteq Nat \ {0}
  /\ Net \cap Exe = {}

ASSUME SignatureAssumption == NoSignature \notin Signature

Dep == Net \cup Exe

-----------------------------------------------------------------------------
(* Treatments, outcomes and trial records (trial.rs).                      *)

NoTreatment        == [kind |-> "none",             key |-> 0]
DenyAllEgress      == [kind |-> "deny-all-egress",  key |-> 0]
BlockDependency(d) == [kind |-> "block-dependency", key |-> d]
HideExecutable(e)  == [kind |-> "hide-executable",  key |-> e]

Treatment == {NoTreatment, DenyAllEgress}
               \cup {BlockDependency(d) : d \in Net}
               \cup {HideExecutable(e) : e \in Exe}

EnforcementStatus == {"enforced", "partially-enforced", "not-enforced"}

\* A passing outcome has no signature; a failing one may have lost it.
TrialOutcome ==
  {o \in [passed : BOOLEAN, signature : Signature \cup {NoSignature}] :
     o.passed => o.signature = NoSignature}

\* The code's labels: baseline-1, no-egress-2, block-<key>-1, hide-<key>-2, replay.
Label == [purpose : {"baseline", "no-egress", "block", "hide", "replay"},
          key : Dep \cup {0}, run : Nat]

TrialRecord == [label : Label, treatment : Treatment,
                enforcement : EnforcementStatus, outcome : TrialOutcome]

-----------------------------------------------------------------------------
(* What the observer saw during one trial (ports.rs): a network candidate  *)
(* is a sighting under its key, an executable was found or searched in     *)
(* vain.  Keys that were not seen are not in the function's domain.        *)

Sighting == [external : BOOLEAN, allFailed : BOOLEAN, enforced : BOOLEAN]

PartialFunctions(S, T) == UNION {[D -> T] : D \in SUBSET S}

Observations == [network : PartialFunctions(Net, Sighting),
                 executables : PartialFunctions(Exe, BOOLEAN),
                 observed : BOOLEAN]

EmptyMap == [k \in {} |-> FALSE]

NothingSeen == [network |-> EmptyMap, executables |-> EmptyMap, observed |-> FALSE]

MergeSightingEither(a, b) == [external  |-> a.external \/ b.external,
                              allFailed |-> a.allFailed \/ b.allFailed,
                              enforced  |-> a.enforced /\ b.enforced]

\* One candidate seen by two trials: available as soon as one trial got through.
MergeSighting(a, b) == [external  |-> a.external \/ b.external,
                        allFailed |-> a.allFailed /\ b.allFailed,
                        enforced  |-> a.enforced /\ b.enforced]

\* One success anywhere means the executable exists.
EitherFound(a, b) == a \/ b

MergeMaps(f, g, Both(_, _)) ==
  [k \in DOMAIN f \cup DOMAIN g |->
     IF k \notin DOMAIN g THEN f[k]
     ELSE IF k \notin DOMAIN f THEN g[k]
     ELSE Both(f[k], g[k])]

merge_candidates(f, g)  == MergeMaps(f, g, MergeSighting)
merge_executables(f, g) == MergeMaps(f, g, EitherFound)

MergeObservations(a, b) ==
  [network     |-> merge_candidates(a.network, b.network),
   executables |-> merge_executables(a.executables, b.executables),
   observed    |-> a.observed \/ b.observed]

-----------------------------------------------------------------------------
(* Baseline stability (baseline.rs).                                       *)

BaselineVerdict == {"stable-passing", "stable-failing", "unstable"}

\* The reference signature is the first run's, so a lost signature is
\* compatible with a known one only when it comes later.
assess_baseline(outcomes) ==
  LET runs == DOMAIN outcomes
  IN  IF outcomes = <<>> THEN "unstable"
      ELSE IF \A i \in runs : outcomes[i].passed THEN "stable-passing"
      ELSE IF /\ \A i \in runs : ~outcomes[i].passed
              /\ \A i \in runs : outcomes[i].signature \in {outcomes[1].signature, NoSignature}
           THEN "stable-failing"
      ELSE "unstable"

supports_experiments(baseline) == baseline = "stable-passing"

-----------------------------------------------------------------------------
(* The classifier (classify.rs).  Candidate evidence is a set of records   *)
(* with distinct keys, the trials of one intervention a set of records     *)
(* with distinct labels.                                                   *)

CandidateEvidence == [key : Dep, external : BOOLEAN, unavailable : BOOLEAN,
                      attempted : BOOLEAN]

Necessity == {"required", "optional", "unresolved"}

Conclusion == [dependency : Dep, necessity : Necessity, trials : SUBSET Label]

Labels(trials) == {t.label : t \in trials}

Unresolved(key) == [dependency |-> key, necessity |-> "unresolved", trials |-> {}]

classify_unenforceable(candidates) == {Unresolved(c.key) : c \in candidates}

\* A candidate that was out of reach while the baseline passed is optional.
classify_natural_counterfactual(baseline, baselineLabels, candidates) ==
  IF ~supports_experiments(baseline) THEN {}
  ELSE {[dependency |-> c.key, necessity |-> "optional", trials |-> baselineLabels] :
          c \in {d \in candidates : d.external /\ d.unavailable}}

\* The same credit for a candidate the gateway refused under the deny posture.
classify_enforced_deny(baseline, baselineLabels, candidates) ==
  IF ~supports_experiments(baseline) THEN {}
  ELSE {[dependency |-> c.key, necessity |-> "optional", trials |-> baselineLabels] :
          c \in {d \in candidates : d.external /\ d.unavailable}}

AllPassed(trials) == \A t \in trials : t.outcome.passed
AllFailed(trials) == \A t \in trials : ~t.outcome.passed

\* Every known signature equals the first known one.
SignaturesCompatible(trials) ==
  \A s, t \in trials : \/ s.outcome.signature = NoSignature
                       \/ t.outcome.signature = NoSignature
                       \/ s.outcome.signature = t.outcome.signature

ConclusiveUnenforced(baseline, trials) ==
  /\ supports_experiments(baseline)
  /\ trials # {}
  /\ AllPassed(trials) \/ (AllFailed(trials) /\ SignaturesCompatible(trials))
ConclusiveMixed(baseline, trials) ==
  /\ supports_experiments(baseline)
  /\ trials # {}
  /\ \A t \in trials : t.enforcement = "enforced"
ConclusiveAnySignature(baseline, trials) ==
  /\ supports_experiments(baseline)
  /\ trials # {}
  /\ \A t \in trials : t.enforcement = "enforced"
  /\ AllPassed(trials) \/ AllFailed(trials)

\* Rules 0 to 2: a stable passing baseline, at least one trial, every trial
\* enforced, and trials that agree with each other.
Conclusive(baseline, trials) ==
  /\ supports_experiments(baseline)
  /\ trials # {}
  /\ \A t \in trials : t.enforcement = "enforced"
  /\ AllPassed(trials) \/ (AllFailed(trials) /\ SignaturesCompatible(trials))

ChangedSet(candidates) == {c \in candidates : c.external /\ c.unavailable /\ c.attempted}

JudgementGroup(baseline, trials, candidates, c) ==
  IF ~Conclusive(baseline, trials) THEN "unresolved"
  ELSE IF AllPassed(trials)
       THEN IF c.external /\ c.unavailable THEN "optional" ELSE "unresolved"
  ELSE IF c \in ChangedSet(candidates) THEN "required" ELSE "unresolved"

\* The label of candidate c of one intervention.
Judgement(baseline, trials, candidates, c) ==
  IF ~Conclusive(baseline, trials) THEN "unresolved"
  ELSE IF AllPassed(trials)
       THEN IF c.external /\ c.unavailable THEN "optional" ELSE "unresolved"
  ELSE IF ChangedSet(candidates) = {c} THEN "required" ELSE "unresolved"

classify_intervention(baseline, trials, candidates) ==
  {LET label == Judgement(baseline, trials, candidates, c)
   IN  [dependency |-> c.key, necessity |-> label,
        trials |-> IF label = "unresolved" THEN {} ELSE Labels(trials)] : c \in candidates}
=============================================================================
