---------------------------- MODULE ProveProofs ----------------------------
(***************************************************************************)
(* Theorems about Prove, for every laboratory, policy and workload: type   *)
(* correctness; that isolating dependencies never costs the analysis its   *)
(* replay; and what the labels have behind them: that no dependency gets   *)
(* two, that every one can be followed back through the journal to its     *)
(* trials, that workflow, journal and world agree, and that project        *)
(* tooling gets the budget first.                                          *)
(*                                                                         *)
(* The first part is about the operators of Classify.  The invariant of the *)
(* second is TypeOK with ReplayKept; that of the third is Inv, whose six    *)
(* parts are each about one thing the loops of prove() keep: the trials,    *)
(* the targets, the evidence, the trail, the world and the order of the     *)
(* hide loop.                                                              *)
(***************************************************************************)
EXTENDS Prove, TLAPS

-----------------------------------------------------------------------------
(* Classification: the types of what its operators return.                  *)

\* A partial function is a function on some subset.
LEMMA PartialFunctionIff ==
  ASSUME NEW S, NEW T, NEW f
  PROVE  f \in PartialFunctions(S, T) <=> DOMAIN f \subseteq S /\ f \in [DOMAIN f -> T]
BY DEF PartialFunctions

\* Merging two sightings gives a sighting.
LEMMA MergeSightingType ==
  ASSUME NEW a \in Sighting, NEW b \in Sighting
  PROVE  MergeSighting(a, b) \in Sighting
BY DEF MergeSighting, Sighting

\* Merging the candidates of two runs gives candidates.
LEMMA MergeCandidatesType ==
  ASSUME NEW f \in PartialFunctions(Net, Sighting), NEW g \in PartialFunctions(Net, Sighting)
  PROVE  merge_candidates(f, g) \in PartialFunctions(Net, Sighting)
<1> DEFINE m == merge_candidates(f, g)
<1>1. /\ DOMAIN f \subseteq Net /\ f \in [DOMAIN f -> Sighting]
      /\ DOMAIN g \subseteq Net /\ g \in [DOMAIN g -> Sighting]
  BY PartialFunctionIff
<1>2. DOMAIN m = DOMAIN f \cup DOMAIN g
  BY DEF merge_candidates, MergeMaps
<1>3. ASSUME NEW k \in DOMAIN f \cup DOMAIN g  PROVE m[k] \in Sighting
  BY <1>1, MergeSightingType DEF merge_candidates, MergeMaps
<1>4. m \in [DOMAIN m -> Sighting]
  BY <1>2, <1>3 DEF merge_candidates, MergeMaps
<1> QED
  BY <1>1, <1>2, <1>4, PartialFunctionIff

\* Merging the executables of two runs gives executables.
LEMMA MergeExecutablesType ==
  ASSUME NEW f \in PartialFunctions(Exe, BOOLEAN), NEW g \in PartialFunctions(Exe, BOOLEAN)
  PROVE  merge_executables(f, g) \in PartialFunctions(Exe, BOOLEAN)
<1> DEFINE m == merge_executables(f, g)
<1>1. /\ DOMAIN f \subseteq Exe /\ f \in [DOMAIN f -> BOOLEAN]
      /\ DOMAIN g \subseteq Exe /\ g \in [DOMAIN g -> BOOLEAN]
  BY PartialFunctionIff
<1>2. DOMAIN m = DOMAIN f \cup DOMAIN g
  BY DEF merge_executables, MergeMaps
<1>3. ASSUME NEW k \in DOMAIN f \cup DOMAIN g  PROVE m[k] \in BOOLEAN
  BY <1>1 DEF merge_executables, MergeMaps, EitherFound
<1>4. m \in [DOMAIN m -> BOOLEAN]
  BY <1>2, <1>3 DEF merge_executables, MergeMaps
<1> QED
  BY <1>1, <1>2, <1>4, PartialFunctionIff

\* Merging the observations of two runs gives observations.
LEMMA MergeObservationsType ==
  ASSUME NEW a \in Observations, NEW b \in Observations
  PROVE  MergeObservations(a, b) \in Observations
<1>1. merge_candidates(a.network, b.network) \in PartialFunctions(Net, Sighting)
  BY MergeCandidatesType DEF Observations
<1>2. merge_executables(a.executables, b.executables) \in PartialFunctions(Exe, BOOLEAN)
  BY MergeExecutablesType DEF Observations
<1> QED
  BY <1>1, <1>2 DEF MergeObservations, Observations

\* The empty observations are observations.
LEMMA NothingSeenType == NothingSeen \in Observations
<1>1. EmptyMap \in PartialFunctions(Net, Sighting)
  BY PartialFunctionIff DEF EmptyMap
<1>2. EmptyMap \in PartialFunctions(Exe, BOOLEAN)
  BY PartialFunctionIff DEF EmptyMap
<1> QED
  BY <1>1, <1>2 DEF NothingSeen, Observations

\* The verdict over any outcomes is a verdict.
LEMMA AssessType ==
  ASSUME NEW outcomes
  PROVE  assess_baseline(outcomes) \in BaselineVerdict
BY DEF assess_baseline, BaselineVerdict

\* The labels of trial records are labels.
LEMMA LabelsType ==
  ASSUME NEW records, records \subseteq TrialRecord
  PROVE  Labels(records) \subseteq Label
BY DEF Labels, TrialRecord

\* Each of the four classifiers returns conclusions.
LEMMA ClassifiersType ==
  ASSUME NEW verdict \in BaselineVerdict, NEW records, records \subseteq TrialRecord,
         NEW labels, labels \subseteq Label,
         NEW candidates, candidates \subseteq CandidateEvidence
  PROVE  /\ classify_unenforceable(candidates) \subseteq Conclusion
         /\ classify_natural_counterfactual(verdict, labels, candidates) \subseteq Conclusion
         /\ classify_enforced_deny(verdict, labels, candidates) \subseteq Conclusion
         /\ classify_intervention(verdict, records, candidates) \subseteq Conclusion
<1>1. \A c \in candidates : c.key \in Dep
  BY DEF CandidateEvidence
<1>2. classify_unenforceable(candidates) \subseteq Conclusion
  BY <1>1 DEF classify_unenforceable, Unresolved, Conclusion, Necessity
<1>3. classify_natural_counterfactual(verdict, labels, candidates) \subseteq Conclusion
  BY <1>1 DEF classify_natural_counterfactual, Conclusion, Necessity
<1>4. classify_enforced_deny(verdict, labels, candidates) \subseteq Conclusion
  BY <1>1 DEF classify_enforced_deny, Conclusion, Necessity
<1>5. \A c \in candidates : Judgement(verdict, records, candidates, c) \in Necessity
  BY DEF Judgement, Necessity
<1>6. classify_intervention(verdict, records, candidates) \subseteq Conclusion
  BY <1>1, <1>5, LabelsType DEF classify_intervention, Conclusion
<1> QED
  BY <1>2, <1>3, <1>4, <1>6

-----------------------------------------------------------------------------
(* Classification: what one can conclude.                                   *)

\* A classifier concludes about its candidates and nothing else.
LEMMA ClassifiedKeys ==
  ASSUME NEW verdict, NEW records, NEW labels, NEW candidates
  PROVE  /\ \A c \in classify_unenforceable(candidates) :
              \E e \in candidates : c.dependency = e.key
         /\ \A c \in classify_natural_counterfactual(verdict, labels, candidates) :
              \E e \in candidates : c.dependency = e.key
         /\ \A c \in classify_enforced_deny(verdict, labels, candidates) :
              \E e \in candidates : c.dependency = e.key
         /\ \A c \in classify_intervention(verdict, records, candidates) :
              \E e \in candidates : c.dependency = e.key
BY DEF classify_unenforceable, Unresolved, classify_natural_counterfactual,
       classify_enforced_deny, classify_intervention

DistinctKeys(candidates) == \A c, d \in candidates : c.key = d.key => c = d

OneEach(listed) == \A c, d \in listed : c.dependency = d.dependency => c = d

\* Candidates with distinct keys get one conclusion each.
LEMMA ClassifiedOnce ==
  ASSUME NEW verdict, NEW records, NEW labels, NEW candidates, DistinctKeys(candidates)
  PROVE  /\ OneEach(classify_unenforceable(candidates))
         /\ OneEach(classify_natural_counterfactual(verdict, labels, candidates))
         /\ OneEach(classify_enforced_deny(verdict, labels, candidates))
         /\ OneEach(classify_intervention(verdict, records, candidates))
<1>1. OneEach(classify_unenforceable(candidates))
  BY DEF DistinctKeys, OneEach, classify_unenforceable, Unresolved
<1>2. OneEach(classify_natural_counterfactual(verdict, labels, candidates))
  BY DEF DistinctKeys, OneEach, classify_natural_counterfactual
<1>3. OneEach(classify_enforced_deny(verdict, labels, candidates))
  BY DEF DistinctKeys, OneEach, classify_enforced_deny
<1>4. OneEach(classify_intervention(verdict, records, candidates))
  <2> DEFINE Concluded(e) == [dependency |-> e.key,
                              necessity |-> Judgement(verdict, records, candidates, e),
                              trials |-> IF Judgement(verdict, records, candidates, e) = "unresolved"
                                         THEN {} ELSE Labels(records)]
  <2>1. \A c \in classify_intervention(verdict, records, candidates) :
          \E e \in candidates : c = Concluded(e)
    BY DEF classify_intervention
  <2>2. \A e \in candidates : Concluded(e).dependency = e.key
    OBVIOUS
  <2> HIDE DEF Concluded
  <2> QED
    BY <2>1, <2>2 DEF DistinctKeys, OneEach
<1> QED
  BY <1>1, <1>2, <1>3, <1>4

\* One intervention blames at most one dependency, and when it blames one it
\* clears none: whatever the trials and the candidates, the labels of one
\* classification cannot contradict each other.
THEOREM InterventionBlamesOne ==
  ASSUME NEW verdict, NEW records, NEW candidates,
         NEW c \in classify_intervention(verdict, records, candidates),
         NEW d \in classify_intervention(verdict, records, candidates),
         c.necessity = "required"
  PROVE  d.necessity = "unresolved" \/ d = c
<1>1. PICK e \in candidates :
        /\ c.dependency = e.key
        /\ Judgement(verdict, records, candidates, e) = "required"
        /\ c.trials = Labels(records)
  BY DEF classify_intervention
<1>2. PICK f \in candidates :
        /\ d.dependency = f.key
        /\ d.necessity = Judgement(verdict, records, candidates, f)
        /\ d = [dependency |-> f.key, necessity |-> d.necessity,
                trials |-> IF d.necessity = "unresolved" THEN {} ELSE Labels(records)]
  BY DEF classify_intervention
<1>3. ~AllPassed(records) /\ ChangedSet(candidates) = {e}
  BY <1>1 DEF Judgement
<1>4. d.necessity \in {"required", "unresolved"}
  BY <1>2, <1>3 DEF Judgement
<1>5. CASE d.necessity = "required"
  <2>1. f = e
    BY <1>2, <1>3, <1>5 DEF Judgement
  <2> QED
    BY <1>1, <1>2, <1>5, <2>1 DEF classify_intervention
<1> QED
  BY <1>4, <1>5

\* A causal label needs a stable passing baseline, and trials that were all
\* enforced; a required one needs trials that all failed.
THEOREM CausalLabelEarned ==
  ASSUME NEW verdict, NEW records, NEW candidates,
         NEW c \in classify_intervention(verdict, records, candidates),
         c.necessity # "unresolved"
  PROVE  /\ supports_experiments(verdict)
         /\ records # {} /\ \A t \in records : t.enforcement = "enforced"
         /\ c.necessity = "optional" => AllPassed(records)
         /\ c.necessity = "required" => AllFailed(records) /\ SignaturesCompatible(records)
BY DEF classify_intervention, Judgement, Conclusive

-----------------------------------------------------------------------------
(* Types of the helpers.                                                   *)

\* Advancing a workflow gives a state of the workflow.
LEMMA AdvanceType ==
  \A state, next \in AnalysisState : Advance(state, next) \in AnalysisState
BY DEF Advance

\* The states the code advances to.
LEMMA States ==
  /\ "source-resolved" \in AnalysisState /\ "inspected" \in AnalysisState
  /\ "environment-prepared" \in AnalysisState /\ "provisioned" \in AnalysisState
  /\ "baseline-validated" \in AnalysisState /\ "candidates-observed" \in AnalysisState
  /\ "experiments-completed" \in AnalysisState /\ "world-synthesized" \in AnalysisState
  /\ "replay-verified" \in AnalysisState /\ "replay-failed" \in AnalysisState
  /\ "replay-unavailable" \in AnalysisState /\ "finalized" \in AnalysisState
BY DEF AnalysisState

\* The events the actions journal are events.
LEMMA EventTypes ==
  /\ [event |-> "workload-selected"] \in Event
  /\ [event |-> "environment-prepared"] \in Event
  /\ [event |-> "snapshot-created"] \in Event
  /\ \A l \in Label : [event |-> "trial-completed", label |-> l] \in Event
  /\ \A v \in BaselineVerdict : [event |-> "baseline-classified", verdict |-> v] \in Event
  /\ \A c \in Conclusion : [event |-> "dependency-classified", conclusion |-> c] \in Event
  /\ \A r, o, u \in SUBSET Dep :
       [event |-> "world-synthesized", required |-> r, optional |-> o, unresolved |-> u]
         \in Event
  /\ \A p \in BOOLEAN : [event |-> "replay-completed", passed |-> p] \in Event
  /\ \A l \in LimitationRecord :
       [event |-> "limitation-recorded", limitation |-> l] \in Event
BY DEF Event

\* The records of a sequence of records.
LEMMA RecordsType ==
  ASSUME NEW S, NEW seq \in Seq(S)
  PROVE  Records(seq) \subseteq S
BY DEF Records

\* Appending adds one record.
LEMMA RecordsAppend ==
  ASSUME NEW S, NEW seq \in Seq(S), NEW e \in S
  PROVE  Records(Append(seq, e)) = Records(seq) \cup {e}
<1> DEFINE longer == Append(seq, e)
<1>1. /\ DOMAIN longer = DOMAIN seq \cup {Len(seq) + 1}
      /\ Len(seq) + 1 \notin DOMAIN seq
      /\ \A i \in DOMAIN seq : longer[i] = seq[i]
      /\ longer[Len(seq) + 1] = e
  OBVIOUS
<1> HIDE DEF longer
<1> QED
  BY <1>1 DEF Records

\* Evidence about dependencies is candidate evidence.
LEMMA EvidenceType ==
  ASSUME NEW k \in Dep, NEW u \in BOOLEAN
  PROVE  Evidence(k, u) \in CandidateEvidence
BY DEF Evidence, CandidateEvidence

\* A limitation that names dependencies is a limitation record.
LEMMA LimitationType ==
  ASSUME NEW kind \in LimitationKind, NEW about \in SUBSET Dep
  PROVE  Limitation(kind, about) \in LimitationRecord
BY DEF Limitation, LimitationRecord

\* Treatments of dependencies are treatments.
LEMMA TreatmentType ==
  /\ NoTreatment \in Treatment /\ DenyAllEgress \in Treatment
  /\ \A d \in Net : BlockDependency(d) \in Treatment
  /\ \A e \in Exe : HideExecutable(e) \in Treatment
BY DEF Treatment

\* A policy asks for natural numbers of runs and trials.
LEMMA PolicyType ==
  ASSUME policy \in Policies
  PROVE  /\ policy.confirmation_runs \in Nat /\ policy.max_trials \in Nat
         /\ policy.baseline_runs \in Nat /\ policy.attempt_replay \in BOOLEAN
         /\ RunsPer \in Nat \ {0} /\ BaselineRuns \in Nat \ {0}
BY PolicyAssumption DEF Policy, RunsPer, BaselineRuns

\* Running a trial keeps the types of what it changes.
LEMMA RunTrialType ==
  ASSUME TypeOK,
         NEW purpose \in {"baseline", "no-egress", "block", "hide", "replay"},
         NEW key \in Dep \cup {0}, NEW treatment \in Treatment, NEW answer,
         RunTrial(purpose, key, treatment, answer)
  PROVE  /\ executed' \in Nat
         /\ trials' \in Seq(TrialRecord) /\ results' \in Seq(TrialRecord)
         /\ seen' \in Observations
         /\ journal' \in Seq(Event)
<1> DEFINE label  == [purpose |-> purpose, key |-> key, run |-> Len(results) + 1]
           record == [label |-> label, treatment |-> treatment,
                      enforcement |-> answer.enforcement, outcome |-> answer.outcome]
<1>1. answer \in TrialResult
  BY AnswersAssumption DEF TypeOK, RunTrial
<1>2. label \in Label
  BY DEF Label, TypeOK
<1>3. record \in TrialRecord
  BY <1>1, <1>2 DEF TrialRecord, TrialResult
<1>4. answer.observations \in Observations
  BY <1>1 DEF TrialResult
<1>5. seen' \in Observations
  BY <1>4, MergeObservationsType DEF RunTrial, TypeOK
<1>6. journal' \in Seq(Event)
  BY <1>2, EventTypes DEF RunTrial, Journal, TypeOK
<1> QED
  BY <1>3, <1>5, <1>6 DEF RunTrial, TypeOK

-----------------------------------------------------------------------------
(* Type correctness.                                                       *)

\* The initial states are well typed.
LEMMA InitTypeOK == Init => TypeOK
<1> SUFFICES ASSUME Init PROVE TypeOK
  OBVIOUS
<1>1. /\ EmptyMap \in PartialFunctions(Net, Sighting)
      /\ EmptyMap \in PartialFunctions(Exe, BOOLEAN)
  BY PartialFunctionIff DEF EmptyMap
<1> QED
  BY <1>1, NothingSeenType DEF Init, TypeOK, Phases, AnalysisState, BaselineVerdict, World

\* The records of well-typed trials, and of those of the current loop.
LEMMA TrialSets ==
  ASSUME TypeOK
  PROVE  /\ Records(trials) \subseteq TrialRecord /\ Records(results) \subseteq TrialRecord
         /\ BaselineLabels \subseteq Label
<1>1. Records(trials) \subseteq TrialRecord /\ Records(results) \subseteq TrialRecord
  BY RecordsType DEF TypeOK
<1>2. \A t \in TrialRecord : t.label \in Label
  BY DEF TrialRecord
<1> QED
  BY <1>1, <1>2 DEF BaselineLabels

\* The candidates of a well-typed state are dependencies.
LEMMA CandidateKeys ==
  ASSUME TypeOK
  PROVE  /\ Screened \subseteq Net /\ HideTargets \subseteq Exe
         /\ DOMAIN seen.network \subseteq Net /\ seen.network \in [DOMAIN seen.network -> Sighting]
         /\ DOMAIN seen.executables \subseteq Exe
         /\ seen.executables \in [DOMAIN seen.executables -> BOOLEAN]
         /\ seen.observed \in BOOLEAN
         /\ DOMAIN networkCandidates \subseteq Net
         /\ DOMAIN executableCandidates \subseteq Exe
<1>1. /\ seen.network \in PartialFunctions(Net, Sighting)
      /\ seen.executables \in PartialFunctions(Exe, BOOLEAN)
      /\ seen.observed \in BOOLEAN
      /\ networkCandidates \in PartialFunctions(Net, Sighting)
      /\ executableCandidates \in PartialFunctions(Exe, BOOLEAN)
  BY DEF TypeOK, Observations
<1> QED
  BY <1>1, PartialFunctionIff DEF Screened, HideTargets

\* Every step keeps the state well typed.
LEMMA StepTypeOK == TypeOK /\ ReplayKept /\ [Next]_vars => TypeOK'
<1> SUFFICES ASSUME TypeOK, ReplayKept, [Next]_vars PROVE TypeOK'
  OBVIOUS
<1> USE DEF At, Journal, inputs, loop, found, ResetLoop
<1>0. CASE UNCHANGED vars
  BY <1>0 DEF vars, TypeOK
<1>1. CASE SelectWorkload
  BY <1>1, EventTypes, AdvanceType, States DEF SelectWorkload, TypeOK, Phases
<1>2. CASE PrepareEnvironment
  <2>1. Limitation("provisioning-failed", {}) \in LimitationRecord
    BY LimitationType DEF LimitationKind
  <2>2. limitations' \in Seq(LimitationRecord)
    BY <1>2, <2>1 DEF PrepareEnvironment, TypeOK
  <2>3. workflow' \in AnalysisState
    BY <1>2, AdvanceType, States DEF PrepareEnvironment, TypeOK
  <2>4. journal' \in Seq(Event)
    BY <1>2, EventTypes DEF PrepareEnvironment, TypeOK
  <2> QED
    BY <1>2, <2>2, <2>3, <2>4 DEF PrepareEnvironment, TypeOK, Phases
<1>3. CASE TakeSnapshot
  BY <1>3, EventTypes DEF TakeSnapshot, TypeOK, Phases
<1>4. CASE BaselineTrial
  BY <1>4, RunTrialType, TreatmentType DEF BaselineTrial, TypeOK
<1>5. CASE AssessBaseline
  <2> DEFINE verdict == assess_baseline(Outcomes(results))
             net     == [k \in {n \in DOMAIN seen.network : seen.network[n].external}
                           |-> seen.network[k]]
             exe     == seen.executables
  <2>1. verdict \in BaselineVerdict
    BY AssessType
  <2>2. net \in PartialFunctions(Net, Sighting)
    BY CandidateKeys, PartialFunctionIff
  <2>3. exe \in PartialFunctions(Exe, BOOLEAN)
    BY DEF TypeOK, Observations
  <2>4. \A kind \in LimitationKind : Limitation(kind, {}) \in LimitationRecord
    BY LimitationType
  <2>5. limitations' \in Seq(LimitationRecord)
    <3>1. Limitation("budget-baseline", {}) \in LimitationRecord
      BY <2>4 DEF LimitationKind
    <3>2. Limitation("unobserved", {}) \in LimitationRecord
      BY <2>4 DEF LimitationKind
    <3> DEFINE short == IF Len(results) < BaselineRuns
                        THEN <<Limitation("budget-baseline", {})>> ELSE <<>>
               blind == IF seen.observed THEN <<>> ELSE <<Limitation("unobserved", {})>>
    <3>3. short \in Seq(LimitationRecord) /\ blind \in Seq(LimitationRecord)
      BY <3>1, <3>2
    <3>4. limitations' = limitations \o short \o blind
      BY <1>5 DEF AssessBaseline
    <3> HIDE DEF short, blind
    <3> QED
      BY <3>3, <3>4 DEF TypeOK
  <2>6. /\ EnforcedDeny(net) \subseteq CandidateEvidence
        /\ Natural(net, exe) \subseteq CandidateEvidence
        /\ Unsupported(net, exe) \subseteq CandidateEvidence
    BY CandidateKeys, EvidenceType DEF EnforcedDeny, Natural, Unsupported, Dep
  <2>7. pending' \subseteq Conclusion /\ phase' \in Phases
    <3>1. /\ {} \subseteq TrialRecord /\ BaselineLabels \subseteq Label
      BY TrialSets
    <3>2. /\ classify_enforced_deny(verdict, BaselineLabels, EnforcedDeny(net)) \subseteq Conclusion
          /\ classify_natural_counterfactual(verdict, BaselineLabels, Natural(net, exe))
               \subseteq Conclusion
          /\ classify_intervention(verdict, {}, Unsupported(net, exe)) \subseteq Conclusion
      BY <2>1, <2>6, <3>1, ClassifiersType
    <3> QED
      BY <1>5, <3>2 DEF AssessBaseline, Phases
  <2>8. workflow' \in AnalysisState
    BY <1>5, AdvanceType, States DEF AssessBaseline, TypeOK
  <2>9. journal' \in Seq(Event)
    BY <1>5, <2>1, EventTypes DEF AssessBaseline, TypeOK
  <2>10. baseline' \in BaselineVerdict
           /\ networkCandidates' \in PartialFunctions(Net, Sighting)
           /\ executableCandidates' \in PartialFunctions(Exe, BOOLEAN)
    BY <1>5, <2>1, <2>2, <2>3 DEF AssessBaseline
  <2> QED
    BY <1>5, <2>5, <2>7, <2>8, <2>9, <2>10, NothingSeenType DEF AssessBaseline, TypeOK
<1>6. CASE JournalConclusion
  <2>1. PICK c \in pending :
          /\ journal' = Append(journal, [event |-> "dependency-classified", conclusion |-> c])
          /\ conclusions' = conclusions \cup
               {[dependency |-> c.dependency, necessity |-> c.necessity, trials |-> c.trials,
                 evidence |-> Len(journal) + 1]}
          /\ pending' = pending \ {c}
    BY <1>6 DEF JournalConclusion
  <2>2. c \in Conclusion
    BY DEF TypeOK
  <2>3. journal' \in Seq(Event)
    BY <2>1, <2>2, EventTypes DEF TypeOK
  <2>4. conclusions' \subseteq Classified
    BY <2>1, <2>2 DEF TypeOK, Conclusion, Classified
  <2> QED
    BY <1>6, <2>1, <2>3, <2>4 DEF JournalConclusion, TypeOK
<1>7. CASE ScreenSkip
  BY <1>7 DEF ScreenSkip, TypeOK, Phases
<1>8. CASE ScreenUnenforceable
  <2>1. pending' \subseteq Conclusion
    <3>1. {Evidence(n, FALSE) : n \in Screened} \subseteq CandidateEvidence
      BY CandidateKeys, EvidenceType DEF Dep
    <3> QED
      BY <1>8, <3>1, ClassifiersType DEF ScreenUnenforceable, TypeOK
  <2>2. Limitation("no-deny-all", Screened) \in LimitationRecord
    BY CandidateKeys, LimitationType DEF Dep, LimitationKind
  <2>3. limitations' \in Seq(LimitationRecord)
    BY <1>8, <2>2 DEF ScreenUnenforceable, TypeOK
  <2> QED
    BY <1>8, <2>1, <2>3 DEF ScreenUnenforceable, TypeOK, Phases
<1>9. CASE ScreenTrial
  BY <1>9, RunTrialType, TreatmentType DEF ScreenTrial, TypeOK
<1>10. CASE ScreenConclude
  <2>1. ScreenEvidence \subseteq CandidateEvidence
    <3>1. \A n \in Screened :
            (n \in DOMAIN seen.network => seen.network[n].allFailed) \in BOOLEAN
      BY CandidateKeys DEF Sighting
    <3> QED
      BY <3>1, CandidateKeys, EvidenceType DEF ScreenEvidence, Dep
  <2>2. classify_intervention(baseline, Records(results), ScreenEvidence) \subseteq Conclusion
    BY <2>1, TrialSets, ClassifiersType DEF TypeOK
  <2>3. Changed \subseteq Net
    BY CandidateKeys DEF Changed
  <2>4. Limitation("budget-intervention", {}) \in LimitationRecord
    BY LimitationType DEF LimitationKind
  <2> QED
    BY <1>10, <2>2, <2>3, <2>4, NothingSeenType DEF ScreenConclude, TypeOK, Phases
<1>11. ASSUME NEW k \in Dep, DropTarget(k)  PROVE TypeOK'
  BY <1>11 DEF DropTarget, TypeOK
<1>12. ASSUME NEW k \in Dep, NEW purpose \in {"block", "hide"}, NEW treatment \in Treatment,
              TestTarget(k, purpose, treatment)
       PROVE  TypeOK'
  BY <1>12, RunTrialType DEF TestTarget, TypeOK
<1>13. ASSUME NEW k \in Dep, ConcludeTarget(k)  PROVE TypeOK'
  <2>1. {Evidence(k, TRUE)} \subseteq CandidateEvidence
    BY EvidenceType
  <2>2. classify_intervention(baseline, Records(results), {Evidence(k, TRUE)})
          \subseteq Conclusion
    BY <2>1, TrialSets, ClassifiersType DEF TypeOK
  <2>3. pending' \subseteq Conclusion
    BY <1>13, <2>2 DEF ConcludeTarget
  <2>4. results' \in Seq(TrialRecord) /\ seen' \in Observations
    BY <1>13, NothingSeenType DEF ConcludeTarget
  <2>5. agenda' \subseteq agenda /\ phase' = phase
    BY <1>13 DEF ConcludeTarget
  <2> QED
    BY <1>13, <2>3, <2>4, <2>5 DEF ConcludeTarget, TypeOK
<1>14. ASSUME NEW kind \in LimitationKind, NEW next \in Phases, ReportDropped(kind, next)
       PROVE  TypeOK'
  <2>1. {Evidence(k, FALSE) : k \in dropped} \subseteq CandidateEvidence
    BY EvidenceType DEF TypeOK
  <2>2. classify_intervention(baseline, {}, {Evidence(k, FALSE) : k \in dropped})
          \subseteq Conclusion
    BY <2>1, ClassifiersType, TrialSets DEF TypeOK
  <2>3. Limitation(kind, dropped) \in LimitationRecord
    BY LimitationType DEF TypeOK
  <2>4. limitations' \in Seq(LimitationRecord)
    BY <1>14, <2>3 DEF ReportDropped, TypeOK
  <2> QED
    BY <1>14, <2>2, <2>4 DEF ReportDropped, TypeOK
<1>15. agenda \subseteq Dep
  BY DEF TypeOK, Dep
<1>16. CASE BlockDrop
  BY <1>11, <1>15, <1>16 DEF BlockDrop
<1>17. CASE BlockTrial
  <2>1. PICK n \in agenda : TestTarget(n, "block", BlockDependency(n))
    BY <1>17 DEF BlockTrial
  <2>2. BlockDependency(n) \in Treatment
    <3>1. n \in Net
      BY <1>17 DEF BlockTrial, TypeOK
    <3> QED
      BY <3>1, TreatmentType
  <2> QED
    BY <1>12, <1>15, <2>1, <2>2
<1>18. CASE BlockConclude
  BY <1>13, <1>15, <1>18 DEF BlockConclude
<1>19. CASE BlockReport
  BY <1>14, <1>19 DEF BlockReport, LimitationKind, Phases
<1>20. CASE HideSkip
  BY <1>20 DEF HideSkip, TypeOK, Phases
<1>21. CASE HideUnenforceable
  <2>1. {Evidence(e, FALSE) : e \in HideTargets} \subseteq CandidateEvidence
    BY CandidateKeys, EvidenceType DEF Dep
  <2>2. pending' \subseteq Conclusion
    BY <1>21, <2>1, ClassifiersType, TrialSets DEF HideUnenforceable, TypeOK
  <2>3. Limitation("no-hiding", HideTargets) \in LimitationRecord
    BY CandidateKeys, LimitationType DEF Dep, LimitationKind
  <2>4. limitations' \in Seq(LimitationRecord)
    BY <1>21, <2>3 DEF HideUnenforceable, TypeOK
  <2> QED
    BY <1>21, <2>2, <2>4 DEF HideUnenforceable, TypeOK, Phases
<1>22. CASE HideBegin
  BY <1>22, CandidateKeys DEF HideBegin, TypeOK, Phases, Dep
<1>23. CASE HideDrop
  BY <1>11, <1>15, <1>23 DEF HideDrop
<1>24. CASE HideTrial
  <2>1. PICK e \in agenda : TestTarget(e, "hide", HideExecutable(e))
    BY <1>24 DEF HideTrial
  <2>2. HideExecutable(e) \in Treatment
    <3>1. e \in Exe
      BY <1>24 DEF HideTrial, TypeOK
    <3> QED
      BY <3>1, TreatmentType
  <2> QED
    BY <1>12, <1>15, <2>1, <2>2
<1>25. CASE HideUnsupported
  <2>1. PICK e \in agenda : /\ pending' = classify_unenforceable({Evidence(e, TRUE)})
                            /\ agenda' = agenda \ {e}
    BY <1>25 DEF HideUnsupported
  <2>2. {Evidence(e, TRUE)} \subseteq CandidateEvidence
    BY <1>15, EvidenceType
  <2>3. pending' \subseteq Conclusion
    BY <2>1, <2>2, ClassifiersType, TrialSets DEF TypeOK
  <2>4. results' \in Seq(TrialRecord) /\ seen' \in Observations
    BY <1>25, NothingSeenType DEF HideUnsupported
  <2>5. agenda' \subseteq agenda /\ phase' = phase
    BY <1>25, <2>1 DEF HideUnsupported
  <2> QED
    BY <1>25, <2>3, <2>4, <2>5 DEF HideUnsupported, TypeOK
<1>26. CASE HideConclude
  BY <1>13, <1>15, <1>26 DEF HideConclude
<1>27. CASE HideReport
  BY <1>14, <1>27 DEF HideReport, LimitationKind, Phases
<1>28. CASE SkipWorld
  BY <1>28, AdvanceType, States DEF SkipWorld, TypeOK, Phases, World
<1>29. CASE ProposeWorld
  <2>1. \A necessity : Keys(necessity) \subseteq Dep
    BY DEF Keys, TypeOK, Classified
  <2>2. workflow' \in AnalysisState
    BY <1>29, AdvanceType, States DEF ProposeWorld, TypeOK
  <2>3. world' \in World
    BY <1>29, <2>1 DEF ProposeWorld, World
  <2>4. journal' \in Seq(Event)
    <3>1. [event |-> "world-synthesized", required |-> Keys("required"),
           optional |-> Keys("optional"), unresolved |-> Keys("unresolved")] \in Event
      BY <2>1, EventTypes
    <3> QED
      BY <1>29, <3>1 DEF ProposeWorld, TypeOK
  <2> QED
    BY <1>29, <2>2, <2>3, <2>4 DEF ProposeWorld, TypeOK, Phases
<1>30. CASE ReplayTrial
  BY <1>30, RunTrialType, TreatmentType DEF ReplayTrial, TypeOK, Phases
<1>31. CASE ConcludeReplay
  <2> DEFINE replay == trials[Len(trials)]
  <2>1. workflow' \in AnalysisState
    BY <1>31, AdvanceType, States DEF ConcludeReplay, TypeOK
  <2>2. world' \in World
    BY <1>31 DEF ConcludeReplay, TypeOK, World
  <2>3. journal' \in Seq(Event)
    <3>1. replay \in TrialRecord
      BY <1>31 DEF ConcludeReplay, TypeOK, ReplayKept
    <3>2. replay.outcome.passed \in BOOLEAN
      <4>1. replay.outcome \in TrialOutcome
        BY <3>1 DEF TrialRecord
      <4>2. \A o \in TrialOutcome : o.passed \in BOOLEAN
        BY DEF TrialOutcome
      <4> QED
        BY <4>1, <4>2
    <3> QED
      BY <1>31, <3>2, EventTypes DEF ConcludeReplay, TypeOK
  <2> QED
    BY <1>31, <2>1, <2>2, <2>3, NothingSeenType DEF ConcludeReplay, TypeOK, Phases
<1>32. CASE Finalize
  <2>1. journal' \in Seq(Event)
    <3> DEFINE recorded == [i \in DOMAIN limitations |->
                              [event |-> "limitation-recorded", limitation |-> limitations[i]]]
    <3>1. recorded \in Seq(Event)
      BY EventTypes DEF TypeOK
    <3>2. journal' = journal \o recorded
      BY <1>32 DEF Finalize
    <3> HIDE DEF recorded
    <3> QED
      BY <3>1, <3>2 DEF TypeOK
  <2>2. workflow' \in AnalysisState
    BY <1>32, AdvanceType, States DEF Finalize, TypeOK
  <2> QED
    BY <1>32, <2>1, <2>2 DEF Finalize, TypeOK, Phases
<1>33. CASE Abort
  BY <1>33 DEF Abort, TypeOK
<1> QED
  BY <1>0, <1>1, <1>2, <1>3, <1>4, <1>5, <1>6, <1>7, <1>8, <1>9, <1>10, <1>16, <1>17, <1>18,
     <1>19, <1>20, <1>21, <1>22, <1>23, <1>24, <1>25, <1>26, <1>27, <1>28, <1>29, <1>30,
     <1>31, <1>32, <1>33 DEF Next, Step, Experiment

-----------------------------------------------------------------------------
(* The replay's trial.                                                     *)

\* A trial of an isolation loop isolates, and no other trial does.
LEMMA IsolatedAfterTrial ==
  ASSUME TypeOK,
         NEW purpose \in {"baseline", "no-egress", "block", "hide", "replay"},
         NEW key \in Dep \cup {0}, NEW treatment \in Treatment, NEW answer,
         RunTrial(purpose, key, treatment, answer)
  PROVE  purpose \notin {"block", "hide"} => Isolated' = Isolated
<1>1. PICK record \in TrialRecord : trials' = Append(trials, record)
                                    /\ record.label.purpose = purpose
  <2> DEFINE record == [label |-> [purpose |-> purpose, key |-> key, run |-> Len(results) + 1],
                        treatment |-> treatment, enforcement |-> answer.enforcement,
                        outcome |-> answer.outcome]
  <2>1. answer \in TrialResult
    BY AnswersAssumption DEF TypeOK, RunTrial
  <2>2. record \in TrialRecord
    BY <2>1 DEF TypeOK, TrialRecord, TrialResult, Label
  <2> QED
    BY <2>2 DEF RunTrial
<1>2. Records(trials)' = Records(trials) \cup {record}
  BY <1>1, RecordsAppend DEF TypeOK
<1> QED
  BY <1>1, <1>2 DEF Isolated, Purposes

\* No trial, no change.
LEMMA IsolatedKept ==
  ASSUME UNCHANGED trials  PROVE UNCHANGED Isolated
BY DEF Isolated, Purposes, Records

\* The initial states keep the replay.
LEMMA InitReplayKept == Init => ReplayKept
<1> SUFFICES ASSUME Init PROVE ReplayKept
  OBVIOUS
<1>1. policy.max_trials \in Nat
  BY PolicyType DEF Init
<1>2. Isolated = {}
  BY DEF Init, Isolated, Purposes, Records
<1> QED
  BY <1>1, <1>2 DEF Init, ReplayKept

\* What a trial does to the budget.
LEMMA BudgetAfterTrial ==
  ASSUME TypeOK, ReplayKept,
         NEW purpose, NEW key, NEW treatment, NEW answer,
         RunTrial(purpose, key, treatment, answer)
  PROVE  /\ executed < policy.max_trials /\ executed' = executed + 1
         /\ executed' = Len(trials') /\ trials' # <<>>
         /\ results' # <<>> /\ Len(results') = Len(results) + 1
BY PolicyType DEF RunTrial, HasBudget, TypeOK, ReplayKept

\* Every step keeps the replay.
LEMMA StepReplayKept == TypeOK /\ ReplayKept /\ [Next]_vars => ReplayKept'
<1> SUFFICES ASSUME TypeOK, ReplayKept, [Next]_vars PROVE ReplayKept'
  OBVIOUS
<1> USE DEF At, Journal, inputs, loop, found, ResetLoop
<1>0. /\ policy.max_trials \in Nat /\ executed \in Nat /\ RunsPer \in Nat \ {0}
      /\ Len(results) \in Nat /\ phase \in Phases
  BY PolicyType DEF TypeOK
<1>1. CASE UNCHANGED vars
  BY <1>1, IsolatedKept DEF vars, ReplayKept, RunsPer, Screened
<1>2. CASE SelectWorkload
  BY <1>2, IsolatedKept DEF SelectWorkload, ReplayKept
<1>3. CASE PrepareEnvironment
  BY <1>3, IsolatedKept DEF PrepareEnvironment, ReplayKept
<1>4. CASE TakeSnapshot
  BY <1>4, IsolatedKept DEF TakeSnapshot, ReplayKept
<1>5. CASE BaselineTrial
  <2>1. PICK answer : RunTrial("baseline", 0, NoTreatment, answer)
    BY <1>5 DEF BaselineTrial
  <2>2. Isolated' = Isolated
    BY <2>1, IsolatedAfterTrial, TreatmentType
  <2> QED
    BY <1>0, <1>5, <2>1, <2>2, BudgetAfterTrial DEF BaselineTrial, ReplayKept
<1>6. CASE AssessBaseline
  <2>1. Isolated = {} /\ Isolated' = Isolated
    BY <1>6, IsolatedKept DEF AssessBaseline, ReplayKept
  <2> QED
    BY <1>6, <2>1 DEF AssessBaseline, ReplayKept
<1>7. CASE JournalConclusion
  BY <1>7, IsolatedKept DEF JournalConclusion, ReplayKept, RunsPer, Screened
<1>8. CASE ScreenSkip
  BY <1>8, IsolatedKept DEF ScreenSkip, ReplayKept, Screened
<1>9. CASE ScreenUnenforceable
  BY <1>9, IsolatedKept DEF ScreenUnenforceable, ReplayKept, Screened
<1>10. CASE ScreenTrial
  <2>1. PICK answer : RunTrial("no-egress", 0, DenyAllEgress, answer)
    BY <1>10 DEF ScreenTrial
  <2>2. Isolated' = Isolated
    BY <2>1, IsolatedAfterTrial, TreatmentType
  <2> QED
    BY <1>0, <1>10, <2>1, <2>2, BudgetAfterTrial DEF ScreenTrial, ReplayKept, Screened
<1>11. CASE ScreenConclude
  <2>1. Isolated = {} /\ Isolated' = Isolated
    BY <1>11, IsolatedKept DEF ScreenConclude, ReplayKept
  <2> QED
    BY <1>11, <2>1 DEF ScreenConclude, ReplayKept
<1>12. ASSUME NEW k \in Dep, phase \in {"isolate", "hide-trials"}, DropTarget(k)
       PROVE  ReplayKept'
  BY <1>12, IsolatedKept DEF DropTarget, ReplayKept
<1>13. ASSUME NEW k \in agenda, phase \in {"isolate", "hide-trials"},
              NEW purpose, NEW treatment, TestTarget(k, purpose, treatment)
       PROVE  ReplayKept'
  <2>1. PICK answer : RunTrial(purpose, k, treatment, answer)
    BY <1>13 DEF TestTarget
  <2>2. /\ executed' = executed + 1 /\ executed' = Len(trials')
        /\ Len(results') = Len(results) + 1 /\ results' # <<>>
    BY <2>1, BudgetAfterTrial
  <2>3. executed + (RunsPer - Len(results)) + 1 <= policy.max_trials
    BY <1>0, <1>13 DEF TestTarget, CanReserve, ReplayKept
  <2>4. Len(results) < RunsPer /\ RunsPer' = RunsPer
    BY <1>13 DEF TestTarget, RunsPer
  <2>5. /\ Len(results') <= RunsPer'
        /\ executed' + (RunsPer' - Len(results')) + 1 <= policy'.max_trials
        /\ executed' <= policy'.max_trials
    BY <1>0, <1>13, <2>2, <2>3, <2>4 DEF TestTarget
  <2> QED
    BY <1>13, <2>2, <2>5 DEF TestTarget, ReplayKept
<1>14. ASSUME NEW k \in Dep, phase \in {"isolate", "hide-trials"}, ConcludeTarget(k)
       PROVE  ReplayKept'
  <2>1. executed < policy.max_trials
    BY <1>0, <1>14 DEF ConcludeTarget, ReplayKept
  <2> QED
    BY <1>14, <2>1, IsolatedKept DEF ConcludeTarget, ReplayKept
<1>15. ASSUME NEW kind, NEW next \in {"hide", "complete"},
              phase \in {"isolate", "hide-trials"}, ReportDropped(kind, next)
       PROVE  ReplayKept'
  BY <1>15, IsolatedKept DEF ReportDropped, ReplayKept
<1>16. agenda \subseteq Dep
  BY DEF TypeOK, Dep
<1>17. CASE BlockDrop
  BY <1>12, <1>16, <1>17 DEF BlockDrop
<1>18. CASE BlockTrial
  BY <1>13, <1>18 DEF BlockTrial
<1>19. CASE BlockConclude
  BY <1>14, <1>16, <1>19 DEF BlockConclude
<1>20. CASE BlockReport
  BY <1>15, <1>20 DEF BlockReport
<1>21. CASE HideSkip
  BY <1>21, IsolatedKept DEF HideSkip, ReplayKept
<1>22. CASE HideUnenforceable
  BY <1>22, IsolatedKept DEF HideUnenforceable, ReplayKept
<1>23. CASE HideBegin
  BY <1>23, IsolatedKept DEF HideBegin, ReplayKept
<1>24. CASE HideDrop
  BY <1>12, <1>16, <1>24 DEF HideDrop
<1>25. CASE HideTrial
  BY <1>13, <1>25 DEF HideTrial
<1>26. CASE HideUnsupported
  <2>1. Isolated # {} => executed < policy.max_trials
    BY <1>26 DEF HideUnsupported, HasBudget
  <2> QED
    BY <1>26, <2>1, IsolatedKept DEF HideUnsupported, ReplayKept
<1>27. CASE HideConclude
  BY <1>14, <1>16, <1>27 DEF HideConclude
<1>28. CASE HideReport
  BY <1>15, <1>28 DEF HideReport
<1>29. CASE SkipWorld
  BY <1>29, IsolatedKept DEF SkipWorld, ReplayKept
<1>30. CASE ProposeWorld
  <2>1. policy.attempt_replay /\ Isolated # {} => phase' = "replay"
    BY <1>30 DEF ProposeWorld, At, MayReplay, ReplayKept, HasBudget
  <2>2. phase' \in {"replay", "finalize"}
    BY <1>30 DEF ProposeWorld
  <2> QED
    BY <1>30, <2>1, <2>2, IsolatedKept DEF ProposeWorld, ReplayKept
<1>31. CASE ReplayTrial
  <2>1. PICK answer : RunTrial("replay", 0, NoTreatment, answer)
    BY <1>31 DEF ReplayTrial
  <2> QED
    BY <1>0, <1>31, <2>1, BudgetAfterTrial DEF ReplayTrial, ReplayKept
<1>32. CASE ConcludeReplay
  BY <1>32, IsolatedKept DEF ConcludeReplay, ReplayKept, TypeOK, World
<1>33. CASE Finalize
  BY <1>33, IsolatedKept DEF Finalize, ReplayKept
<1>34. CASE Abort
  BY <1>34, IsolatedKept DEF Abort, ReplayKept, RunsPer, Screened
<1> QED
  BY <1>1, <1>2, <1>3, <1>4, <1>5, <1>6, <1>7, <1>8, <1>9, <1>10, <1>11, <1>17, <1>18, <1>19,
     <1>20, <1>21, <1>22, <1>23, <1>24, <1>25, <1>26, <1>27, <1>28, <1>29, <1>30, <1>31,
     <1>32, <1>33, <1>34 DEF Next, Step, Experiment

-----------------------------------------------------------------------------
(* Types and the replay.                                                   *)

\* The invariants hold together in every reachable state.
LEMMA Reachable == Spec => [](TypeOK /\ ReplayKept)
<1>1. Init => TypeOK /\ ReplayKept
  BY InitTypeOK, InitReplayKept
<1>2. TypeOK /\ ReplayKept /\ [Next]_vars => TypeOK' /\ ReplayKept'
  BY StepTypeOK, StepReplayKept
<1> QED
  BY <1>1, <1>2, PTL DEF Spec

\* Every reachable state is well typed.
THEOREM TypeCorrect == Spec => []TypeOK
BY Reachable, PTL

\* The budget is never exceeded, and an analysis that isolated a dependency
\* and may replay always ends with a replayed world.
THEOREM ReplayIsReserved == Spec => []ReplayReserved
<1>1. TypeOK /\ ReplayKept => ReplayReserved
  BY DEF ReplayKept, ReplayReserved
<1> QED
  BY <1>1, Reachable, PTL

-----------------------------------------------------------------------------
(* The invariant of the labels.                                            *)

Early == {"select", "prepare", "snapshot", "baseline"}
Late  == {"replay", "replayed", "finalize", "done"}

\* The purposes a trial can have had by the time prove() stands at p.
PurposesBy(p) ==
  CASE p \in Early -> {"baseline"}
    [] p = "screen" -> {"baseline", "no-egress"}
    [] p \in {"isolate", "hide"} -> {"baseline", "no-egress", "block"}
    [] p \in {"hide-trials", "complete", "replay"} -> {"baseline", "no-egress", "block", "hide"}
    [] OTHER -> {"baseline", "no-egress", "block", "hide", "replay"}

\* The trials of the loop prove() is in: their label and their treatment.
OfLoop(t) ==
  \/ /\ phase = "baseline" /\ t.label.purpose = "baseline" /\ t.label.key = 0
     /\ t.treatment = NoTreatment
  \/ /\ phase = "screen" /\ t.label.purpose = "no-egress" /\ t.label.key = 0
     /\ t.treatment = DenyAllEgress
  \/ /\ phase = "isolate" /\ t.label.purpose = "block" /\ NextBlock(t.label.key)
     /\ t.treatment = BlockDependency(t.label.key)
  \/ /\ phase = "hide-trials" /\ t.label.purpose = "hide" /\ NextHide(t.label.key)
     /\ t.treatment = HideExecutable(t.label.key)
  \/ /\ phase = "replayed" /\ t.label.purpose = "replay" /\ t.treatment = NoTreatment

\* The labels the current loop, or what is left of it, gives its trials.
InProgress(label) ==
  \/ phase \in Early /\ label.purpose = "baseline"
  \/ phase = "screen" /\ label.purpose = "no-egress"
  \/ phase = "isolate" /\ label.purpose = "block" /\ label.key \in agenda
  \/ phase = "hide-trials" /\ label.purpose = "hide" /\ label.key \in agenda

\* The trials of the loop are kept in results, each run has a label of its own.
TrialsInOrder ==
  /\ \A t \in Records(results) : t \in Records(trials) /\ OfLoop(t) /\ t.label.run <= Len(results)
  /\ \A t \in Records(trials) : t.label.purpose \in PurposesBy(phase)
  /\ \A t \in Records(trials) : InProgress(t.label) => t \in Records(results)
  /\ \A t, u \in Records(trials) : t.label = u.label => t = u

\* The dependencies the coming steps may still label.
ToLabel ==
  CASE phase = "screen"      -> Screened \cup HideTargets
    [] phase = "isolate"     -> agenda \cup dropped \cup HideTargets
    [] phase = "hide"        -> HideTargets
    [] phase = "hide-trials" -> agenda \cup dropped
    [] OTHER                 -> {}

\* A target is due or dropped, never both, and belongs to the loop's kind.
TargetsApart ==
  /\ phase \notin {"isolate", "hide-trials"} => dropped = {}
  /\ phase = "isolate" => dropped \subseteq Net
  /\ phase = "hide-trials" => dropped \subseteq Exe
  /\ agenda \cap dropped = {} /\ agenda \cup dropped \subseteq Candidates

\* What is labelled is not a target any more.
LabelledOnce ==
  /\ OneVerdictEach
  /\ \A c \in conclusions \cup pending : c.dependency \in Candidates \ ToLabel
  /\ phase \in Early => conclusions = {} /\ pending = {}
  /\ TargetsApart

TakesAway(t, d) ==
  /\ t.enforcement = "enforced"
  /\ \/ t.treatment = DenyAllEgress /\ d \in Net
     \/ t.treatment \in {BlockDependency(d), HideExecutable(d)}

RequiredFor(c) ==
  /\ Cited(c) # {} /\ AllFailed(Cited(c)) /\ SignaturesCompatible(Cited(c))
  /\ \A t \in Cited(c) : TakesAway(t, c.dependency)

OutOfReach(d) ==
  \/ d \in DOMAIN networkCandidates /\ networkCandidates[d].allFailed
  \/ d \in DOMAIN executableCandidates /\ ~executableCandidates[d]

OptionalFor(c) ==
  /\ Cited(c) # {} /\ AllPassed(Cited(c))
  /\ \/ \A t \in Cited(c) : TakesAway(t, c.dependency)
     \/ Cited(c) = Purposes("baseline") /\ OutOfReach(c.dependency)

Earned(c) ==
  /\ c.necessity = "required" => RequiredFor(c)
  /\ c.necessity = "optional" => OptionalFor(c)

\* Labels are earned when they are given, journaled or not, and stay so:
\* the trials they cite are there, and no later trial has one of their labels.
LabelsEarned ==
  /\ \A c \in conclusions \cup pending : c.trials \subseteq Labels(Records(trials)) /\ Earned(c)
  /\ \/ \E t \in Records(trials) : t.treatment # NoTreatment
     \/ \E c \in conclusions \cup pending : c.necessity # "unresolved"
     => phase \notin Early /\ supports_experiments(baseline)
  /\ phase \notin Early /\ supports_experiments(baseline) =>
       AllPassed(Purposes("baseline")) /\ Purposes("baseline") # {}

\* Every trial is in the journal, and the conclusions point into it.
Journaled ==
  /\ \A t \in Records(trials) : \E i \in DOMAIN journal :
       journal[i].event = "trial-completed" /\ journal[i].label = t.label
  /\ Provenance

Synthesized(event) ==
  event.event = "world-synthesized" /\ event.required = Keys("required")

ReplayRun(event) ==
  event.event = "trial-completed" /\ event.label.purpose = "replay"

\* The world is frozen once, from all the labels.
WorldFrozen ==
  /\ phase \notin Late => world.status = "none"
  /\ phase \in {"replay", "replayed"} => world.status = "proposed"
  /\ phase \in {"finalize", "done"} => world.status # "none"
  /\ phase \in Late => pending = {}
  /\ world.status \in {"none", "not-synthesized"} =>
       world.required = {} /\ world.optional = {} /\ world.unresolved = {}
  /\ world.status = "not-synthesized" => ~supports_experiments(baseline)
  /\ world.status \in {"proposed", "verified", "replay-failed"} =>
       /\ supports_experiments(baseline)
       /\ world.required = Keys("required") /\ world.optional = Keys("optional")
       /\ world.unresolved = Keys("unresolved")

\* The replay comes after the synthesis, in the trials and in the journal.
ReplayTrail ==
  /\ phase = "replay" => \E i \in DOMAIN journal : Synthesized(journal[i])
  /\ phase = "replayed" =>
       /\ trials # <<>> /\ trials[Len(trials)].label.purpose = "replay"
       /\ trials[Len(trials)].treatment = NoTreatment
       /\ \E i, j \in DOMAIN journal :
            i < j /\ Synthesized(journal[i]) /\ ReplayRun(journal[j])
  /\ VerifiedMeansReplayed

\* The hide loop: after the first target that did not fit, none fits; the
\* utilities are reached when no project tool is left.
ToolsFirst ==
  /\ phase \in {"isolate", "hide-trials"} /\ dropped # {} => results = <<>> /\ ~CanReserve
  /\ phase = "hide-trials" =>
       \A t \in Purposes("hide") : t.label.key \in Ubiquitous => agenda \cup dropped \subseteq Ubiquitous
  /\ \A i \in DOMAIN limitations :
       limitations[i].limitation = "budget-hide" => phase \in {"complete"} \cup Late
  /\ ToolingFirst

\* All six, over well-typed states in which the budget is kept.
Inv ==
  /\ TypeOK /\ ReplayKept
  /\ TrialsInOrder /\ LabelledOnce /\ LabelsEarned /\ Journaled
  /\ WorkflowFollows /\ WorldFrozen /\ ReplayTrail /\ ToolsFirst

-----------------------------------------------------------------------------
(* Steps that run a trial.                                                 *)

\* What a step that ran a trial did: one more record, of a label that no
\* earlier trial has, kept in the loop and journaled.
Taken(record) ==
  /\ record \in TrialRecord
  /\ trials' = Append(trials, record)
  /\ results' = Append(results, record)
  /\ Records(trials)' = Records(trials) \cup {record}
  /\ Records(results)' = Records(results) \cup {record}
  /\ record.label.run = Len(results) + 1
  /\ journal' = Append(journal, [event |-> "trial-completed", label |-> record.label])
  /\ \A t \in Records(trials) : t.label # record.label

TrialStep == BaselineTrial \/ ScreenTrial \/ BlockTrial \/ HideTrial \/ ReplayTrial

\* A trial whose purpose and key are those of the loop has a fresh label.
LEMMA TrialTaken ==
  ASSUME TypeOK, TrialsInOrder,
         NEW purpose \in {"baseline", "no-egress", "block", "hide", "replay"},
         NEW key \in Dep \cup {0}, NEW treatment \in Treatment, NEW answer,
         RunTrial(purpose, key, treatment, answer),
         \A t \in Records(trials) :
           t.label.purpose = purpose /\ t.label.key = key => t \in Records(results)
  PROVE  \E record : /\ Taken(record)
                     /\ record.label.purpose = purpose /\ record.label.key = key
                     /\ record.treatment = treatment
<1> DEFINE label  == [purpose |-> purpose, key |-> key, run |-> Len(results) + 1]
           record == [label |-> label, treatment |-> treatment,
                      enforcement |-> answer.enforcement, outcome |-> answer.outcome]
<1>1. answer \in TrialResult
  BY AnswersAssumption DEF TypeOK, RunTrial
<1>2. label \in Label
  BY DEF Label, TypeOK
<1>3. record \in TrialRecord
  BY <1>1, <1>2 DEF TrialRecord, TrialResult
<1>4. /\ trials' = Append(trials, record) /\ results' = Append(results, record)
      /\ journal' = Append(journal, [event |-> "trial-completed", label |-> record.label])
  BY DEF RunTrial, Journal
<1>5. record.label = label /\ record.treatment = treatment
  OBVIOUS
<1>6. label.purpose = purpose /\ label.key = key /\ label.run = Len(results) + 1
  OBVIOUS
<1> HIDE DEF record, label
<1>7. /\ Records(trials)' = Records(trials) \cup {record}
      /\ Records(results)' = Records(results) \cup {record}
  BY <1>3, <1>4, RecordsAppend DEF TypeOK
<1>8. ASSUME NEW t \in Records(trials), t.label = label  PROVE FALSE
  <2>1. t.label.run <= Len(results)
    BY <1>6, <1>8 DEF TrialsInOrder
  <2> QED
    BY <1>6, <1>8, <2>1 DEF TypeOK
<1> QED
  BY <1>3, <1>4, <1>5, <1>6, <1>7, <1>8 DEF Taken

\* The trial of a step is a trial of the loop prove() is then in, and the step
\* changes nothing but the budget, the records and the journal.
LEMMA TrialSteps ==
  ASSUME TypeOK, TrialsInOrder, TrialStep
  PROVE  /\ \E record : Taken(record) /\ OfLoop(record)'
         /\ phase' = IF phase = "replay" THEN "replayed" ELSE phase
         /\ phase \in {"baseline", "screen", "isolate", "hide-trials", "replay"}
         /\ pending = {} /\ outcome = "running" /\ HasBudget /\ executed' = executed + 1
         /\ phase \in {"isolate", "hide-trials"} => (results = <<>> => CanReserve)
         /\ UNCHANGED <<inputs, outcome, workflow, environment, agenda, dropped, found, pending,
                        conclusions, limitations, world>>
<1> USE DEF At
<1>1. CASE BaselineTrial
  <2>1. PICK answer : RunTrial("baseline", 0, NoTreatment, answer)
    BY <1>1 DEF BaselineTrial
  <2>2. PICK record : /\ Taken(record) /\ record.label.purpose = "baseline"
                      /\ record.label.key = 0 /\ record.treatment = NoTreatment
    BY <1>1, <2>1, TrialTaken, TreatmentType
       DEF BaselineTrial, TrialsInOrder, InProgress, Early
  <2> QED
    BY <1>1, <2>1, <2>2 DEF BaselineTrial, OfLoop, RunTrial
<1>2. CASE ScreenTrial
  <2>1. PICK answer : RunTrial("no-egress", 0, DenyAllEgress, answer)
    BY <1>2 DEF ScreenTrial
  <2>2. PICK record : /\ Taken(record) /\ record.label.purpose = "no-egress"
                      /\ record.label.key = 0 /\ record.treatment = DenyAllEgress
    BY <1>2, <2>1, TrialTaken, TreatmentType
       DEF ScreenTrial, TrialsInOrder, InProgress
  <2> QED
    BY <1>2, <2>1, <2>2 DEF ScreenTrial, OfLoop, RunTrial
<1>3. CASE BlockTrial
  <2>1. PICK n \in agenda : NextBlock(n) /\ TestTarget(n, "block", BlockDependency(n))
    BY <1>3 DEF BlockTrial
  <2>2. PICK answer : RunTrial("block", n, BlockDependency(n), answer)
    BY <2>1 DEF TestTarget
  <2>3. n \in Net /\ phase = "isolate"
    BY <1>3 DEF BlockTrial, TypeOK
  <2>4. PICK record : /\ Taken(record) /\ record.label.purpose = "block"
                      /\ record.label.key = n /\ record.treatment = BlockDependency(n)
    BY <2>2, <2>3, TrialTaken, TreatmentType DEF Dep, TrialsInOrder, InProgress
  <2>5. NextBlock(n)'
    BY <2>1 DEF TestTarget, NextBlock
  <2> QED
    BY <1>3, <2>1, <2>2, <2>3, <2>4, <2>5 DEF BlockTrial, TestTarget, OfLoop, RunTrial
<1>4. CASE HideTrial
  <2>1. PICK e \in agenda : NextHide(e) /\ TestTarget(e, "hide", HideExecutable(e))
    BY <1>4 DEF HideTrial
  <2>2. PICK answer : RunTrial("hide", e, HideExecutable(e), answer)
    BY <2>1 DEF TestTarget
  <2>3. e \in Exe /\ phase = "hide-trials"
    BY <1>4 DEF HideTrial, TypeOK
  <2>4. PICK record : /\ Taken(record) /\ record.label.purpose = "hide"
                      /\ record.label.key = e /\ record.treatment = HideExecutable(e)
    BY <2>2, <2>3, TrialTaken, TreatmentType DEF Dep, TrialsInOrder, InProgress
  <2>5. NextHide(e)'
    BY <2>1 DEF TestTarget, NextHide
  <2> QED
    BY <1>4, <2>1, <2>2, <2>3, <2>4, <2>5 DEF HideTrial, TestTarget, OfLoop, RunTrial
<1>5. CASE ReplayTrial
  <2>1. PICK answer : RunTrial("replay", 0, NoTreatment, answer)
    BY <1>5 DEF ReplayTrial
  <2>2. PICK record : /\ Taken(record) /\ record.label.purpose = "replay"
                      /\ record.label.key = 0 /\ record.treatment = NoTreatment
    BY <1>5, <2>1, TrialTaken, TreatmentType
       DEF ReplayTrial, TrialsInOrder, PurposesBy, Early
  <2> QED
    BY <1>5, <2>1, <2>2 DEF ReplayTrial, OfLoop, RunTrial
<1> QED
  BY <1>1, <1>2, <1>3, <1>4, <1>5 DEF TrialStep

-----------------------------------------------------------------------------
(* The parts of the invariant, step by step.                               *)

\* What only depends on the trials does not change without them.
LEMMA TrialsKept ==
  ASSUME UNCHANGED trials
  PROVE  /\ Records(trials)' = Records(trials)
         /\ \A purpose : Purposes(purpose)' = Purposes(purpose)
         /\ \A c : Cited(c)' = Cited(c)
         /\ BaselineLabels' = BaselineLabels
BY DEF Records, Purposes, Cited, BaselineLabels

\* An emptied loop has no records.
LEMMA NoRecords == Records(<<>>) = {}
BY DEF Records

\* The hide loop has one next target.
LEMMA OneNext ==
  ASSUME TypeOK, NEW k, NEW l
  PROVE  /\ phase = "isolate" /\ NextBlock(k) /\ NextBlock(l) => k = l
         /\ phase = "hide-trials" /\ NextHide(k) /\ NextHide(l) => k = l
<1>1. agenda \subseteq Nat
  BY KeyAssumption DEF TypeOK
<1>2. NextBlock(k) /\ NextBlock(l) => k \in agenda /\ l \in agenda /\ k <= l /\ l <= k
  BY DEF NextBlock
<1>3. NextHide(k) /\ NextHide(l) => k \in agenda /\ l \in agenda /\ k <= l /\ l <= k
  BY DEF NextHide
<1>4. \A m, n \in Nat : m <= n /\ n <= m => m = n
  OBVIOUS
<1>5. \A m, n \in agenda : m <= n /\ n <= m => m = n
  BY <1>1, <1>4
<1> QED
  BY <1>2, <1>3, <1>5

\* Before the first trial of a step nothing is in the loop.
LEMMA InitTrialsInOrder == Init => TrialsInOrder
BY NoRecords DEF Init, TrialsInOrder

\* Every step keeps the trials in order.
LEMMA StepTrialsInOrder ==
  TypeOK /\ ReplayKept /\ TrialsInOrder /\ [Next]_vars => TrialsInOrder'
<1> SUFFICES ASSUME TypeOK, ReplayKept, TrialsInOrder, [Next]_vars PROVE TrialsInOrder'
  OBVIOUS
<1> USE DEF At, inputs, loop, found, ResetLoop
<1>1. CASE TrialStep
  <2>1. PICK record : Taken(record) /\ OfLoop(record)'
    BY <1>1, TrialSteps
  <2>2. /\ UNCHANGED agenda
        /\ phase' = IF phase = "replay" THEN "replayed" ELSE phase
        /\ phase \in {"baseline", "screen", "isolate", "hide-trials", "replay"}
    BY <1>1, TrialSteps
  <2>3. \A t \in Records(results) : OfLoop(t)'
    BY <2>2 DEF TrialsInOrder, OfLoop, NextBlock, NextHide
  <2>4. record.label.purpose \in PurposesBy(phase)'
    BY <2>1 DEF OfLoop, PurposesBy, Early
  <2>5. \A t \in Records(trials) : t.label.purpose \in PurposesBy(phase)'
    BY <2>2 DEF TrialsInOrder, PurposesBy, Early
  <2>6. \A l : InProgress(l)' => InProgress(l)
    BY <2>2 DEF InProgress, Early
  <2>7. Len(results') = Len(results) + 1
    BY <2>1 DEF Taken, TypeOK
  <2>8. \A t \in Records(results) : t.label.run <= Len(results')
    <3>1. \A t \in Records(results) : t.label.run \in Nat
      BY TrialSets DEF TrialRecord, Label
    <3> QED
      BY <2>7, <3>1 DEF TrialsInOrder, TypeOK
  <2> QED
    BY <2>1, <2>3, <2>4, <2>5, <2>6, <2>7, <2>8 DEF Taken, TrialsInOrder, TypeOK
<1>2. ASSUME UNCHANGED <<phase, trials, results, agenda>>  PROVE TrialsInOrder'
  <2>1. UNCHANGED <<Records(trials), Records(results)>>
    BY <1>2 DEF Records
  <2>2. \A t : OfLoop(t)' <=> OfLoop(t)
    BY <1>2 DEF OfLoop, NextBlock, NextHide
  <2>3. \A l : InProgress(l)' <=> InProgress(l)
    BY <1>2 DEF InProgress
  <2> QED
    BY <1>2, <2>1, <2>2, <2>3 DEF TrialsInOrder
<1>3. ASSUME UNCHANGED trials, Records(results)' = {},
             \A t \in Records(trials) :
               /\ t.label.purpose \in PurposesBy(phase) => t.label.purpose \in PurposesBy(phase')
               /\ ~InProgress(t.label)'
      PROVE  TrialsInOrder'
  BY <1>3, TrialsKept DEF TrialsInOrder
<1>4. ASSUME phase \notin {"baseline", "screen", "isolate", "hide-trials", "replayed"}
      PROVE  Records(results) = {}
  BY <1>4 DEF TrialsInOrder, OfLoop
<1>5. CASE SelectWorkload \/ PrepareEnvironment \/ TakeSnapshot
  <2>1. /\ UNCHANGED <<trials, results, agenda>> /\ phase \in Early \ {"baseline"}
        /\ phase' \in Early
    BY <1>5 DEF SelectWorkload, PrepareEnvironment, TakeSnapshot, Early
  <2>2. Records(results)' = {}
    BY <1>4, <2>1 DEF Records, Early
  <2> QED
    BY <1>3, <1>4, <2>1, <2>2 DEF TrialsInOrder, InProgress, PurposesBy, Early
<1>6. CASE AssessBaseline
  <2>1. /\ UNCHANGED <<trials, agenda>> /\ phase = "baseline" /\ phase' \in {"screen", "complete"}
        /\ results' = <<>>
    BY <1>6 DEF AssessBaseline
  <2> QED
    BY <1>3, <2>1, NoRecords DEF TrialsInOrder, InProgress, PurposesBy, Early
<1>7. CASE JournalConclusion \/ Abort \/ UNCHANGED vars
  BY <1>2, <1>7 DEF JournalConclusion, Abort, vars
<1>8. CASE ScreenSkip \/ ScreenUnenforceable \/ ScreenConclude
  <2>1. /\ UNCHANGED trials /\ phase = "screen" /\ phase' \in {"hide", "isolate"}
    BY <1>8 DEF ScreenSkip, ScreenUnenforceable, ScreenConclude
  <2>2. Records(results)' = {}
    BY <1>8, NoRecords DEF ScreenSkip, ScreenUnenforceable, ScreenConclude, ReplayKept
  <2> QED
    BY <1>3, <2>1, <2>2 DEF TrialsInOrder, InProgress, PurposesBy, Early
<1>9. CASE HideSkip \/ HideUnenforceable \/ HideBegin
  <2>1. /\ UNCHANGED <<trials, results>> /\ phase = "hide" /\ phase' \in {"hide-trials", "complete"}
    BY <1>9 DEF HideSkip, HideUnenforceable, HideBegin
  <2>2. Records(results)' = {}
    BY <1>4, <2>1 DEF Records
  <2> QED
    BY <1>3, <2>1, <2>2 DEF TrialsInOrder, InProgress, PurposesBy, Early
<1>10. ASSUME NEW k \in agenda, phase = "isolate" \/ phase = "hide-trials",
              phase = "isolate" => NextBlock(k), phase = "hide-trials" => NextHide(k),
              UNCHANGED <<phase, trials>>, agenda' = agenda \ {k}, results' = <<>>
       PROVE  TrialsInOrder'
  <2>1. ASSUME NEW t \in Records(trials), InProgress(t.label)'  PROVE FALSE
    <3>1. InProgress(t.label) /\ t.label.key # k
      BY <1>10, <2>1 DEF InProgress, Early
    <3>2. OfLoop(t)
      BY <3>1 DEF TrialsInOrder
    <3>3. t.label.key = k
      BY <1>10, <3>2, OneNext DEF OfLoop
    <3> QED
      BY <3>1, <3>3
  <2> QED
    BY <1>3, <1>10, <2>1, NoRecords
<1>11. CASE BlockDrop \/ HideDrop
  <2>1. ASSUME NEW k \in agenda, DropTarget(k)
        PROVE  UNCHANGED <<phase, trials>> /\ agenda' = agenda \ {k} /\ results' = <<>>
    BY <2>1 DEF DropTarget
  <2> QED
    BY <1>10, <1>11, <2>1 DEF BlockDrop, HideDrop
<1>12. CASE BlockConclude \/ HideConclude
  <2>1. ASSUME NEW k \in agenda, ConcludeTarget(k)
        PROVE  UNCHANGED <<phase, trials>> /\ agenda' = agenda \ {k} /\ results' = <<>>
    BY <2>1 DEF ConcludeTarget
  <2> QED
    BY <1>10, <1>12, <2>1 DEF BlockConclude, HideConclude
<1>13. CASE HideUnsupported
  BY <1>10, <1>13 DEF HideUnsupported
<1>14. CASE BlockReport \/ HideReport
  <2>1. /\ UNCHANGED <<trials, results, agenda>> /\ agenda = {}
        /\ \/ phase = "isolate" /\ phase' = "hide"
           \/ phase = "hide-trials" /\ phase' = "complete"
    BY <1>14 DEF BlockReport, HideReport, ReportDropped
  <2>2. Records(results)' = {}
    BY <2>1 DEF TrialsInOrder, OfLoop, NextBlock, NextHide, Records
  <2> QED
    BY <1>3, <2>1, <2>2 DEF TrialsInOrder, InProgress, PurposesBy, Early
<1>15. CASE SkipWorld \/ ProposeWorld
  <2>1. /\ UNCHANGED <<trials, results>> /\ phase = "complete" /\ phase' \in {"replay", "finalize"}
    BY <1>15 DEF SkipWorld, ProposeWorld
  <2>2. Records(results)' = {}
    BY <1>4, <2>1 DEF Records
  <2> QED
    BY <1>3, <2>1, <2>2 DEF TrialsInOrder, InProgress, PurposesBy, Early
<1>16. CASE ConcludeReplay
  <2>1. UNCHANGED trials /\ phase = "replayed" /\ phase' = "finalize" /\ results' = <<>>
    BY <1>16 DEF ConcludeReplay
  <2> QED
    BY <1>3, <2>1, NoRecords DEF TrialsInOrder, InProgress, PurposesBy, Early
<1>17. CASE Finalize
  <2>1. UNCHANGED <<trials, results>> /\ phase = "finalize" /\ phase' = "done"
    BY <1>17 DEF Finalize
  <2>2. Records(results)' = {}
    BY <1>4, <2>1 DEF Records
  <2> QED
    BY <1>3, <2>1, <2>2 DEF TrialsInOrder, InProgress, PurposesBy, Early
<1> QED
  BY <1>1, <1>5, <1>6, <1>7, <1>8, <1>9, <1>11, <1>12, <1>13, <1>14, <1>15, <1>16, <1>17
     DEF Next, Step, Experiment, TrialStep

-----------------------------------------------------------------------------
(* One label each.                                                         *)

\* The targets of a well-typed state are candidates.
LEMMA TargetsType ==
  ASSUME TypeOK
  PROVE  /\ Screened \subseteq Net /\ HideTargets \subseteq Exe /\ Net \cap Exe = {}
         /\ Screened \subseteq Candidates /\ HideTargets \subseteq Candidates
         /\ phase = "isolate" => agenda \subseteq Net
         /\ phase = "hide-trials" => agenda \subseteq Exe
         /\ phase \notin {"isolate", "hide-trials"} => agenda = {}
<1>1. /\ phase = "isolate" => agenda \subseteq Net
      /\ phase = "hide-trials" => agenda \subseteq Exe
      /\ phase \notin {"isolate", "hide-trials"} => agenda = {}
  BY DEF TypeOK
<1>2. Screened \subseteq Candidates /\ HideTargets \subseteq Candidates
  BY DEF Screened, HideTargets, Candidates
<1> QED
  BY <1>1, <1>2, CandidateKeys, KeyAssumption

\* The candidates, and which of them were reached, do not change without found.
LEMMA FoundKept ==
  ASSUME UNCHANGED found
  PROVE  UNCHANGED <<Screened, HideTargets, Candidates>>
BY DEF found, Screened, HideTargets, Candidates

\* Labelling targets once each, and taking them off the targets.
LEMMA Labelling ==
  ASSUME TypeOK, LabelledOnce, pending = {}, UNCHANGED <<conclusions, found>>,
         phase' \notin Early, TargetsApart', OneEach(pending'),
         ToLabel' \subseteq ToLabel,
         \A c \in pending' : c.dependency \in ToLabel \ ToLabel'
  PROVE  LabelledOnce'
<1>1. ToLabel \subseteq Candidates
  BY TargetsType DEF ToLabel, LabelledOnce, TargetsApart
<1>2. UNCHANGED Candidates
  BY FoundKept
<1> QED
  BY <1>1, <1>2 DEF LabelledOnce, OneVerdictEach, OneEach

\* The evidence of one kind about a set of keys.
LEMMA EvidenceKeys ==
  ASSUME NEW S, NEW u \in BOOLEAN
  PROVE  /\ DistinctKeys({Evidence(k, u) : k \in S})
         /\ \A e \in {Evidence(k, u) : k \in S} : e.key \in S
<1> DEFINE E == {Evidence(k, u) : k \in S}
<1>1. \A e \in E : e = Evidence(e.key, u) /\ e.key \in S
  BY DEF Evidence
<1> QED
  BY <1>1 DEF DistinctKeys

\* The evidence of the screen: one record for each screened service.
LEMMA ScreenEvidenceKeys ==
  DistinctKeys(ScreenEvidence) /\ \A e \in ScreenEvidence : e.key \in Screened
<1>1. \A e \in ScreenEvidence :
        /\ e.key \in Screened
        /\ e = Evidence(e.key, e.key \in DOMAIN seen.network => seen.network[e.key].allFailed)
  BY DEF Evidence, ScreenEvidence
<1> QED
  BY <1>1 DEF DistinctKeys

\* The labels of a laboratory that cannot enforce: one for each candidate.
LEMMA UnenforceableLabels ==
  ASSUME NEW K, NEW candidates, DistinctKeys(candidates), \A e \in candidates : e.key \in K
  PROVE  /\ OneEach(classify_unenforceable(candidates))
         /\ \A c \in classify_unenforceable(candidates) : c.dependency \in K
BY DEF classify_unenforceable, Unresolved, OneEach, DistinctKeys

\* The labels of an intervention: one for each candidate.
LEMMA InterventionLabels ==
  ASSUME NEW K, NEW verdict, NEW records, NEW candidates, DistinctKeys(candidates),
         \A e \in candidates : e.key \in K
  PROVE  /\ OneEach(classify_intervention(verdict, records, candidates))
         /\ \A c \in classify_intervention(verdict, records, candidates) : c.dependency \in K
<1>1. \A c \in classify_intervention(verdict, records, candidates) : c.dependency \in K
  BY DEF classify_intervention
<1> QED
  BY <1>1, ClassifiedOnce

\* The conclusions of the baseline: one for each candidate, none of them about
\* a service or an executable that was reached.
LEMMA BaselineLabelling ==
  ASSUME NEW net \in PartialFunctions(Net, Sighting), NEW exe \in PartialFunctions(Exe, BOOLEAN),
         NEW verdict, NEW labels
  PROVE  LET free == classify_enforced_deny(verdict, labels, EnforcedDeny(net))
                       \cup classify_natural_counterfactual(verdict, labels, Natural(net, exe))
             none == classify_intervention(verdict, {}, Unsupported(net, exe))
         IN  /\ OneEach(free) /\ OneEach(none)
             /\ \A c \in free : \/ c.dependency \in DOMAIN net /\ net[c.dependency].allFailed
                                \/ c.dependency \in DOMAIN exe /\ ~exe[c.dependency]
             /\ \A c \in none : c.dependency \in DOMAIN net \cup DOMAIN exe
<1> DEFINE free == classify_enforced_deny(verdict, labels, EnforcedDeny(net))
                     \cup classify_natural_counterfactual(verdict, labels, Natural(net, exe))
           none == classify_intervention(verdict, {}, Unsupported(net, exe))
<1>1. DOMAIN net \subseteq Net /\ DOMAIN exe \subseteq Exe /\ Net \cap Exe = {}
  BY PartialFunctionIff, KeyAssumption
<1>2. \A c \in free : c = [dependency |-> c.dependency, necessity |-> "optional",
                           trials |-> labels]
  BY DEF classify_enforced_deny, classify_natural_counterfactual
<1>3. OneEach(free)
  BY <1>2 DEF OneEach
<1>4. \A e \in EnforcedDeny(net) : e.key \in DOMAIN net /\ net[e.key].allFailed
  BY DEF Evidence, EnforcedDeny
<1>5. \A e \in Natural(net, exe) : \/ e.key \in DOMAIN net /\ net[e.key].allFailed
                                   \/ e.key \in DOMAIN exe /\ ~exe[e.key]
  BY DEF Evidence, Natural
<1>6. \A e \in Unsupported(net, exe) : e.key \in DOMAIN net \cup DOMAIN exe
  BY DEF Evidence, Unsupported
<1>7. DistinctKeys(Unsupported(net, exe))
  <2>1. \A e \in Unsupported(net, exe) :
          \/ e.key \in DOMAIN net /\ e = Evidence(e.key, FALSE)
          \/ e.key \in DOMAIN exe /\ e = Evidence(e.key, ~exe[e.key])
    BY DEF Evidence, Unsupported
  <2> QED
    BY <1>1, <2>1 DEF DistinctKeys
<1>8. OneEach(none) /\ \A c \in none : c.dependency \in DOMAIN net \cup DOMAIN exe
  BY <1>6, <1>7, InterventionLabels
<1>9. \A c \in free : \/ \E e \in EnforcedDeny(net) : c.dependency = e.key
                      \/ \E e \in Natural(net, exe) : c.dependency = e.key
  BY DEF classify_enforced_deny, classify_natural_counterfactual
<1> QED
  BY <1>3, <1>4, <1>5, <1>8, <1>9

\* The initial state has labelled nothing.
LEMMA InitLabelledOnce == Init => LabelledOnce
BY DEF Init, LabelledOnce, OneVerdictEach, TargetsApart, Early

\* Every step labels targets only, and each once.
LEMMA StepLabelledOnce ==
  TypeOK /\ TypeOK' /\ TrialsInOrder /\ LabelledOnce /\ [Next]_vars => LabelledOnce'
<1> SUFFICES ASSUME TypeOK, TypeOK', TrialsInOrder, LabelledOnce, [Next]_vars
             PROVE  LabelledOnce'
  OBVIOUS
<1> USE DEF At, inputs, loop, ResetLoop
<1>1. ASSUME UNCHANGED <<conclusions, pending, agenda, dropped, found>>,
             phase' = phase \/ (phase \in Early /\ phase' \in Early)
               \/ (phase \notin Early /\ phase' \notin Early /\ ToLabel' \subseteq ToLabel
                    /\ phase' \notin {"isolate", "hide-trials"} /\ dropped = {})
      PROVE  LabelledOnce'
  <2>1. UNCHANGED <<Screened, HideTargets, Candidates>>
    BY <1>1, FoundKept
  <2>2. ToLabel' \subseteq ToLabel
    BY <1>1, <2>1 DEF ToLabel, Early
  <2> QED
    BY <1>1, <2>1, <2>2 DEF LabelledOnce, OneVerdictEach, TargetsApart, Early
<1>2. CASE TrialStep
  <2>1. /\ UNCHANGED <<conclusions, pending, agenda, dropped, found>>
        /\ phase' = IF phase = "replay" THEN "replayed" ELSE phase
    BY <1>2, TrialSteps DEF found
  <2> QED
    BY <1>1, <2>1 DEF ToLabel, Early, LabelledOnce, TargetsApart
<1>3. CASE SelectWorkload \/ PrepareEnvironment \/ TakeSnapshot
  BY <1>1, <1>3 DEF SelectWorkload, PrepareEnvironment, TakeSnapshot, Early
<1>4. CASE Abort \/ UNCHANGED vars
  BY <1>1, <1>4 DEF Abort, vars
<1>5. CASE AssessBaseline
  <2> DEFINE verdict == assess_baseline(Outcomes(results))
             net     == [k \in {n \in DOMAIN seen.network : seen.network[n].external}
                           |-> seen.network[k]]
             exe     == seen.executables
             free    == classify_enforced_deny(verdict, BaselineLabels, EnforcedDeny(net))
                          \cup classify_natural_counterfactual(verdict, BaselineLabels,
                                                               Natural(net, exe))
             none    == classify_intervention(verdict, {}, Unsupported(net, exe))
  <2>1. /\ networkCandidates' = net /\ executableCandidates' = exe
        /\ UNCHANGED <<conclusions, agenda, dropped>>
        /\ phase = "baseline" /\ phase' \in {"screen", "complete"}
        /\ \/ phase' = "screen" /\ pending' = free
           \/ phase' = "complete" /\ pending' = none
    BY <1>5 DEF AssessBaseline
  <2>2. net \in PartialFunctions(Net, Sighting) /\ exe \in PartialFunctions(Exe, BOOLEAN)
    BY <2>1 DEF TypeOK
  <2>3. /\ OneEach(free) /\ OneEach(none)
        /\ \A c \in free : \/ c.dependency \in DOMAIN net /\ net[c.dependency].allFailed
                           \/ c.dependency \in DOMAIN exe /\ ~exe[c.dependency]
        /\ \A c \in none : c.dependency \in DOMAIN net \cup DOMAIN exe
    BY <2>2, BaselineLabelling
  <2>4. conclusions = {} /\ agenda = {} /\ dropped = {}
    BY <2>1, TargetsType DEF LabelledOnce, TargetsApart, Early
  <2>5. DOMAIN net \subseteq Net /\ DOMAIN exe \subseteq Exe /\ Net \cap Exe = {}
    BY <2>2, PartialFunctionIff, KeyAssumption
  <2> HIDE DEF net, exe, free, none, verdict
  <2>6. \A c \in pending' : c.dependency \in Candidates'
    BY <2>1, <2>3 DEF Candidates
  <2>7. \A c \in pending' : c.dependency \notin ToLabel'
    <3>1. CASE phase' = "screen"
      <4>1. ToLabel' = Screened' \cup HideTargets'
        BY <3>1 DEF ToLabel
      <4>2. \A n \in Screened' : n \in DOMAIN net /\ ~net[n].allFailed
        BY <2>1 DEF Screened
      <4>3. \A e \in HideTargets' : e \in DOMAIN exe /\ exe[e]
        BY <2>1 DEF HideTargets
      <4> QED
        BY <2>1, <2>3, <2>5, <3>1, <4>1, <4>2, <4>3
    <3>2. CASE phase' = "complete"
      BY <3>2 DEF ToLabel
    <3> QED
      BY <2>1, <3>1, <3>2
  <2>8. OneEach(pending')
    BY <2>1, <2>3
  <2> QED
    BY <2>1, <2>4, <2>6, <2>7, <2>8
       DEF LabelledOnce, OneVerdictEach, OneEach, TargetsApart, Early
<1>6. CASE JournalConclusion
  <2>1. PICK c \in pending :
          /\ conclusions' = conclusions \cup
               {[dependency |-> c.dependency, necessity |-> c.necessity, trials |-> c.trials,
                 evidence |-> Len(journal) + 1]}
          /\ pending' = pending \ {c}
    BY <1>6 DEF JournalConclusion
  <2>2. UNCHANGED <<phase, agenda, dropped, found>>
    BY <1>6 DEF JournalConclusion, found
  <2>3. UNCHANGED <<Candidates, ToLabel>>
    BY <2>2, FoundKept DEF ToLabel
  <2>4. OneVerdictEach'
    BY <2>1 DEF LabelledOnce, OneVerdictEach
  <2>5. \A d \in conclusions' \cup pending' : d.dependency \in Candidates \ ToLabel
    BY <2>1 DEF LabelledOnce
  <2>6. phase \notin Early
    BY DEF LabelledOnce
  <2> QED
    BY <2>2, <2>3, <2>4, <2>5, <2>6, FoundKept DEF LabelledOnce, TargetsApart
<1>7. CASE ScreenSkip \/ HideSkip \/ SkipWorld \/ ProposeWorld \/ ConcludeReplay \/ Finalize
  <2>1. /\ UNCHANGED <<conclusions, pending, agenda, dropped, found>>
        /\ \/ phase = "screen" /\ phase' = "hide"
           \/ phase = "hide" /\ phase' = "complete"
           \/ phase \in {"complete", "replayed", "finalize"}
                /\ phase' \in {"finalize", "replay", "done"}
    BY <1>7 DEF ScreenSkip, HideSkip, SkipWorld, ProposeWorld, ConcludeReplay, Finalize, found
  <2>2. ToLabel' \subseteq ToLabel
    BY <2>1, FoundKept DEF ToLabel
  <2> QED
    BY <1>1, <2>1, <2>2 DEF LabelledOnce, TargetsApart, Early
<1>8. CASE ScreenUnenforceable
  <2> DEFINE evidence == {Evidence(n, FALSE) : n \in Screened}
  <2>1. /\ UNCHANGED <<conclusions, agenda, dropped, found>> /\ phase = "screen" /\ phase' = "hide"
        /\ pending = {} /\ pending' = classify_unenforceable(evidence)
    BY <1>8 DEF ScreenUnenforceable, found
  <2>2. DistinctKeys(evidence) /\ \A e \in evidence : e.key \in Screened
    BY EvidenceKeys
  <2>3. OneEach(pending') /\ \A c \in pending' : c.dependency \in Screened
    <3> HIDE DEF evidence
    <3> QED
      BY <2>1, <2>2, UnenforceableLabels
  <2>4. ToLabel = Screened \cup HideTargets /\ ToLabel' = HideTargets
    BY <2>1, FoundKept DEF ToLabel
  <2>5. TargetsApart'
    BY <2>1, FoundKept DEF LabelledOnce, TargetsApart
  <2> QED
    BY <2>1, <2>3, <2>4, <2>5, TargetsType, Labelling DEF Early
<1>9. CASE ScreenConclude
  <2>1. /\ UNCHANGED <<conclusions, dropped, found>> /\ phase = "screen" /\ pending = {}
        /\ \/ agenda' = Changed /\ phase' = "isolate" /\ pending' = {}
           \/ /\ pending' = classify_intervention(baseline, Records(results), ScreenEvidence)
              /\ phase' = "hide" /\ agenda' = agenda
    BY <1>9 DEF ScreenConclude, found
  <2>2. DistinctKeys(ScreenEvidence) /\ \A e \in ScreenEvidence : e.key \in Screened
    BY ScreenEvidenceKeys
  <2>3. OneEach(pending') /\ \A c \in pending' : c.dependency \in Screened /\ phase' = "hide"
    BY <2>1, <2>2, InterventionLabels DEF OneEach
  <2>4. /\ ToLabel = Screened \cup HideTargets
        /\ phase' = "hide" => ToLabel' = HideTargets
        /\ phase' = "isolate" => ToLabel' = agenda' \cup dropped' \cup HideTargets
    BY <2>1, FoundKept DEF ToLabel
  <2>5. agenda = {} /\ dropped = {} /\ Changed \subseteq Screened
    BY <2>1, TargetsType DEF LabelledOnce, TargetsApart, Changed
  <2>6. TargetsApart'
    BY <2>1, <2>5, FoundKept, TargetsType DEF TargetsApart
  <2>7. phase' \notin Early /\ ToLabel' \subseteq ToLabel
    BY <2>1, <2>4, <2>5 DEF Early
  <2> QED
    BY <2>1, <2>3, <2>4, <2>6, <2>7, TargetsType, Labelling
<1>10. ASSUME NEW k \in agenda, phase = "isolate" \/ phase = "hide-trials", phase' = phase,
              pending = {}, UNCHANGED <<conclusions, found>>, agenda' = agenda \ {k},
              \/ dropped' = dropped \cup {k} /\ pending' = {}
              \/ /\ dropped' = dropped /\ OneEach(pending')
                 /\ \A c \in pending' : c.dependency = k
       PROVE  LabelledOnce'
  <2>1. TargetsApart'
    BY <1>10, FoundKept, TargetsType DEF LabelledOnce, TargetsApart
  <2>2. /\ phase = "isolate" => /\ ToLabel = agenda \cup dropped \cup HideTargets
                                /\ ToLabel' = agenda' \cup dropped' \cup HideTargets
        /\ phase = "hide-trials" => /\ ToLabel = agenda \cup dropped
                                    /\ ToLabel' = agenda' \cup dropped'
    BY <1>10, FoundKept DEF ToLabel
  <2>3. k \notin dropped /\ (phase = "isolate" => k \notin HideTargets)
    BY <1>10, TargetsType DEF LabelledOnce, TargetsApart
  <2>4. OneEach(pending') /\ phase' \notin Early
    BY <1>10 DEF OneEach, Early
  <2>5. ToLabel' \subseteq ToLabel /\ \A c \in pending' : c.dependency \in ToLabel \ ToLabel'
    BY <1>10, <2>2, <2>3
  <2> QED
    BY <1>10, <2>1, <2>4, <2>5, Labelling
<1>11. CASE BlockDrop \/ HideDrop
  <2>1. ASSUME NEW k \in agenda, DropTarget(k)
        PROVE  /\ UNCHANGED <<phase, conclusions, pending, found>> /\ agenda' = agenda \ {k}
               /\ dropped' = dropped \cup {k}
    BY <2>1 DEF DropTarget, found
  <2> QED
    BY <1>10, <1>11, <2>1 DEF BlockDrop, HideDrop
<1>12. CASE BlockConclude \/ HideConclude
  <2>1. ASSUME NEW k \in agenda, ConcludeTarget(k)
        PROVE  /\ UNCHANGED <<phase, conclusions, dropped, found>> /\ agenda' = agenda \ {k}
               /\ OneEach(pending') /\ \A c \in pending' : c.dependency = k
    <3>1. DistinctKeys({Evidence(k, TRUE)}) /\ \A e \in {Evidence(k, TRUE)} : e.key \in {k}
      BY DEF Evidence, DistinctKeys
    <3>2. pending' = classify_intervention(baseline, Records(results), {Evidence(k, TRUE)})
      BY <2>1 DEF ConcludeTarget
    <3>3. OneEach(pending') /\ \A c \in pending' : c.dependency \in {k}
      BY <3>1, <3>2, InterventionLabels
    <3> QED
      BY <2>1, <3>3 DEF ConcludeTarget, found
  <2> QED
    BY <1>10, <1>12, <2>1 DEF BlockConclude, HideConclude
<1>13. CASE HideUnsupported
  <2>1. PICK e \in agenda : /\ pending' = classify_unenforceable({Evidence(e, TRUE)})
                            /\ agenda' = agenda \ {e}
    BY <1>13 DEF HideUnsupported
  <2>2. /\ UNCHANGED <<phase, conclusions, dropped, found>>
        /\ phase = "hide-trials" /\ pending = {}
    BY <1>13 DEF HideUnsupported, found
  <2>3. DistinctKeys({Evidence(e, TRUE)}) /\ \A x \in {Evidence(e, TRUE)} : x.key \in {e}
    BY DEF Evidence, DistinctKeys
  <2>4. OneEach(pending') /\ \A c \in pending' : c.dependency \in {e}
    BY <2>1, <2>3, UnenforceableLabels
  <2> QED
    BY <1>10, <2>1, <2>2, <2>4
<1>14. CASE BlockReport \/ HideReport
  <2> DEFINE evidence == {Evidence(k, FALSE) : k \in dropped}
  <2>1. /\ UNCHANGED <<conclusions, agenda, found>> /\ pending = {} /\ agenda = {} /\ dropped' = {}
        /\ pending' = classify_intervention(baseline, {}, evidence)
        /\ \/ phase = "isolate" /\ phase' = "hide"
           \/ phase = "hide-trials" /\ phase' = "complete"
    BY <1>14 DEF BlockReport, HideReport, ReportDropped, found
  <2>2. DistinctKeys(evidence) /\ \A e \in evidence : e.key \in dropped
    BY EvidenceKeys
  <2>3. OneEach(pending') /\ \A c \in pending' : c.dependency \in dropped
    <3> HIDE DEF evidence
    <3> QED
      BY <2>1, <2>2, InterventionLabels
  <2>4. /\ phase = "isolate" => ToLabel = dropped \cup HideTargets /\ ToLabel' = HideTargets
        /\ phase = "hide-trials" => ToLabel = dropped /\ ToLabel' = {}
    BY <2>1, FoundKept DEF ToLabel
  <2>5. TargetsApart' /\ phase' \notin Early
    BY <2>1 DEF TargetsApart, Early
  <2>6. phase = "isolate" => dropped \cap HideTargets = {}
    BY TargetsType DEF LabelledOnce, TargetsApart
  <2> QED
    BY <2>1, <2>3, <2>4, <2>5, <2>6, Labelling
<1>15. CASE HideUnenforceable
  <2> DEFINE evidence == {Evidence(e, FALSE) : e \in HideTargets}
  <2>1. /\ UNCHANGED <<conclusions, agenda, dropped, found>> /\ phase = "hide"
        /\ phase' = "complete" /\ pending = {} /\ pending' = classify_unenforceable(evidence)
    BY <1>15 DEF HideUnenforceable, found
  <2>2. DistinctKeys(evidence) /\ \A e \in evidence : e.key \in HideTargets
    BY EvidenceKeys
  <2>3. OneEach(pending') /\ \A c \in pending' : c.dependency \in HideTargets
    <3> HIDE DEF evidence
    <3> QED
      BY <2>1, <2>2, UnenforceableLabels
  <2>4. ToLabel = HideTargets /\ ToLabel' = {}
    BY <2>1, FoundKept DEF ToLabel
  <2>5. TargetsApart'
    BY <2>1, FoundKept DEF LabelledOnce, TargetsApart
  <2> QED
    BY <2>1, <2>3, <2>4, <2>5, Labelling DEF Early
<1>16. CASE HideBegin
  <2>1. /\ UNCHANGED <<conclusions, pending, dropped, found>> /\ phase = "hide" /\ pending = {}
        /\ agenda' = HideTargets /\ phase' = "hide-trials"
    BY <1>16 DEF HideBegin, found
  <2>2. dropped = {}
    BY <2>1 DEF LabelledOnce, TargetsApart
  <2>3. ToLabel = HideTargets /\ ToLabel' = HideTargets
    BY <2>1, <2>2 DEF ToLabel
  <2>4. TargetsApart'
    BY <2>1, <2>2, FoundKept, TargetsType DEF TargetsApart
  <2> QED
    BY <2>1, <2>3, <2>4, Labelling DEF Early, OneEach
<1> QED
  BY <1>2, <1>3, <1>4, <1>5, <1>6, <1>7, <1>8, <1>9, <1>11, <1>12, <1>13, <1>14, <1>15, <1>16
     DEF Next, Step, Experiment, TrialStep

-----------------------------------------------------------------------------
(* Labels are earned.                                                      *)

\* The trials a label cites are the same after a trial with a fresh label.
LEMMA CitedKept ==
  ASSUME NEW record, Taken(record), NEW c, c.trials \subseteq Labels(Records(trials))
  PROVE  Cited(c)' = {t \in Records(trials) : t.label \in c.trials}
<1>1. record.label \notin c.trials
  BY DEF Taken, Labels
<1> QED
  BY <1>1 DEF Taken, Cited

\* What a label rests on does not change when neither the trials nor the
\* candidates do.
LEMMA EarnedKept ==
  ASSUME UNCHANGED <<trials, found>>
  PROVE  /\ \A c : Earned(c)' <=> Earned(c)
         /\ Labels(Records(trials))' = Labels(Records(trials))
<1>1. \A c : OutOfReach(c.dependency)' <=> OutOfReach(c.dependency)
  BY DEF OutOfReach, found
<1>2. /\ \A c : Cited(c)' = Cited(c)
      /\ Purposes("baseline")' = Purposes("baseline")
  BY TrialsKept
<1>3. \A c : RequiredFor(c)' <=> RequiredFor(c)
  BY <1>2 DEF RequiredFor
<1>4. \A c : OptionalFor(c)' <=> OptionalFor(c)
  BY <1>1, <1>2 DEF OptionalFor
<1> QED
  BY <1>3, <1>4, TrialsKept DEF Earned

\* The trials of a loop are what a label that cites them all cites.
LEMMA CitesResults ==
  ASSUME TrialsInOrder, NEW c, c.trials = Labels(Records(results))
  PROVE  Cited(c) = Records(results) /\ c.trials \subseteq Labels(Records(trials))
BY DEF TrialsInOrder, Cited, Labels

\* A label that an intervention of the loop gives is earned, when every trial
\* of the loop took the dependency away.
LEMMA InterventionEarns ==
  ASSUME TrialsInOrder, NEW candidates,
         NEW c \in classify_intervention(baseline, Records(results), candidates),
         \A t \in Records(results) :
           \/ t.treatment = DenyAllEgress /\ c.dependency \in Net
           \/ t.treatment \in {BlockDependency(c.dependency), HideExecutable(c.dependency)}
  PROVE  /\ c.trials \subseteq Labels(Records(trials)) /\ Earned(c)
         /\ c.necessity # "unresolved" => supports_experiments(baseline)
<1>1. CASE c.necessity = "unresolved"
  <2>1. c.trials = {}
    BY <1>1 DEF classify_intervention
  <2> QED
    BY <1>1, <2>1 DEF Earned
<1>2. CASE c.necessity # "unresolved"
  <2>1. c.trials = Labels(Records(results))
    BY <1>2 DEF classify_intervention
  <2>2. Cited(c) = Records(results) /\ c.trials \subseteq Labels(Records(trials))
    BY <2>1, CitesResults
  <2>3. /\ supports_experiments(baseline)
        /\ Records(results) # {} /\ \A t \in Records(results) : t.enforcement = "enforced"
        /\ c.necessity = "optional" => AllPassed(Records(results))
        /\ c.necessity = "required" =>
             AllFailed(Records(results)) /\ SignaturesCompatible(Records(results))
    BY <1>2, CausalLabelEarned
  <2>4. \A t \in Records(results) : TakesAway(t, c.dependency)
    BY <2>3 DEF TakesAway
  <2> QED
    BY <2>2, <2>3, <2>4 DEF Earned, RequiredFor, OptionalFor
<1> QED
  BY <1>1, <1>2

\* A step that replaces the pending labels by earned ones keeps all earned.
LEMMA Concluding ==
  ASSUME LabelsEarned, UNCHANGED <<trials, found, conclusions>>,
         phase \notin Early, phase' \notin Early,
         \A c \in pending' : /\ c.trials \subseteq Labels(Records(trials)) /\ Earned(c)
                             /\ c.necessity # "unresolved" => supports_experiments(baseline)
  PROVE  LabelsEarned'
<1>1. /\ UNCHANGED <<Records(trials), Labels(Records(trials)), Purposes("baseline"), baseline>>
      /\ \A c : Earned(c)' <=> Earned(c)
  BY EarnedKept, TrialsKept DEF found
<1> QED
  BY <1>1 DEF LabelsEarned

\* Labels that settle nothing are earned.
LEMMA UnresolvedEarned ==
  ASSUME NEW c, c.necessity = "unresolved", c.trials = {}
  PROVE  c.trials \subseteq Labels(Records(trials)) /\ Earned(c)
BY DEF Earned

\* What the laboratory cannot enforce, or nobody tried, is left unresolved.
LEMMA UntriedUnresolved ==
  ASSUME NEW verdict, NEW candidates
  PROVE  /\ \A c \in classify_unenforceable(candidates) :
              c.necessity = "unresolved" /\ c.trials = {}
         /\ \A c \in classify_intervention(verdict, {}, candidates) :
              c.necessity = "unresolved" /\ c.trials = {}
BY DEF classify_unenforceable, Unresolved, classify_intervention, Judgement, Conclusive

\* The counterfactuals that cost no trial make their dependency optional.
LEMMA FreeLabels ==
  ASSUME NEW verdict, NEW labels, NEW denied, NEW natural
  PROVE  \A c \in classify_enforced_deny(verdict, labels, denied)
                    \cup classify_natural_counterfactual(verdict, labels, natural) :
           c.necessity = "optional" /\ c.trials = labels
BY DEF classify_enforced_deny, classify_natural_counterfactual

\* A passing verdict is about at least one run, and all passed.
LEMMA StableBaseline ==
  ASSUME NEW seq \in Seq(TrialRecord), supports_experiments(assess_baseline(Outcomes(seq)))
  PROVE  AllPassed(Records(seq)) /\ Records(seq) # {}
<1>1. /\ Outcomes(seq) # <<>>
      /\ \A i \in DOMAIN Outcomes(seq) : Outcomes(seq)[i].passed
  BY DEF supports_experiments, assess_baseline
<1>2. /\ DOMAIN Outcomes(seq) = DOMAIN seq
      /\ \A i \in DOMAIN seq : Outcomes(seq)[i] = seq[i].outcome
  BY DEF Outcomes
<1>3. seq # <<>>
  BY <1>1 DEF Outcomes
<1>4. 1 \in DOMAIN seq
  BY <1>3
<1> QED
  BY <1>1, <1>2, <1>4 DEF AllPassed, Records

\* Nothing is labelled in the initial states.
LEMMA InitLabelsEarned == Init => LabelsEarned
BY NoRecords DEF Init, LabelsEarned, Early

\* Every step gives earned labels, and lets none be undone.
LEMMA StepLabelsEarned ==
  TypeOK /\ ReplayKept /\ TrialsInOrder /\ LabelledOnce /\ LabelsEarned /\ [Next]_vars
    => LabelsEarned'
<1> SUFFICES ASSUME TypeOK, ReplayKept, TrialsInOrder, LabelledOnce, LabelsEarned, [Next]_vars
             PROVE  LabelsEarned'
  OBVIOUS
<1> USE DEF At, inputs, loop, ResetLoop
<1>1. CASE TrialStep
  <2>1. PICK record : Taken(record) /\ OfLoop(record)'
    BY <1>1, TrialSteps
  <2>2. /\ UNCHANGED <<found, conclusions, baseline>> /\ pending = {} /\ pending' = {}
        /\ phase' = IF phase = "replay" THEN "replayed" ELSE phase
        /\ phase \in {"baseline", "screen", "isolate", "hide-trials", "replay"}
    BY <1>1, TrialSteps DEF found
  <2>3. Records(trials)' = Records(trials) \cup {record}
    BY <2>1 DEF Taken
  <2>4. ASSUME NEW c \in conclusions
        PROVE  c.trials \subseteq Labels(Records(trials))' /\ Earned(c)'
    <3>1. c.trials \subseteq Labels(Records(trials)) /\ Earned(c)
      BY DEF LabelsEarned
    <3>2. Cited(c)' = Cited(c)
      BY <2>1, <3>1, CitedKept DEF Cited
    <3>3. phase \notin Early
      BY DEF LabelledOnce
    <3>4. Purposes("baseline")' = Purposes("baseline")
      BY <2>1, <2>2, <2>3, <3>3 DEF Purposes, OfLoop, Early
    <3>5. OutOfReach(c.dependency)' <=> OutOfReach(c.dependency)
      BY <2>2 DEF OutOfReach, found
    <3>6. Earned(c)'
      BY <3>1, <3>2, <3>4, <3>5 DEF Earned, RequiredFor, OptionalFor
    <3> QED
      BY <2>3, <3>1, <3>6 DEF Labels
  <2>5. record.treatment # NoTreatment => phase \notin Early /\ supports_experiments(baseline)
    BY <2>1, <2>2 DEF OfLoop, ReplayKept, Early
  <2>6. phase' \in Early <=> phase \in Early
    BY <2>2 DEF Early
  <2>7. phase \notin Early => Purposes("baseline")' = Purposes("baseline")
    BY <2>1, <2>2, <2>3 DEF Purposes, OfLoop, Early
  <2> QED
    BY <2>2, <2>3, <2>4, <2>5, <2>6, <2>7 DEF LabelsEarned
<1>2. ASSUME UNCHANGED <<trials, found, conclusions, pending>>,
             phase' \in Early <=> phase \in Early
      PROVE  LabelsEarned'
  BY <1>2, EarnedKept, TrialsKept DEF LabelsEarned, found
<1>3. CASE SelectWorkload \/ PrepareEnvironment \/ TakeSnapshot
  BY <1>2, <1>3 DEF SelectWorkload, PrepareEnvironment, TakeSnapshot, Early
<1>4. CASE Abort \/ BlockDrop \/ HideDrop \/ UNCHANGED vars
  BY <1>2, <1>4 DEF Abort, BlockDrop, HideDrop, DropTarget, vars
<1>5. CASE \/ ScreenSkip \/ HideSkip \/ HideBegin \/ SkipWorld \/ ProposeWorld \/ ConcludeReplay
           \/ Finalize
  <2>1. /\ UNCHANGED <<trials, found, conclusions, pending>>
        /\ phase \in {"screen", "hide", "complete", "replayed", "finalize"}
        /\ phase' \in {"hide", "hide-trials", "complete", "replay", "finalize", "done"}
    BY <1>5 DEF ScreenSkip, HideSkip, HideBegin, SkipWorld, ProposeWorld, ConcludeReplay, Finalize
  <2> QED
    BY <1>2, <2>1 DEF Early
<1>6. CASE AssessBaseline
  <2> DEFINE verdict == assess_baseline(Outcomes(results))
             net     == [k \in {n \in DOMAIN seen.network : seen.network[n].external}
                           |-> seen.network[k]]
             exe     == seen.executables
             free    == classify_enforced_deny(verdict, BaselineLabels, EnforcedDeny(net))
                          \cup classify_natural_counterfactual(verdict, BaselineLabels,
                                                               Natural(net, exe))
             none    == classify_intervention(verdict, {}, Unsupported(net, exe))
  <2>1. /\ networkCandidates' = net /\ executableCandidates' = exe /\ baseline' = verdict
        /\ UNCHANGED <<trials, conclusions>> /\ conclusions = {}
        /\ phase = "baseline" /\ phase' \in {"screen", "complete"}
        /\ \/ supports_experiments(verdict) /\ pending' = free
           \/ ~supports_experiments(verdict) /\ pending' = none
    BY <1>6 DEF AssessBaseline, LabelledOnce, Early
  <2>2. Purposes("baseline") = Records(trials) /\ Records(results) = Records(trials)
    BY <2>1 DEF TrialsInOrder, Purposes, PurposesBy, InProgress, Early
  <2>3. UNCHANGED <<Records(trials), Purposes("baseline"), BaselineLabels>>
    BY <2>1, TrialsKept
  <2>4. supports_experiments(verdict) => AllPassed(Purposes("baseline")) /\ Purposes("baseline") # {}
    BY <2>2, StableBaseline DEF TypeOK
  <2>5. /\ net \in PartialFunctions(Net, Sighting)
        /\ exe \in PartialFunctions(Exe, BOOLEAN)
    <3>1. exe \in PartialFunctions(Exe, BOOLEAN)
      BY DEF TypeOK, Observations
    <3> QED
      BY <3>1, CandidateKeys, PartialFunctionIff
  <2>6. \A c \in free : \/ c.dependency \in DOMAIN net /\ net[c.dependency].allFailed
                        \/ c.dependency \in DOMAIN exe /\ ~exe[c.dependency]
    BY <2>5, BaselineLabelling
  <2>7. \A c \in free : c.necessity = "optional" /\ c.trials = BaselineLabels
    BY FreeLabels
  <2>8. \A c \in none : c.necessity = "unresolved" /\ c.trials = {}
    BY UntriedUnresolved
  <2>9. ASSUME NEW t \in Records(trials), t.treatment # NoTreatment  PROVE FALSE
    BY <2>1, <2>9 DEF LabelsEarned, Early
  <2>10. BaselineLabels = Labels(Purposes("baseline"))
    BY DEF BaselineLabels, Labels, Purposes
  <2> HIDE DEF verdict, net, exe, free, none
  <2>11. ASSUME NEW c \in free, supports_experiments(verdict)  PROVE Earned(c)'
    <3>1. Cited(c)' = Purposes("baseline")
      BY <2>2, <2>3, <2>7, <2>10 DEF Cited, Labels
    <3>2. OutOfReach(c.dependency)'
      BY <2>1, <2>6 DEF OutOfReach
    <3>3. OptionalFor(c)'
      BY <2>3, <2>4, <2>11, <3>1, <3>2 DEF OptionalFor
    <3> QED
      BY <2>7, <3>3 DEF Earned
  <2>12. \A c \in none : Earned(c)'
    BY <2>8 DEF Earned
  <2>13. \A c \in pending' : c.trials \subseteq Labels(Records(trials))' /\ Earned(c)'
    BY <2>1, <2>2, <2>3, <2>7, <2>8, <2>10, <2>11, <2>12
  <2>14. (\E c \in pending' : c.necessity # "unresolved") => supports_experiments(verdict)
    BY <2>1, <2>8
  <2> QED
    BY <2>1, <2>3, <2>4, <2>9, <2>13, <2>14 DEF LabelsEarned, Early
<1>7. CASE JournalConclusion
  <2>1. PICK c \in pending :
          /\ conclusions' = conclusions \cup
               {[dependency |-> c.dependency, necessity |-> c.necessity, trials |-> c.trials,
                 evidence |-> Len(journal) + 1]}
          /\ pending' = pending \ {c}
    BY <1>7 DEF JournalConclusion
  <2> DEFINE label == [dependency |-> c.dependency, necessity |-> c.necessity,
                       trials |-> c.trials, evidence |-> Len(journal) + 1]
  <2>2. /\ label.dependency = c.dependency /\ label.necessity = c.necessity
        /\ label.trials = c.trials
    OBVIOUS
  <2> HIDE DEF label
  <2>3. Cited(label) = Cited(c)
    BY <2>2 DEF Cited
  <2>4. c.trials \subseteq Labels(Records(trials)) /\ Earned(c)
    BY DEF LabelsEarned
  <2>5. label.trials \subseteq Labels(Records(trials)) /\ Earned(label)
    BY <2>2, <2>3, <2>4 DEF Earned, RequiredFor, OptionalFor
  <2>6. UNCHANGED <<trials, found, phase, baseline>>
    BY <1>7 DEF JournalConclusion, found
  <2>7. conclusions' = conclusions \cup {label}
    BY <2>1 DEF label
  <2> QED
    BY <2>1, <2>2, <2>5, <2>6, <2>7, EarnedKept, TrialsKept DEF LabelsEarned
<1>8. CASE ScreenUnenforceable \/ HideUnenforceable \/ HideUnsupported
  <2>1. PICK candidates : pending' = classify_unenforceable(candidates)
    BY <1>8 DEF ScreenUnenforceable, HideUnenforceable, HideUnsupported
  <2>2. UNCHANGED <<trials, found, conclusions>> /\ phase \notin Early /\ phase' \notin Early
    BY <1>8 DEF ScreenUnenforceable, HideUnenforceable, HideUnsupported, Early
  <2> QED
    BY <2>1, <2>2, UntriedUnresolved, UnresolvedEarned, Concluding
<1>9. CASE BlockReport \/ HideReport
  <2>1. PICK candidates : pending' = classify_intervention(baseline, {}, candidates)
    BY <1>9 DEF BlockReport, HideReport, ReportDropped
  <2>2. UNCHANGED <<trials, found, conclusions>> /\ phase \notin Early /\ phase' \notin Early
    BY <1>9 DEF BlockReport, HideReport, ReportDropped, Early
  <2> QED
    BY <2>1, <2>2, UntriedUnresolved, UnresolvedEarned, Concluding
<1>10. CASE ScreenConclude
  <2>1. /\ UNCHANGED <<trials, found, conclusions>> /\ phase = "screen"
        /\ phase' \in {"hide", "isolate"}
        /\ \/ pending' = {}
           \/ pending' = classify_intervention(baseline, Records(results), ScreenEvidence)
    BY <1>10 DEF ScreenConclude
  <2>2. ASSUME NEW c \in classify_intervention(baseline, Records(results), ScreenEvidence)
        PROVE  /\ c.trials \subseteq Labels(Records(trials)) /\ Earned(c)
               /\ c.necessity # "unresolved" => supports_experiments(baseline)
    <3>1. c.dependency \in Net
      BY ScreenEvidenceKeys, InterventionLabels, TargetsType
    <3>2. \A t \in Records(results) : t.treatment = DenyAllEgress
      BY <2>1 DEF TrialsInOrder, OfLoop
    <3> QED
      BY <3>1, <3>2, InterventionEarns
  <2> QED
    BY <2>1, <2>2, Concluding DEF Early
<1>11. CASE BlockConclude \/ HideConclude
  <2>1. PICK k \in agenda : /\ ConcludeTarget(k)
                            /\ phase = "isolate" => NextBlock(k)
                            /\ phase = "hide-trials" => NextHide(k)
    BY <1>11 DEF BlockConclude, HideConclude
  <2>2. /\ UNCHANGED <<trials, found, conclusions, phase>> /\ phase \in {"isolate", "hide-trials"}
        /\ pending' = classify_intervention(baseline, Records(results), {Evidence(k, TRUE)})
    BY <1>11, <2>1 DEF BlockConclude, HideConclude, ConcludeTarget
  <2>3. ASSUME NEW c \in classify_intervention(baseline, Records(results), {Evidence(k, TRUE)})
        PROVE  /\ c.trials \subseteq Labels(Records(trials)) /\ Earned(c)
               /\ c.necessity # "unresolved" => supports_experiments(baseline)
    <3>1. c.dependency = k
      BY DEF classify_intervention, Evidence
    <3>2. \A t \in Records(results) : t.treatment \in {BlockDependency(k), HideExecutable(k)}
      BY <2>1, <2>2, OneNext DEF TrialsInOrder, OfLoop
    <3> QED
      BY <3>1, <3>2, InterventionEarns
  <2> QED
    BY <2>2, <2>3, Concluding DEF Early
<1> QED
  BY <1>1, <1>3, <1>4, <1>5, <1>6, <1>7, <1>8, <1>9, <1>10, <1>11
     DEF Next, Step, Experiment, TrialStep

-----------------------------------------------------------------------------
(* The trail.                                                              *)

Grows(old, new) == \A i \in DOMAIN old : i \in DOMAIN new /\ new[i] = old[i]

\* The journal is append-only.
LEMMA JournalGrows == TypeOK /\ TrialsInOrder /\ [Next]_vars => Grows(journal, journal')
<1> SUFFICES ASSUME TypeOK, TrialsInOrder, [Next]_vars PROVE Grows(journal, journal')
  OBVIOUS
<1>1. ASSUME NEW e, journal' = Append(journal, e)  PROVE Grows(journal, journal')
  BY <1>1 DEF TypeOK, Grows
<1>2. ASSUME UNCHANGED journal  PROVE Grows(journal, journal')
  BY <1>2 DEF Grows
<1>3. CASE TrialStep
  BY <1>1, <1>3, TrialSteps DEF Taken
<1>4. CASE \/ SelectWorkload \/ PrepareEnvironment \/ TakeSnapshot \/ AssessBaseline
           \/ JournalConclusion \/ ProposeWorld \/ ConcludeReplay
  BY <1>1, <1>4 DEF SelectWorkload, PrepareEnvironment, TakeSnapshot, AssessBaseline,
                    JournalConclusion, ProposeWorld, ConcludeReplay, Journal
<1>5. CASE \/ ScreenSkip \/ ScreenUnenforceable \/ ScreenConclude \/ BlockDrop \/ BlockConclude
           \/ BlockReport \/ HideSkip \/ HideUnenforceable \/ HideBegin \/ HideDrop
           \/ HideUnsupported \/ HideConclude \/ HideReport \/ SkipWorld \/ Abort
           \/ UNCHANGED vars
  BY <1>2, <1>5 DEF ScreenSkip, ScreenUnenforceable, ScreenConclude, BlockDrop, BlockConclude,
                    BlockReport, HideSkip, HideUnenforceable, HideBegin, HideDrop,
                    HideUnsupported, HideConclude, HideReport, SkipWorld, Abort, vars,
                    DropTarget, ConcludeTarget, ReportDropped
<1>6. CASE Finalize
  <2> DEFINE recorded == [i \in DOMAIN limitations |->
                            [event |-> "limitation-recorded", limitation |-> limitations[i]]]
  <2>1. recorded \in Seq(Event)
    BY EventTypes DEF TypeOK
  <2>2. journal' = journal \o recorded
    BY <1>6 DEF Finalize
  <2> HIDE DEF recorded
  <2> QED
    BY <2>1, <2>2 DEF TypeOK, Grows
<1> QED
  BY <1>3, <1>4, <1>5, <1>6 DEF Next, Step, Experiment, TrialStep

\* Only a trial's step touches the trials.
LEMMA TrialsChange == [Next]_vars => TrialStep \/ UNCHANGED trials
<1> SUFFICES ASSUME [Next]_vars, ~TrialStep PROVE UNCHANGED trials
  OBVIOUS
<1> QED
  BY DEF Next, Step, Experiment, TrialStep, vars, SelectWorkload, PrepareEnvironment, TakeSnapshot,
         AssessBaseline, JournalConclusion, ScreenSkip, ScreenUnenforceable, ScreenConclude,
         BlockDrop, BlockConclude, BlockReport, HideSkip, HideUnenforceable, HideBegin, HideDrop,
         HideUnsupported, HideConclude, HideReport, SkipWorld, ProposeWorld, ConcludeReplay,
         Finalize, Abort, DropTarget, ConcludeTarget, ReportDropped

\* Only journaling a conclusion touches the conclusions.
LEMMA ConclusionsChange ==
  TypeOK /\ TrialsInOrder /\ [Next]_vars => JournalConclusion \/ UNCHANGED conclusions
<1> SUFFICES ASSUME TypeOK, TrialsInOrder, [Next]_vars, ~JournalConclusion
             PROVE  UNCHANGED conclusions
  OBVIOUS
<1>1. CASE TrialStep
  BY <1>1, TrialSteps
<1>2. CASE ~TrialStep
  BY <1>2 DEF Next, Step, Experiment, TrialStep, vars, SelectWorkload, PrepareEnvironment,
         TakeSnapshot, AssessBaseline, ScreenSkip, ScreenUnenforceable, ScreenConclude,
         BlockDrop, BlockConclude, BlockReport, HideSkip, HideUnenforceable, HideBegin, HideDrop,
         HideUnsupported, HideConclude, HideReport, SkipWorld, ProposeWorld, ConcludeReplay,
         Finalize, Abort, DropTarget, ConcludeTarget, ReportDropped
<1> QED
  BY <1>1, <1>2

\* The initial states have nothing to follow.
LEMMA InitJournaled == Init => Journaled
BY NoRecords DEF Init, Journaled, Provenance

\* Every step keeps the trail: trials are journaled as they are taken, and a
\* conclusion is journaled after the trials it cites.
LEMMA StepJournaled ==
  TypeOK /\ TrialsInOrder /\ LabelsEarned /\ Journaled /\ [Next]_vars => Journaled'
<1> SUFFICES ASSUME TypeOK, TrialsInOrder, LabelsEarned, Journaled, [Next]_vars
             PROVE  Journaled'
  OBVIOUS
<1>1. Grows(journal, journal')
  BY JournalGrows
<1>2. ASSUME NEW t \in Records(trials)'
      PROVE  \E i \in DOMAIN journal' :
               journal'[i].event = "trial-completed" /\ journal'[i].label = t.label
  <2>1. CASE t \in Records(trials)
    BY <1>1, <2>1 DEF Journaled, Grows
  <2>2. CASE t \notin Records(trials)
    <3>1. TrialStep
      BY <1>2, <2>2, TrialsChange, TrialsKept
    <3>2. PICK record : Taken(record)
      BY <3>1, TrialSteps
    <3>3. t = record
      BY <1>2, <2>2, <3>2 DEF Taken
    <3>4. /\ Len(journal) + 1 \in DOMAIN journal'
          /\ journal'[Len(journal) + 1] = [event |-> "trial-completed", label |-> record.label]
      BY <3>2 DEF Taken, TypeOK
    <3> QED
      BY <3>3, <3>4
  <2> QED
    BY <2>1, <2>2
<1>3. ASSUME NEW c \in conclusions'
      PROVE  /\ c.evidence \in DOMAIN journal'
             /\ journal'[c.evidence].event = "dependency-classified"
             /\ journal'[c.evidence].conclusion.dependency = c.dependency
             /\ journal'[c.evidence].conclusion.necessity = c.necessity
             /\ \A label \in c.trials : \E i \in 1..(c.evidence - 1) :
                  journal'[i].event = "trial-completed" /\ journal'[i].label = label
  <2>1. CASE c \in conclusions
    <3>1. /\ c.evidence \in DOMAIN journal /\ DOMAIN journal = 1..Len(journal)
          /\ Len(journal) \in Nat
      BY <2>1 DEF Journaled, Provenance, TypeOK
    <3>2. \A i \in 1..(c.evidence - 1) : i \in DOMAIN journal
      BY <3>1
    <3> QED
      BY <1>1, <2>1, <3>1, <3>2 DEF Journaled, Provenance, Grows
  <2>2. CASE c \notin conclusions
    <3>1. JournalConclusion
      BY <1>3, <2>2, ConclusionsChange
    <3>2. PICK d \in pending :
            /\ journal' = Append(journal, [event |-> "dependency-classified", conclusion |-> d])
            /\ conclusions' = conclusions \cup
                 {[dependency |-> d.dependency, necessity |-> d.necessity, trials |-> d.trials,
                   evidence |-> Len(journal) + 1]}
      BY <3>1 DEF JournalConclusion, Journal
    <3>3. c = [dependency |-> d.dependency, necessity |-> d.necessity, trials |-> d.trials,
               evidence |-> Len(journal) + 1]
      BY <1>3, <2>2, <3>2
    <3>4. /\ Len(journal) + 1 \in DOMAIN journal'
          /\ journal'[Len(journal) + 1] = [event |-> "dependency-classified", conclusion |-> d]
      BY <3>2 DEF TypeOK
    <3>5. c.evidence - 1 = Len(journal) /\ 1..Len(journal) = DOMAIN journal
      BY <3>3 DEF TypeOK
    <3>6. ASSUME NEW label \in d.trials
          PROVE  \E i \in DOMAIN journal :
                   journal'[i].event = "trial-completed" /\ journal'[i].label = label
      <4>1. PICK t \in Records(trials) : t.label = label
        BY DEF LabelsEarned, Labels
      <4> QED
        BY <1>1, <4>1 DEF Journaled, Grows
    <3> QED
      BY <3>3, <3>4, <3>5, <3>6
  <2> QED
    BY <2>1, <2>2
<1> QED
  BY <1>2, <1>3 DEF Journaled, Provenance

-----------------------------------------------------------------------------
(* The workflow, the world and the replay.                                 *)

\* The transitions prove() asks for are allowed.
LEMMA Advances ==
  /\ Advance(Advance("created", "source-resolved"), "inspected") = "inspected"
  /\ Advance(Advance("inspected", "environment-prepared"), "provisioned") = "provisioned"
  /\ Advance(Advance("provisioned", "baseline-validated"), "candidates-observed")
       = "candidates-observed"
  /\ Advance("candidates-observed", "experiments-completed") = "experiments-completed"
  /\ Advance("experiments-completed", "world-synthesized") = "world-synthesized"
  /\ Advance("world-synthesized", "replay-unavailable") = "replay-unavailable"
  /\ Advance("world-synthesized", "replay-verified") = "replay-verified"
  /\ Advance("world-synthesized", "replay-failed") = "replay-failed"
  /\ \A state \in {"experiments-completed", "replay-unavailable", "replay-verified",
                   "replay-failed"} : Advance(state, "finalized") = "finalized"
BY DEF Advance, Allows

\* The initial states are where the workflow, the world and the replay start.
LEMMA InitWorld == Init => WorkflowFollows /\ WorldFrozen /\ ReplayTrail
BY DEF Init, WorkflowFollows, WorldFrozen, ReplayTrail, VerifiedMeansReplayed, Late

\* The workflow follows prove(): no advance is refused.
LEMMA StepWorkflowFollows ==
  TypeOK /\ TrialsInOrder /\ WorldFrozen /\ WorkflowFollows /\ [Next]_vars => WorkflowFollows'
<1> SUFFICES ASSUME TypeOK, TrialsInOrder, WorldFrozen, WorkflowFollows, [Next]_vars
             PROVE  WorkflowFollows'
  OBVIOUS
<1> USE DEF At
<1>1. ASSUME UNCHANGED <<workflow, world>>,
             \/ UNCHANGED phase
             \/ /\ phase \in {"screen", "isolate", "hide", "hide-trials"}
                /\ phase' \in {"isolate", "hide", "hide-trials", "complete"}
             \/ phase = "snapshot" /\ phase' = "baseline"
             \/ phase = "replay" /\ phase' = "replayed"
      PROVE  WorkflowFollows'
  BY <1>1 DEF WorkflowFollows
<1>2. CASE TrialStep
  BY <1>1, <1>2, TrialSteps
<1>3. CASE TakeSnapshot \/ JournalConclusion \/ Abort \/ UNCHANGED vars
  BY <1>1, <1>3 DEF TakeSnapshot, JournalConclusion, Abort, vars
<1>4. CASE \/ ScreenSkip \/ ScreenUnenforceable \/ ScreenConclude \/ BlockDrop \/ BlockConclude
           \/ BlockReport \/ HideSkip \/ HideUnenforceable \/ HideBegin \/ HideDrop
           \/ HideUnsupported \/ HideConclude \/ HideReport
  BY <1>1, <1>4 DEF ScreenSkip, ScreenUnenforceable, ScreenConclude, BlockDrop, BlockConclude,
                    BlockReport, HideSkip, HideUnenforceable, HideBegin, HideDrop,
                    HideUnsupported, HideConclude, HideReport,
                    DropTarget, ConcludeTarget, ReportDropped
<1>5. CASE SelectWorkload
  BY <1>5, Advances DEF SelectWorkload, WorkflowFollows
<1>6. CASE PrepareEnvironment
  BY <1>6, Advances DEF PrepareEnvironment, WorkflowFollows
<1>7. CASE AssessBaseline
  BY <1>7, Advances DEF AssessBaseline, WorkflowFollows
<1>8. CASE SkipWorld
  <2>1. world'.status = "not-synthesized"
    BY <1>8 DEF SkipWorld, TypeOK, World
  <2> QED
    BY <1>8, <2>1, Advances DEF SkipWorld, WorkflowFollows
<1>9. CASE ProposeWorld
  <2>1. world'.status = "proposed"
    BY <1>9 DEF ProposeWorld
  <2> QED
    BY <1>9, <2>1, Advances DEF ProposeWorld, WorkflowFollows
<1>10. CASE ConcludeReplay
  <2>1. world'.status = IF CleanReplay(trials[Len(trials)]) THEN "verified" ELSE "replay-failed"
    BY <1>10 DEF ConcludeReplay, TypeOK, World
  <2> QED
    BY <1>10, <2>1, Advances DEF ConcludeReplay, WorkflowFollows
<1>11. CASE Finalize
  <2>1. world.status \in {"not-synthesized", "proposed", "verified", "replay-failed"}
    BY <1>11 DEF Finalize, WorldFrozen, TypeOK, World
  <2> QED
    BY <1>11, <2>1, Advances DEF Finalize, WorkflowFollows
<1> QED
  BY <1>2, <1>3, <1>4, <1>5, <1>6, <1>7, <1>8, <1>9, <1>10, <1>11
     DEF Next, Step, Experiment, TrialStep

\* The world is frozen when it is synthesized: nothing is pending then, and
\* no conclusion comes after.
LEMMA StepWorldFrozen ==
  TypeOK /\ TrialsInOrder /\ LabelledOnce /\ WorldFrozen /\ [Next]_vars => WorldFrozen'
<1> SUFFICES ASSUME TypeOK, TrialsInOrder, LabelledOnce, WorldFrozen, [Next]_vars
             PROVE  WorldFrozen'
  OBVIOUS
<1> USE DEF At, found
<1>1. ASSUME UNCHANGED <<world, baseline, conclusions>>, phase' \in Late <=> phase \in Late,
             phase \in {"replay", "replayed"} <=> phase' \in {"replay", "replayed"},
             phase \in Late => UNCHANGED pending
      PROVE  WorldFrozen'
  <2>1. \A necessity : Keys(necessity)' = Keys(necessity)
    BY <1>1 DEF Keys
  <2> QED
    BY <1>1, <2>1 DEF WorldFrozen, Late
<1>2. CASE TrialStep
  BY <1>1, <1>2, TrialSteps DEF Late
<1>3. ASSUME phase \notin Late, phase' \notin Late, world' = world  PROVE WorldFrozen'
  BY <1>3 DEF WorldFrozen, Late
<1>4. CASE SelectWorkload \/ PrepareEnvironment \/ TakeSnapshot \/ AssessBaseline
  BY <1>3, <1>4 DEF SelectWorkload, PrepareEnvironment, TakeSnapshot, AssessBaseline, Late
<1>5. CASE JournalConclusion
  BY <1>3, <1>5 DEF JournalConclusion, WorldFrozen
<1>6. CASE Abort \/ UNCHANGED vars
  BY <1>1, <1>6 DEF Abort, vars
<1>7. CASE \/ ScreenSkip \/ ScreenUnenforceable \/ ScreenConclude \/ BlockDrop \/ BlockConclude
           \/ BlockReport \/ HideSkip \/ HideUnenforceable \/ HideBegin \/ HideDrop
           \/ HideUnsupported \/ HideConclude \/ HideReport
  BY <1>3, <1>7 DEF ScreenSkip, ScreenUnenforceable, ScreenConclude, BlockDrop, BlockConclude,
                    BlockReport, HideSkip, HideUnenforceable, HideBegin, HideDrop,
                    HideUnsupported, HideConclude, HideReport,
                    DropTarget, ConcludeTarget, ReportDropped, Late
<1>8. CASE SkipWorld
  <2>1. /\ world'.status = "not-synthesized" /\ world'.required = world.required
        /\ world'.optional = world.optional /\ world'.unresolved = world.unresolved
    BY <1>8 DEF SkipWorld, TypeOK, World
  <2> QED
    BY <1>8, <2>1 DEF SkipWorld, WorldFrozen, Late
<1>9. CASE ProposeWorld
  <2>1. \A necessity : Keys(necessity)' = Keys(necessity)
    BY <1>9 DEF ProposeWorld, Keys
  <2> QED
    BY <1>9, <2>1 DEF ProposeWorld, WorldFrozen, Late
<1>10. CASE ConcludeReplay
  <2>1. /\ world'.status \in {"verified", "replay-failed"} /\ world'.required = world.required
        /\ world'.optional = world.optional /\ world'.unresolved = world.unresolved
    BY <1>10 DEF ConcludeReplay, TypeOK, World
  <2>2. \A necessity : Keys(necessity)' = Keys(necessity)
    BY <1>10 DEF ConcludeReplay, Keys
  <2> QED
    BY <1>10, <2>1, <2>2 DEF ConcludeReplay, WorldFrozen, Late
<1>11. CASE Finalize
  BY <1>1, <1>11 DEF Finalize, Late
<1> QED
  BY <1>2, <1>4, <1>5, <1>6, <1>7, <1>8, <1>9, <1>10, <1>11
     DEF Next, Step, Experiment, TrialStep

\* A verified world was replayed: the synthesis, the replay's trial and its
\* verdict are in the journal in this order.
LEMMA StepReplayTrail ==
  TypeOK /\ TrialsInOrder /\ LabelledOnce /\ WorldFrozen /\ ReplayTrail /\ [Next]_vars
    => ReplayTrail'
<1> SUFFICES ASSUME TypeOK, TrialsInOrder, LabelledOnce, WorldFrozen, ReplayTrail, [Next]_vars
             PROVE  ReplayTrail'
  OBVIOUS
<1> USE DEF At
<1>1. Grows(journal, journal')
  BY JournalGrows
<1>2. /\ \A i \in DOMAIN journal : i \in DOMAIN journal' /\ journal'[i] = journal[i]
      /\ DOMAIN journal = 1..Len(journal) /\ Len(journal) \in Nat
      /\ \A i, j \in DOMAIN journal : i < j \/ j < i \/ i = j
  BY <1>1 DEF Grows, TypeOK
<1>3. ASSUME UNCHANGED conclusions  PROVE \A e : Synthesized(e) => Synthesized(e)'
  BY <1>3 DEF Synthesized, Keys
<1>4. ASSUME phase' \notin {"replay", "replayed"}, world'.status # "verified"
      PROVE  ReplayTrail'
  BY <1>4 DEF ReplayTrail, VerifiedMeansReplayed
<1>5. CASE TrialStep
  <2>1. /\ phase' = IF phase = "replay" THEN "replayed" ELSE phase
        /\ phase \in {"baseline", "screen", "isolate", "hide-trials", "replay"}
        /\ UNCHANGED <<conclusions, world>>
    BY <1>5, TrialSteps
  <2>2. world'.status # "verified"
    BY <2>1 DEF WorldFrozen, Late
  <2>3. CASE phase = "replay"
    <3>1. PICK record : Taken(record) /\ OfLoop(record)'
      BY <1>5, TrialSteps
    <3>2. PICK i \in DOMAIN journal : Synthesized(journal[i])
      BY <2>3 DEF ReplayTrail
    <3>3. record.label.purpose = "replay" /\ record.treatment = NoTreatment
      BY <2>1, <2>3, <3>1 DEF OfLoop
    <3>4. /\ Len(journal) + 1 \in DOMAIN journal' /\ i < Len(journal) + 1
          /\ journal'[Len(journal) + 1] = [event |-> "trial-completed", label |-> record.label]
      BY <1>2, <3>1 DEF Taken, TypeOK
    <3>5. ReplayRun(journal'[Len(journal) + 1])
      BY <3>3, <3>4 DEF ReplayRun
    <3>6. /\ i \in DOMAIN journal' /\ Synthesized(journal[i])' /\ journal'[i] = journal[i]
      BY <1>2, <1>3, <2>1, <3>2 DEF Synthesized, Keys
    <3>7. trials' # <<>> /\ trials'[Len(trials')] = record
      <4>1. trials \in Seq(TrialRecord)
        BY DEF TypeOK
      <4>2. record \in TrialRecord /\ trials' = Append(trials, record)
        BY <3>1 DEF Taken
      <4> QED
        BY <4>1, <4>2
    <3>8. \E m, n \in DOMAIN journal' :
            m < n /\ Synthesized(journal[m])' /\ ReplayRun(journal'[n])
      BY <3>4, <3>5, <3>6 DEF Synthesized
    <3> QED
      BY <2>1, <2>2, <2>3, <3>3, <3>7, <3>8 DEF ReplayTrail, VerifiedMeansReplayed, ReplayRun
  <2> QED
    BY <1>4, <2>1, <2>2, <2>3
<1>6. CASE \/ SelectWorkload \/ PrepareEnvironment \/ TakeSnapshot \/ AssessBaseline
           \/ ScreenSkip \/ ScreenUnenforceable \/ ScreenConclude \/ BlockDrop \/ BlockConclude
           \/ BlockReport \/ HideSkip \/ HideUnenforceable \/ HideBegin \/ HideDrop
           \/ HideUnsupported \/ HideConclude \/ HideReport
  <2>1. phase \notin Late /\ phase' \notin Late /\ UNCHANGED world
    BY <1>6 DEF ScreenSkip, ScreenUnenforceable, ScreenConclude, BlockDrop, BlockConclude,
                BlockReport, HideSkip, HideUnenforceable, HideBegin, HideDrop,
                HideUnsupported, HideConclude, HideReport, SelectWorkload, PrepareEnvironment,
                TakeSnapshot, AssessBaseline,
                DropTarget, ConcludeTarget, ReportDropped, Late
  <2> QED
    BY <1>4, <2>1 DEF WorldFrozen, Late
<1>7. CASE JournalConclusion
  <2>1. phase \notin Late /\ UNCHANGED <<phase, world>>
    BY <1>7 DEF JournalConclusion, WorldFrozen
  <2> QED
    BY <1>4, <2>1 DEF WorldFrozen, Late
<1>8. CASE SkipWorld
  BY <1>4, <1>8 DEF SkipWorld, TypeOK, World
<1>9. CASE ProposeWorld
  <2>1. /\ Len(journal) + 1 \in DOMAIN journal'
        /\ journal'[Len(journal) + 1] =
             [event |-> "world-synthesized", required |-> Keys("required"),
              optional |-> Keys("optional"), unresolved |-> Keys("unresolved")]
    BY <1>9 DEF ProposeWorld, Journal, TypeOK
  <2>2. Keys("required")' = Keys("required")
    BY <1>9 DEF ProposeWorld, Keys
  <2>3. /\ world'.status = "proposed" /\ phase' \in {"replay", "finalize"}
    BY <1>9 DEF ProposeWorld
  <2> QED
    BY <2>1, <2>2, <2>3 DEF ReplayTrail, VerifiedMeansReplayed, Synthesized
<1>10. CASE ConcludeReplay
  <2>1. PICK i, j \in DOMAIN journal :
          i < j /\ Synthesized(journal[i]) /\ ReplayRun(journal[j])
    BY <1>10 DEF ConcludeReplay, ReplayTrail
  <2>2. /\ Len(journal) + 1 \in DOMAIN journal' /\ j < Len(journal) + 1
        /\ journal'[Len(journal) + 1] = [event |-> "replay-completed",
                                         passed |-> trials[Len(trials)].outcome.passed]
    BY <1>2, <1>10 DEF ConcludeReplay, Journal, TypeOK
  <2>3. /\ phase' = "finalize" /\ UNCHANGED <<trials, conclusions>>
        /\ trials[Len(trials)].label.purpose = "replay"
        /\ trials[Len(trials)].treatment = NoTreatment
        /\ world'.status = "verified" => trials[Len(trials)].outcome.passed
    BY <1>10 DEF ConcludeReplay, ReplayTrail, CleanReplay, TypeOK, World
  <2>4. Keys("required")' = Keys("required")
    BY <2>3 DEF Keys
  <2>5. /\ i \in DOMAIN journal' /\ journal'[i].event = "world-synthesized"
        /\ journal'[i].required = Keys("required")'
        /\ j \in DOMAIN journal' /\ journal'[j].event = "trial-completed"
        /\ journal'[j].label.purpose = "replay"
    BY <1>2, <2>1, <2>4 DEF Synthesized, ReplayRun
  <2>6. world'.status = "verified" =>
          /\ journal'[Len(journal) + 1].event = "replay-completed"
          /\ journal'[Len(journal) + 1].passed
    BY <2>2, <2>3
  <2>7. VerifiedMeansReplayed'
    BY <2>1, <2>2, <2>3, <2>5, <2>6 DEF VerifiedMeansReplayed
  <2> QED
    BY <2>3, <2>7 DEF ReplayTrail
<1>11. CASE Finalize \/ Abort \/ UNCHANGED vars
  <2>1. UNCHANGED <<trials, conclusions, world>>
    BY <1>11 DEF Finalize, Abort, vars
  <2>2. phase' \in {"replay", "replayed"} => UNCHANGED <<phase, journal>>
    BY <1>11 DEF Finalize, Abort, vars
  <2>3. Keys("required")' = Keys("required")
    BY <2>1 DEF Keys
  <2>4. VerifiedMeansReplayed'
    <3> SUFFICES ASSUME world.status = "verified" PROVE VerifiedMeansReplayed'
      BY <2>1 DEF VerifiedMeansReplayed
    <3>1. PICK i, j, k \in DOMAIN journal :
            /\ i < j /\ j < k
            /\ journal[i].event = "world-synthesized"
            /\ journal[i].required = Keys("required")
            /\ journal[j].event = "trial-completed" /\ journal[j].label.purpose = "replay"
            /\ journal[k].event = "replay-completed" /\ journal[k].passed
      BY DEF ReplayTrail, VerifiedMeansReplayed
    <3> QED
      BY <1>2, <2>1, <2>3, <3>1 DEF ReplayTrail, VerifiedMeansReplayed
  <2> QED
    BY <2>1, <2>2, <2>3, <2>4 DEF ReplayTrail, Synthesized, ReplayRun
<1> QED
  BY <1>5, <1>6, <1>7, <1>8, <1>9, <1>10, <1>11 DEF Next, Step, Experiment, TrialStep

-----------------------------------------------------------------------------
(* Project tooling first.                                                  *)

\* Nothing is hidden in the initial states.
LEMMA InitToolsFirst == Init => ToolsFirst
BY NoRecords DEF Init, ToolsFirst, ToolingFirst, Purposes

\* An element of a concatenation is an element of one of its halves.
LEMMA ConcatElement ==
  ASSUME NEW S, NEW s \in Seq(S), NEW t \in Seq(S)
  PROVE  \A i \in DOMAIN (s \o t) : \/ i \in DOMAIN s /\ (s \o t)[i] = s[i]
                                    \/ \E j \in DOMAIN t : (s \o t)[i] = t[j]
<1> SUFFICES ASSUME NEW i \in DOMAIN (s \o t), i \notin DOMAIN s
             PROVE  \E j \in DOMAIN t : (s \o t)[i] = t[j]
  OBVIOUS
<1>1. /\ Len(s) \in Nat /\ Len(t) \in Nat /\ i \in 1..(Len(s) + Len(t))
      /\ DOMAIN s = 1..Len(s) /\ DOMAIN t = 1..Len(t)
  OBVIOUS
<1>2. i - Len(s) \in DOMAIN t
  BY <1>1
<1>3. (s \o t)[i] = t[i - Len(s)]
  BY <1>1
<1> QED
  BY <1>2, <1>3

\* Adding a limitation of another kind.
LEMMA OtherLimitation ==
  ASSUME TypeOK, NEW l \in LimitationRecord, l.limitation # "budget-hide",
         limitations' = limitations \/ limitations' = Append(limitations, l)
  PROVE  \A i \in DOMAIN limitations' : limitations'[i].limitation = "budget-hide" =>
           i \in DOMAIN limitations /\ limitations'[i] = limitations[i]
<1>1. limitations \in Seq(LimitationRecord)
  BY DEF TypeOK
<1>2. CASE limitations' = limitations
  BY <1>2
<1>3. CASE limitations' = Append(limitations, l)
  <2>1. \A i \in DOMAIN limitations' : \/ i \in DOMAIN limitations /\ limitations'[i] = limitations[i]
                                       \/ limitations'[i] = l
    BY <1>1, <1>3
  <2> QED
    BY <2>1
<1> QED
  BY <1>2, <1>3

\* Every step spends the budget on project tooling first.
LEMMA StepToolsFirst ==
  TypeOK /\ TrialsInOrder /\ LabelledOnce /\ ReplayKept /\ ToolsFirst /\ [Next]_vars
    => ToolsFirst'
<1> SUFFICES ASSUME TypeOK, TrialsInOrder, LabelledOnce, ReplayKept, ToolsFirst, [Next]_vars
             PROVE  ToolsFirst'
  OBVIOUS
<1> USE DEF At, inputs, loop, ResetLoop
<1>1. ASSUME UNCHANGED trials,
             phase' = "hide-trials" =>
               (phase = "hide-trials" /\ agenda' \cup dropped' \subseteq agenda \cup dropped)
                 \/ Purposes("hide") = {},
             phase' \in {"isolate", "hide-trials"} /\ dropped' # {} =>
               results' = <<>> /\ ~CanReserve',
             phase \in {"complete"} \cup Late => phase' \in {"complete"} \cup Late,
             \A i \in DOMAIN limitations' : limitations'[i].limitation = "budget-hide" =>
               i \in DOMAIN limitations /\ limitations'[i] = limitations[i]
      PROVE  ToolsFirst'
  <2>1. Purposes("hide")' = Purposes("hide")
    BY <1>1, TrialsKept
  <2> QED
    BY <1>1, <2>1 DEF ToolsFirst, ToolingFirst
<1>2. ASSUME UNCHANGED <<executed, policy, results, dropped, phase>>
      PROVE  phase' \in {"isolate", "hide-trials"} /\ dropped' # {} =>
               results' = <<>> /\ ~CanReserve'
  BY <1>2 DEF ToolsFirst, CanReserve, RunsPer
<1>3. ASSUME UNCHANGED limitations
      PROVE  \A i \in DOMAIN limitations' : limitations'[i].limitation = "budget-hide" =>
               i \in DOMAIN limitations /\ limitations'[i] = limitations[i]
  BY <1>3
<1>4. ASSUME phase \in Early \cup {"screen", "isolate", "hide"}  PROVE Purposes("hide") = {}
  BY <1>4 DEF TrialsInOrder, Purposes, PurposesBy, Early
<1>5. CASE TrialStep
  <2>1. PICK record : Taken(record) /\ OfLoop(record)'
    BY <1>5, TrialSteps
  <2>2. /\ phase' = IF phase = "replay" THEN "replayed" ELSE phase
        /\ phase \in {"baseline", "screen", "isolate", "hide-trials", "replay"}
        /\ UNCHANGED <<agenda, dropped, limitations>>
        /\ phase \in {"isolate", "hide-trials"} => (results = <<>> => CanReserve)
    BY <1>5, TrialSteps
  <2>3. phase \in {"isolate", "hide-trials"} => dropped = {}
    BY <2>2 DEF ToolsFirst
  <2>4. Purposes("hide")' = Purposes("hide") \cup {t \in {record} : t.label.purpose = "hide"}
    BY <2>1 DEF Taken, Purposes
  <2>5. CASE record.label.purpose = "hide"
    <3>1. phase = "hide-trials" /\ NextHide(record.label.key)
      BY <2>1, <2>2, <2>5 DEF OfLoop, NextHide
    <3>2. record.label.key \in Ubiquitous => agenda \cup dropped \subseteq Ubiquitous
      BY <2>3, <3>1 DEF NextHide
    <3>3. \A i \in DOMAIN limitations : limitations[i].limitation # "budget-hide"
      BY <3>1 DEF ToolsFirst, Late
    <3> QED
      BY <2>2, <2>3, <2>4, <3>1, <3>2, <3>3 DEF ToolsFirst, ToolingFirst
  <2>6. CASE record.label.purpose # "hide"
    <3>1. Purposes("hide")' = Purposes("hide")
      BY <2>4, <2>6
    <3> QED
      BY <2>2, <2>3, <3>1 DEF ToolsFirst, ToolingFirst, Late
  <2> QED
    BY <2>5, <2>6
<1>6. CASE SelectWorkload \/ TakeSnapshot \/ ScreenSkip \/ HideBegin
  BY <1>1, <1>3, <1>4, <1>6
     DEF SelectWorkload, TakeSnapshot, ScreenSkip, HideBegin, LabelledOnce, TargetsApart, Early, Late
<1>7. CASE PrepareEnvironment
  <2>1. /\ Limitation("provisioning-failed", {}) \in LimitationRecord
        /\ Limitation("provisioning-failed", {}).limitation # "budget-hide"
    BY LimitationType DEF LimitationKind, Limitation
  <2>2. /\ UNCHANGED trials /\ phase = "prepare" /\ phase' = "snapshot"
        /\ \/ limitations' = limitations
           \/ limitations' = Append(limitations, Limitation("provisioning-failed", {}))
    BY <1>7 DEF PrepareEnvironment
  <2> QED
    BY <1>1, <2>1, <2>2, OtherLimitation DEF Late
<1>8. CASE AssessBaseline
  <2> DEFINE short == IF Len(results) < BaselineRuns
                      THEN <<Limitation("budget-baseline", {})>> ELSE <<>>
             blind == IF seen.observed THEN <<>> ELSE <<Limitation("unobserved", {})>>
  <2>1. /\ UNCHANGED trials /\ phase = "baseline" /\ phase' \in {"screen", "complete"}
        /\ limitations' = limitations \o short \o blind
    BY <1>8 DEF AssessBaseline
  <2>2. /\ Limitation("budget-baseline", {}) \in LimitationRecord
        /\ Limitation("budget-baseline", {}).limitation # "budget-hide"
        /\ Limitation("unobserved", {}) \in LimitationRecord
        /\ Limitation("unobserved", {}).limitation # "budget-hide"
    BY LimitationType DEF LimitationKind, Limitation
  <2>3. /\ short \in Seq(LimitationRecord) /\ blind \in Seq(LimitationRecord)
        /\ \A i \in DOMAIN short : short[i].limitation # "budget-hide"
        /\ \A i \in DOMAIN blind : blind[i].limitation # "budget-hide"
    BY <2>2
  <2> HIDE DEF short, blind
  <2>4. \A i \in DOMAIN limitations' : limitations'[i].limitation = "budget-hide" =>
          i \in DOMAIN limitations /\ limitations'[i] = limitations[i]
    <3> DEFINE first == limitations \o short
    <3>1. limitations \in Seq(LimitationRecord) /\ first \in Seq(LimitationRecord)
      BY <2>3 DEF TypeOK
    <3>2. \A i \in DOMAIN first : \/ i \in DOMAIN limitations /\ first[i] = limitations[i]
                                  \/ \E j \in DOMAIN short : first[i] = short[j]
      BY <2>3, <3>1, ConcatElement
    <3> HIDE DEF first
    <3>3. \A i \in DOMAIN (first \o blind) :
            \/ i \in DOMAIN first /\ (first \o blind)[i] = first[i]
            \/ \E j \in DOMAIN blind : (first \o blind)[i] = blind[j]
      BY <2>3, <3>1, ConcatElement
    <3>4. limitations' = first \o blind
      BY <2>1 DEF first
    <3> SUFFICES ASSUME NEW i \in DOMAIN limitations',
                        limitations'[i].limitation = "budget-hide"
                 PROVE  i \in DOMAIN limitations /\ limitations'[i] = limitations[i]
      OBVIOUS
    <3>5. i \in DOMAIN first /\ limitations'[i] = first[i]
      BY <2>3, <3>3, <3>4
    <3> QED
      BY <2>3, <3>2, <3>5
  <2> QED
    BY <1>1, <2>1, <2>4 DEF Late
<1>9. CASE JournalConclusion \/ Abort \/ UNCHANGED vars
  BY <1>1, <1>2, <1>3, <1>9 DEF JournalConclusion, Abort, vars
<1>10. CASE ScreenUnenforceable \/ HideUnenforceable
  <2>1. PICK kind \in {"no-deny-all", "no-hiding"}, about \in SUBSET Dep :
          limitations' = Append(limitations, Limitation(kind, about))
    BY <1>10, CandidateKeys DEF ScreenUnenforceable, HideUnenforceable, Dep
  <2>2. /\ Limitation(kind, about) \in LimitationRecord
        /\ Limitation(kind, about).limitation # "budget-hide"
    BY LimitationType DEF LimitationKind, Limitation
  <2>3. UNCHANGED trials /\ phase \in {"screen", "hide"} /\ phase' \in {"hide", "complete"}
    BY <1>10 DEF ScreenUnenforceable, HideUnenforceable
  <2> QED
    BY <1>1, <2>1, <2>2, <2>3, OtherLimitation DEF Late
<1>11. CASE ScreenConclude
  <2>1. /\ Limitation("budget-intervention", {}) \in LimitationRecord
        /\ Limitation("budget-intervention", {}).limitation # "budget-hide"
    BY LimitationType DEF LimitationKind, Limitation
  <2>2. /\ UNCHANGED <<trials, dropped>> /\ phase = "screen" /\ phase' \in {"hide", "isolate"}
        /\ \/ limitations' = limitations
           \/ limitations' = Append(limitations, Limitation("budget-intervention", {}))
    BY <1>11 DEF ScreenConclude
  <2>3. dropped' = {}
    BY <2>2 DEF LabelledOnce, TargetsApart
  <2> QED
    BY <1>1, <2>1, <2>2, <2>3, OtherLimitation DEF Late
<1>12. CASE BlockDrop \/ HideDrop
  <2>1. PICK k \in agenda : DropTarget(k)
    BY <1>12 DEF BlockDrop, HideDrop
  <2>2. /\ UNCHANGED <<trials, limitations, phase>> /\ phase \in {"isolate", "hide-trials"}
        /\ agenda' \cup dropped' = agenda \cup dropped
        /\ results' = <<>> /\ ~CanReserve'
    BY <1>12, <2>1 DEF BlockDrop, HideDrop, DropTarget, CanReserve, RunsPer
  <2> QED
    BY <1>1, <1>3, <2>2 DEF Late
<1>13. CASE BlockConclude \/ HideConclude
  <2>1. PICK k \in agenda : ConcludeTarget(k)
    BY <1>13 DEF BlockConclude, HideConclude
  <2>2. /\ UNCHANGED <<trials, limitations, phase, dropped>> /\ phase \in {"isolate", "hide-trials"}
        /\ agenda' \subseteq agenda /\ results # <<>>
    BY <1>13, <2>1 DEF BlockConclude, HideConclude, ConcludeTarget
  <2>3. dropped = {}
    BY <2>2 DEF ToolsFirst
  <2> QED
    BY <1>1, <1>3, <2>2, <2>3 DEF Late
<1>14. CASE HideUnsupported
  <2>1. /\ UNCHANGED <<trials, limitations, phase, dropped>> /\ phase = "hide-trials"
        /\ agenda' \subseteq agenda /\ (results = <<>> => CanReserve)
    BY <1>14 DEF HideUnsupported
  <2>2. dropped = {}
    BY <2>1 DEF ToolsFirst
  <2> QED
    BY <1>1, <1>3, <2>1, <2>2 DEF Late
<1>15. CASE BlockReport
  <2>1. /\ Limitation("budget-isolation", dropped) \in LimitationRecord
        /\ Limitation("budget-isolation", dropped).limitation # "budget-hide"
    BY LimitationType DEF LimitationKind, Limitation, TypeOK
  <2>2. /\ UNCHANGED trials /\ phase = "isolate" /\ phase' = "hide"
        /\ \/ limitations' = limitations
           \/ limitations' = Append(limitations, Limitation("budget-isolation", dropped))
    BY <1>15 DEF BlockReport, ReportDropped
  <2> QED
    BY <1>1, <2>1, <2>2, OtherLimitation DEF Late
<1>16. CASE HideReport
  <2>1. /\ UNCHANGED trials /\ phase = "hide-trials" /\ phase' = "complete" /\ agenda = {}
        /\ \/ limitations' = limitations
           \/ limitations' = Append(limitations, Limitation("budget-hide", dropped))
    BY <1>16 DEF HideReport, ReportDropped
  <2>2. \A i \in DOMAIN limitations : limitations[i].limitation # "budget-hide"
    BY <2>1 DEF ToolsFirst, Late
  <2>3. \A i \in DOMAIN limitations' : limitations'[i].limitation = "budget-hide" =>
          limitations'[i].about = dropped
    <3>1. Limitation("budget-hide", dropped).about = dropped
      BY DEF Limitation
    <3>2. CASE limitations' = limitations
      BY <2>2, <3>2
    <3>3. CASE limitations' = Append(limitations, Limitation("budget-hide", dropped))
      <4>1. \A i \in DOMAIN limitations' : \/ i \in DOMAIN limitations /\ limitations'[i] = limitations[i]
                                           \/ limitations'[i] = Limitation("budget-hide", dropped)
        BY <3>3 DEF TypeOK
      <4> QED
        BY <2>2, <3>1, <4>1
    <3> QED
      BY <2>1, <3>2, <3>3
  <2>4. Purposes("hide")' = Purposes("hide")
    BY <2>1, TrialsKept
  <2>5. \A t \in Purposes("hide") : t.label.key \in Ubiquitous => dropped \subseteq Ubiquitous
    BY <2>1 DEF ToolsFirst
  <2> QED
    BY <2>1, <2>3, <2>4, <2>5 DEF ToolsFirst, ToolingFirst, Late
<1>17. CASE HideSkip \/ SkipWorld \/ ProposeWorld \/ ConcludeReplay \/ Finalize
  <2>1. /\ UNCHANGED <<trials, limitations>>
        /\ phase' \in {"complete", "replay", "finalize", "done"}
    BY <1>17 DEF HideSkip, SkipWorld, ProposeWorld, ConcludeReplay, Finalize
  <2> QED
    BY <1>1, <1>3, <2>1 DEF Late
<1> QED
  BY <1>5, <1>6, <1>7, <1>8, <1>9, <1>10, <1>11, <1>12, <1>13, <1>14, <1>15, <1>16, <1>17
     DEF Next, Step, Experiment, TrialStep

-----------------------------------------------------------------------------
(* The theorems.                                                           *)

\* The invariant holds initially and every step keeps it.
LEMMA Inductive == Spec => []Inv
<1>1. Init => Inv
  BY InitTypeOK, InitReplayKept, InitTrialsInOrder, InitLabelledOnce, InitLabelsEarned,
     InitJournaled, InitWorld, InitToolsFirst DEF Inv
<1>2. Inv /\ [Next]_vars => Inv'
  BY StepTypeOK, StepReplayKept, StepTrialsInOrder, StepLabelledOnce, StepLabelsEarned,
     StepJournaled, StepWorkflowFollows, StepWorldFrozen, StepReplayTrail, StepToolsFirst DEF Inv
<1> QED
  BY <1>1, <1>2, PTL DEF Spec

\* No treatment is applied and no causal label given on a baseline that was not
\* unanimous; a required label rests on enforced, failing, agreeing trials
\* that took this dependency away; an optional one on passing trials.
THEOREM LabelsHold == Spec => []LabelsAreEarned
<1>1. ASSUME LabelsEarned  PROVE LabelsAreEarned
  <2>1. StableBaselineGate
    BY <1>1 DEF LabelsEarned, StableBaselineGate
  <2>2. RequiredIsEarned
    BY <1>1 DEF LabelsEarned, RequiredIsEarned, Earned, RequiredFor, TakesAway
  <2>3. OptionalIsEarned
    BY <1>1 DEF LabelsEarned, OptionalIsEarned, Earned, OptionalFor, TakesAway, OutOfReach
  <2> QED
    BY <2>1, <2>2, <2>3 DEF LabelsAreEarned
<1>2. Inv => LabelsAreEarned
  BY <1>1 DEF Inv
<1> QED
  BY <1>2, Inductive, PTL

\* No dependency is labelled twice, and every label can be followed back
\* through the journal to trials journaled before it.
THEOREM TrailIsSingle == Spec => []TrailHolds
<1>1. Inv => TrailHolds
  BY DEF Inv, LabelledOnce, Journaled, TrailHolds
<1> QED
  BY <1>1, Inductive, PTL

\* No advance of the workflow is refused, and a verified world was frozen,
\* replayed and judged in this order, by the last trial of the analysis.
THEOREM RecordsHold == Spec => []RecordsAgree
<1>1. Inv => RecordsAgree
  BY DEF Inv, ReplayTrail, RecordsAgree
<1> QED
  BY <1>1, Inductive, PTL

\* When a ubiquitous utility was tested, no project tool was dropped.
THEOREM ToolingComesFirst == Spec => []ToolingFirst
<1>1. Inv => ToolingFirst
  BY DEF Inv, ToolsFirst
<1> QED
  BY <1>1, Inductive, PTL
=============================================================================
