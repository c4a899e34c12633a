-------------------------- MODULE InterventionProofs --------------------------
(***************************************************************************)
(* Theorems about Intervention for any services, signatures and reports and  *)
(* any number of variant runs: merging is exact, a blamed service is the only *)
(* one without a success, and a label is never turned into its opposite.     *)
(***************************************************************************)
EXTENDS Intervention, TLAPS

-----------------------------------------------------------------------------
(* Types of what is merged.                                                *)

\* A partial function is a function on some subset.
LEMMA PartialFunctionIff ==
  ASSUME NEW S, NEW T, NEW f
  PROVE  f \in PartialFunctions(S, T) <=> DOMAIN f \subseteq S /\ f \in [DOMAIN f -> T]
BY DEF PartialFunctions

\* Merging two sightings gives a sighting.
LEMMA MergeSightingType ==
  ASSUME NEW a \in Sighting, NEW b \in Sighting
  PROVE  MergeSighting(a, b) \in Sighting
BY DEF MergeSighting, Sighting

\* Merging the candidates of two runs gives candidates.
LEMMA MergeCandidatesType ==
  ASSUME NEW f \in PartialFunctions(Net, Sighting), NEW g \in PartialFunctions(Net, Sighting)
  PROVE  merge_candidates(f, g) \in PartialFunctions(Net, Sighting)
<1> DEFINE m == merge_candidates(f, g)
<1>1. /\ DOMAIN f \subseteq Net /\ f \in [DOMAIN f -> Sighting]
      /\ DOMAIN g \subseteq Net /\ g \in [DOMAIN g -> Sighting]
  BY PartialFunctionIff
<1>2. DOMAIN m = DOMAIN f \cup DOMAIN g
  BY DEF merge_candidates, MergeMaps
<1>3. ASSUME NEW k \in DOMAIN f \cup DOMAIN g  PROVE m[k] \in Sighting
  BY <1>1, MergeSightingType DEF merge_candidates, MergeMaps
<1>4. m \in [DOMAIN m -> Sighting]
  BY <1>2, <1>3 DEF merge_candidates, MergeMaps
<1> QED
  BY <1>1, <1>2, <1>4, PartialFunctionIff

\* Merging the executables of two runs gives executables.
LEMMA MergeExecutablesType ==
  ASSUME NEW f \in PartialFunctions(Exe, BOOLEAN), NEW g \in PartialFunctions(Exe, BOOLEAN)
  PROVE  merge_executables(f, g) \in PartialFunctions(Exe, BOOLEAN)
<1> DEFINE m == merge_executables(f, g)
<1>1. /\ DOMAIN f \subseteq Exe /\ f \in [DOMAIN f -> BOOLEAN]
      /\ DOMAIN g \subseteq Exe /\ g \in [DOMAIN g -> BOOLEAN]
  BY PartialFunctionIff
<1>2. DOMAIN m = DOMAIN f \cup DOMAIN g
  BY DEF merge_executables, MergeMaps
<1>3. ASSUME NEW k \in DOMAIN f \cup DOMAIN g  PROVE m[k] \in BOOLEAN
  BY <1>1 DEF merge_executables, MergeMaps, EitherFound
<1>4. m \in [DOMAIN m -> BOOLEAN]
  BY <1>2, <1>3 DEF merge_executables, MergeMaps
<1> QED
  BY <1>1, <1>2, <1>4, PartialFunctionIff

\* Merging the observations of two runs gives observations.
LEMMA MergeObservationsType ==
  ASSUME NEW a \in Observations, NEW b \in Observations
  PROVE  MergeObservations(a, b) \in Observations
<1>1. merge_candidates(a.network, b.network) \in PartialFunctions(Net, Sighting)
  BY MergeCandidatesType DEF Observations
<1>2. merge_executables(a.executables, b.executables) \in PartialFunctions(Exe, BOOLEAN)
  BY MergeExecutablesType DEF Observations
<1> QED
  BY <1>1, <1>2 DEF MergeObservations, Observations

\* The empty observations are observations.
LEMMA NothingSeenType == NothingSeen \in Observations
<1>1. EmptyMap \in PartialFunctions(Net, Sighting)
  BY PartialFunctionIff DEF EmptyMap
<1>2. EmptyMap \in PartialFunctions(Exe, BOOLEAN)
  BY PartialFunctionIff DEF EmptyMap
<1> QED
  BY <1>1, <1>2 DEF NothingSeen, Observations

-----------------------------------------------------------------------------
(* The inductive invariant.                                                 *)

\* The runs that saw a service.
SawIt(n) == {i \in DOMAIN history : n \in DOMAIN history[i].network}

Typed ==
  /\ variants \in Seq([label : Label, treatment : Treatment, enforcement : EnforcementStatus,
                     outcome : TrialOutcome])
  /\ history \in Seq(Observations) /\ Len(history) = Len(variants)
  /\ merged \in Observations

\* The known signatures have a first one.
HasFirst == Known # {} => \E i \in Known : \A j \in Known : i <= j

Inv == Typed /\ MergeIsExact /\ HasFirst

-----------------------------------------------------------------------------
(* Steps.                                                                   *)

\* What a variant run reports.
LEMMA ReportType ==
  ASSUME NEW network \in PartialFunctions(Net, Sightings)
  PROVE  [network |-> network, executables |-> EmptyMap, observed |-> TRUE] \in Observations
<1>1. network \in PartialFunctions(Net, Sighting)
  BY PartialFunctionIff, SightingsAssumption DEF PartialFunctions
<1>2. EmptyMap \in PartialFunctions(Exe, BOOLEAN)
  BY PartialFunctionIff DEF EmptyMap
<1> QED BY <1>1, <1>2 DEF Observations

\* Nothing was seen, and nothing is merged.
LEMMA InitInv == InterventionInit => Inv
<1> SUFFICES ASSUME InterventionInit PROVE Inv
  OBVIOUS
<1>1. variants = <<>> /\ history = <<>> /\ merged = NothingSeen
  BY DEF InterventionInit
<1>2. Typed
  BY <1>1, NothingSeenType DEF Typed
<1>3. MergeIsExact
  BY <1>1 DEF MergeIsExact, NothingSeen, EmptyMap
<1>4. HasFirst
  BY <1>1 DEF HasFirst, Known
<1> QED BY <1>2, <1>3, <1>4 DEF Inv

\* A variant run, told by what it appends.
LEMMA VariantAppends ==
  ASSUME Inv, NEW enforcement \in {"enforced", "partially-enforced"}, NEW o \in TrialOutcome,
         NEW network \in PartialFunctions(Net, Sightings), VariantRun(enforcement, o, network)
  PROVE  \E t \in [label : Label, treatment : Treatment, enforcement : EnforcementStatus,
                   outcome : TrialOutcome], saw \in Observations :
           /\ t.enforcement = enforcement /\ t.outcome = o /\ saw.network = network
           /\ variants' = Append(variants, t) /\ history' = Append(history, saw)
           /\ merged' = MergeObservations(merged, saw) /\ outcomes' = outcomes
           /\ outcomes # <<>>
<1> DEFINE saw == [network |-> network, executables |-> EmptyMap, observed |-> TRUE]
           t == [label |-> [purpose |-> "no-egress", key |-> 0, run |-> Len(variants) + 1],
                 treatment |-> DenyAllEgress, enforcement |-> enforcement, outcome |-> o]
<1>1. saw \in Observations
  BY ReportType
<1>2. t \in [label : Label, treatment : Treatment, enforcement : EnforcementStatus,
             outcome : TrialOutcome]
  BY DEF Inv, Typed, Label, Treatment, EnforcementStatus
<1>3. /\ variants' = Append(variants, t) /\ history' = Append(history, saw)
      /\ merged' = MergeObservations(merged, saw) /\ outcomes' = outcomes /\ outcomes # <<>>
  BY DEF VariantRun
<1>4. t.enforcement = enforcement /\ t.outcome = o /\ saw.network = network
  OBVIOUS
<1> HIDE DEF saw, t
<1> QED BY <1>1, <1>2, <1>3, <1>4

\* Every run keeps the invariant.
LEMMA NextInv == Inv /\ [InterventionNext]_interventionVars => Inv'
<1> SUFFICES ASSUME Inv, [InterventionNext]_interventionVars PROVE Inv'
  OBVIOUS
<1>1. CASE UNCHANGED <<variants, history, merged>>
  BY <1>1 DEF Inv, Typed, MergeIsExact, HasFirst, Known
<1>2. ASSUME NEW enforcement \in {"enforced", "partially-enforced"}, NEW o \in TrialOutcome,
             NEW network \in PartialFunctions(Net, Sightings), VariantRun(enforcement, o, network)
      PROVE  Inv'
  <2>1. PICK t \in [label : Label, treatment : Treatment, enforcement : EnforcementStatus,
                    outcome : TrialOutcome], saw \in Observations :
           /\ t.enforcement = enforcement /\ t.outcome = o /\ saw.network = network
           /\ variants' = Append(variants, t) /\ history' = Append(history, saw)
           /\ merged' = MergeObservations(merged, saw)
    BY <1>2, VariantAppends
  <2>2. Typed'
    BY <2>1, MergeObservationsType DEF Inv, Typed
  <2>3. /\ Len(history') = Len(history) + 1 /\ history'[Len(history) + 1] = saw
        /\ \A i \in DOMAIN history : i # Len(history) + 1 /\ history'[i] = history[i]
        /\ DOMAIN history' = DOMAIN history \cup {Len(history) + 1}
    BY <2>1 DEF Inv, Typed
  <2>4. /\ variants'[Len(variants) + 1] = t
        /\ \A i \in DOMAIN variants : i < Len(variants) + 1 /\ variants'[i] = variants[i] /\ i \in Nat
        /\ DOMAIN variants' = DOMAIN variants \cup {Len(variants) + 1} /\ Len(variants) + 1 \in Nat
    BY <2>1 DEF Inv, Typed
  <2>5. merged'.network = merge_candidates(merged.network, saw.network)
    BY <2>1 DEF MergeObservations
  <2>9. /\ DOMAIN merged'.network = DOMAIN merged.network \cup DOMAIN saw.network
        /\ \A n \in DOMAIN merged.network \ DOMAIN saw.network :
             merged'.network[n] = merged.network[n]
        /\ \A n \in DOMAIN saw.network \ DOMAIN merged.network :
             merged'.network[n] = saw.network[n]
        /\ \A n \in DOMAIN saw.network \cap DOMAIN merged.network :
             merged'.network[n] = MergeSighting(merged.network[n], saw.network[n])
    BY <2>5 DEF merge_candidates, MergeMaps
  <2>6. ASSUME NEW n \in Net
        PROVE  LET seen == {i \in DOMAIN history' : n \in DOMAIN history'[i].network}
               IN  /\ n \in DOMAIN merged'.network <=> seen # {}
                   /\ seen # {} =>
                        /\ merged'.network[n].allFailed <=>
                             \A i \in seen : history'[i].network[n].allFailed
                        /\ merged'.network[n].enforced <=>
                             \A i \in seen : history'[i].network[n].enforced
                        /\ merged'.network[n].external <=>
                             \E i \in seen : history'[i].network[n].external
    <3> DEFINE last == Len(history) + 1
    <3>1. /\ n \in DOMAIN merged.network <=> SawIt(n) # {}
          /\ SawIt(n) # {} =>
               /\ merged.network[n].allFailed <=> \A i \in SawIt(n) : history[i].network[n].allFailed
               /\ merged.network[n].enforced <=> \A i \in SawIt(n) : history[i].network[n].enforced
               /\ merged.network[n].external <=> \E i \in SawIt(n) : history[i].network[n].external
      BY DEF Inv, MergeIsExact, SawIt
    <3>2. SawIt(n)' = SawIt(n) \cup {i \in {last} : n \in DOMAIN saw.network}
      BY <2>3 DEF SawIt
    <3>3. \A i \in SawIt(n) : history'[i] = history[i]
      BY <2>3 DEF SawIt
    <3>4. history'[last] = saw
      BY <2>3
    <3> HIDE DEF last
    <3>5. CASE n \notin DOMAIN saw.network
      <4>1. SawIt(n)' = SawIt(n)
        BY <3>2, <3>5
      <4>2. /\ n \in DOMAIN merged'.network <=> n \in DOMAIN merged.network
            /\ n \in DOMAIN merged.network => merged'.network[n] = merged.network[n]
        BY <2>9, <3>5
      <4> QED BY <3>1, <3>3, <4>1, <4>2 DEF SawIt
    <3>6. CASE n \in DOMAIN saw.network /\ n \notin DOMAIN merged.network
      <4>1. SawIt(n)' = {last}
        BY <3>1, <3>2, <3>6
      <4>2. n \in DOMAIN merged'.network /\ merged'.network[n] = saw.network[n]
        BY <2>9, <3>6
      <4> QED BY <3>4, <4>1, <4>2 DEF SawIt
    <3>7. CASE n \in DOMAIN saw.network /\ n \in DOMAIN merged.network
      <4>1. SawIt(n)' = SawIt(n) \cup {last} /\ SawIt(n) # {}
        BY <3>1, <3>2, <3>7
      <4>2. /\ n \in DOMAIN merged'.network
            /\ merged'.network[n].allFailed <=> merged.network[n].allFailed /\ saw.network[n].allFailed
            /\ merged'.network[n].enforced <=> merged.network[n].enforced /\ saw.network[n].enforced
            /\ merged'.network[n].external <=> merged.network[n].external \/ saw.network[n].external
        <5> DEFINE a == merged.network[n]
                   b == saw.network[n]
        <5>1. n \in DOMAIN merged'.network /\ merged'.network[n] = MergeSighting(a, b)
          BY <2>9, <3>7
        <5>2. a \in Sighting /\ b \in Sighting
          BY <3>7, PartialFunctionIff DEF Inv, Typed, Observations
        <5> HIDE DEF a, b
        <5>3. /\ MergeSighting(a, b).allFailed <=> a.allFailed /\ b.allFailed
              /\ MergeSighting(a, b).enforced <=> a.enforced /\ b.enforced
              /\ MergeSighting(a, b).external <=> a.external \/ b.external
          BY <5>2 DEF MergeSighting, Sighting
        <5> QED BY <5>1, <5>3 DEF a, b
      <4> QED BY <3>1, <3>3, <3>4, <4>1, <4>2 DEF SawIt
    <3> QED BY <3>5, <3>6, <3>7
  <2>7. MergeIsExact'
    BY <2>6 DEF MergeIsExact
  <2>8. HasFirst'
    <3>1. Known' = Known \cup {i \in {Len(variants) + 1} : t.outcome.signature # NoSignature}
      BY <2>4 DEF Known
    <3>2. CASE Known = {}
      <4>1. \A i, j \in Known' : i = j /\ i \in Nat
        BY <2>4, <3>1, <3>2
      <4> QED BY <4>1 DEF HasFirst
    <3>3. CASE Known # {}
      <4>1. PICK i \in Known : \A j \in Known : i <= j
        BY <3>3 DEF Inv, HasFirst
      <4>2. i \in Known' /\ i < Len(variants) + 1 /\ i \in Nat
        BY <2>4, <3>1 DEF Known
      <4>3. i <= Len(variants) + 1
        BY <2>4, <4>2
      <4> QED BY <3>1, <4>1, <4>2, <4>3 DEF HasFirst
    <3> QED BY <3>2, <3>3
  <2> QED BY <2>2, <2>7, <2>8 DEF Inv
<1> QED BY <1>1, <1>2 DEF InterventionNext, BaselineRun, interventionVars

\* The invariant holds in every behaviour.
LEMMA Inductive == InterventionSpec => []Inv
BY InitInv, NextInv, PTL DEF InterventionSpec

-----------------------------------------------------------------------------
(* What the label of one service says of the evidence.                       *)

EvidenceOf(n) ==
  [key |-> n, external |-> TRUE, attempted |-> TRUE,
   unavailable |-> n \in DOMAIN merged.network => merged.network[n].allFailed]

\* No run got through to the service, as far as was seen.
Failing(n) == n \in DOMAIN merged.network => merged.network[n].allFailed

Runs == {variants[i] : i \in DOMAIN variants}

\* Required is said of the only service that was failing throughout, when every
\* run failed alike; optional of a failing one, when every run passed.
Means(n) ==
  /\ n \in Labelled("required") <=>
       /\ n \in Net /\ Conclusive(assess_baseline(outcomes), Runs) /\ ~AllPassed(Runs)
       /\ \A m \in Net : Failing(m) <=> m = n
  /\ n \in Labelled("optional") <=>
       /\ n \in Net /\ Conclusive(assess_baseline(outcomes), Runs) /\ AllPassed(Runs)
       /\ Failing(n)

\* The labels mean that of every service.
LEMMA LabelMeans == \A n : Means(n)
<1> SUFFICES ASSUME NEW n PROVE Means(n)
  OBVIOUS
<1> DEFINE base == assess_baseline(outcomes)
           judged(m) == Judgement(base, Runs, GroupEvidence, EvidenceOf(m))
<1>1. GroupEvidence = {EvidenceOf(m) : m \in Net}
  BY DEF GroupEvidence, EvidenceOf
<1>2. \A m : EvidenceOf(m).key = m /\ EvidenceOf(m).external /\ EvidenceOf(m).attempted
             /\ (EvidenceOf(m).unavailable <=> Failing(m))
  BY DEF EvidenceOf, Failing
<1>3. Conclusions = {[dependency |-> c.key, necessity |-> Judgement(base, Runs, GroupEvidence, c),
                      trials |-> IF Judgement(base, Runs, GroupEvidence, c) = "unresolved"
                                 THEN {} ELSE Labels(Runs)] : c \in GroupEvidence}
  BY DEF Conclusions, classify_intervention, Runs
<1>4. \A necessity : n \in Labelled(necessity) <=> n \in Net /\ judged(n) = necessity
  <2> HIDE DEF base
  <2> DEFINE concluded(c) ==
               [dependency |-> c.key, necessity |-> Judgement(base, Runs, GroupEvidence, c),
                trials |-> IF Judgement(base, Runs, GroupEvidence, c) = "unresolved"
                           THEN {} ELSE Labels(Runs)]
  <2>3. Conclusions = {concluded(c) : c \in GroupEvidence}
    BY <1>3
  <2>4. \A m : /\ concluded(EvidenceOf(m)).dependency = m
               /\ concluded(EvidenceOf(m)).necessity = judged(m)
    BY <1>2
  <2> HIDE DEF concluded
  <2>5. Conclusions = {concluded(EvidenceOf(m)) : m \in Net}
    BY <1>1, <2>3
  <2> HIDE DEF judged
  <2>1. \A c \in Conclusions : c.dependency \in Net /\ c.necessity = judged(c.dependency)
    BY <2>4, <2>5
  <2>2. \A m \in Net : \E c \in Conclusions : c.dependency = m /\ c.necessity = judged(m)
    BY <2>4, <2>5
  <2> QED BY <2>1, <2>2 DEF Labelled
<1>5. ChangedSet(GroupEvidence) = {EvidenceOf(m) : m \in {k \in Net : Failing(k)}}
  BY <1>1, <1>2 DEF ChangedSet
<1> HIDE DEF base
<1>6. judged(n) = "required" <=>
        Conclusive(base, Runs) /\ ~AllPassed(Runs) /\ ChangedSet(GroupEvidence) = {EvidenceOf(n)}
  BY DEF Judgement
<1>7. judged(n) = "optional" <=> Conclusive(base, Runs) /\ AllPassed(Runs) /\ Failing(n)
  BY <1>2 DEF Judgement
<1> HIDE DEF judged
<1>8. n \in Net => (ChangedSet(GroupEvidence) = {EvidenceOf(n)} <=> \A m \in Net : Failing(m) <=> m = n)
  <2> SUFFICES ASSUME n \in Net
               PROVE  {EvidenceOf(m) : m \in {k \in Net : Failing(k)}} = {EvidenceOf(n)}
                        <=> \A m \in Net : Failing(m) <=> m = n
    BY <1>5
  <2>1. \A m \in Net : EvidenceOf(m) = EvidenceOf(n) => m = n
    BY <1>2
  <2> HIDE DEF Failing, EvidenceOf
  <2> QED BY <2>1
<1> QED BY <1>4, <1>6, <1>7, <1>8 DEF base, Means

\* One more run: who was getting through still does, and the runs only grow.
LEMMA OneMoreRun ==
  ASSUME Inv, [InterventionNext]_interventionVars, variants # <<>>
  PROVE  /\ outcomes' = outcomes
         /\ Runs # {} /\ Runs \subseteq Runs'
         /\ \A n \in Net : Failing(n)' => Failing(n)
<1>1. Runs # {}
  <2>1. Len(variants) \in Nat /\ Len(variants) # 0 /\ DOMAIN variants = 1 .. Len(variants)
    BY DEF Inv, Typed
  <2>2. 1 \in DOMAIN variants
    BY <2>1
  <2> QED BY <2>2 DEF Runs
<1>2. CASE UNCHANGED interventionVars
  BY <1>1, <1>2 DEF interventionVars, Runs, Failing
<1>3. ASSUME NEW enforcement \in {"enforced", "partially-enforced"}, NEW o \in TrialOutcome,
             NEW network \in PartialFunctions(Net, Sightings), VariantRun(enforcement, o, network)
      PROVE  /\ outcomes' = outcomes
             /\ Runs # {} /\ Runs \subseteq Runs'
             /\ \A n \in Net : Failing(n)' => Failing(n)
  <2>1. PICK t \in [label : Label, treatment : Treatment, enforcement : EnforcementStatus,
                    outcome : TrialOutcome], saw \in Observations :
           /\ variants' = Append(variants, t) /\ outcomes' = outcomes
           /\ merged' = MergeObservations(merged, saw)
    BY <1>3, VariantAppends
  <2>2. Runs \subseteq Runs'
    <3>1. \A i \in DOMAIN variants : i \in DOMAIN variants' /\ variants'[i] = variants[i]
      BY <2>1 DEF Inv, Typed
    <3> QED BY <3>1 DEF Runs
  <2>3. merged'.network = merge_candidates(merged.network, saw.network)
    BY <2>1 DEF MergeObservations
  <2>4. \A n \in DOMAIN merged.network :
          /\ n \in DOMAIN merged'.network
          /\ merged'.network[n] = merged.network[n]
             \/ (n \in DOMAIN saw.network
                 /\ merged'.network[n] = MergeSighting(merged.network[n], saw.network[n]))
    BY <2>3 DEF merge_candidates, MergeMaps
  <2>5. \A a \in Sighting, b \in Sighting : MergeSighting(a, b).allFailed => a.allFailed
    BY DEF MergeSighting, Sighting
  <2>6. /\ \A n \in DOMAIN merged.network : merged.network[n] \in Sighting
        /\ \A n \in DOMAIN saw.network : saw.network[n] \in Sighting
    BY PartialFunctionIff DEF Inv, Typed, Observations
  <2>7. \A n \in Net : Failing(n)' => Failing(n)
    BY <2>4, <2>5, <2>6 DEF Failing
  <2> QED BY <1>1, <2>1, <2>2, <2>7
<1>4. CASE \E o \in TrialOutcome : BaselineRun(o)
  BY <1>4 DEF BaselineRun
<1> QED BY <1>2, <1>3, <1>4 DEF InterventionNext

-----------------------------------------------------------------------------
(* The theorems.                                                            *)

\* Merging the runs one by one, in any number and any order, loses nothing of
\* what they saw: a service counts as unavailable exactly when every run that
\* tried it failed, as refused by policy when every one was refused.
THEOREM MergingIsExact == InterventionSpec => []MergeIsExact
BY Inductive, PTL DEF Inv

\* The blamed service is the only one no run got through to: every other one
\* succeeded in some run, though all runs failed, and failed alike.
THEOREM BlameRests == InterventionSpec => []BlameIsCovered
<1>1. Inv => BlameIsCovered
  <2> SUFFICES ASSUME Inv, NEW n \in Labelled("required")
               PROVE  /\ signatures_compatible
                      /\ \A i \in DOMAIN variants : ~variants[i].outcome.passed
                      /\ \A i \in DOMAIN history : n \in DOMAIN history[i].network =>
                                                     history[i].network[n].allFailed
                      /\ \A m \in Net \ {n} : \E i \in DOMAIN history :
                           m \in DOMAIN history[i].network /\ ~history[i].network[m].allFailed
    BY DEF BlameIsCovered
  <2>1. /\ n \in Net /\ AllFailed(Runs) /\ SignaturesCompatible(Runs)
        /\ \A m \in Net : Failing(m) <=> m = n
    BY LabelMeans DEF Conclusive, Means
  <2>2. signatures_compatible
    <3> SUFFICES ASSUME NEW i \in Known PROVE variants[i].outcome.signature = FirstKnown
      BY DEF signatures_compatible
    <3> DEFINE first == CHOOSE k \in Known : \A j \in Known : k <= j
    <3>1. first \in Known
      BY DEF Inv, HasFirst
    <3>2. variants[i] \in Runs /\ variants[first] \in Runs
      BY <3>1 DEF Known, Runs
    <3>3. /\ variants[i].outcome.signature # NoSignature
          /\ variants[first].outcome.signature # NoSignature
      BY <3>1 DEF Known
    <3>4. FirstKnown = variants[first].outcome.signature
      BY DEF FirstKnown
    <3> HIDE DEF first
    <3> QED BY <2>1, <3>2, <3>3, <3>4 DEF SignaturesCompatible
  <2>3. \A i \in DOMAIN variants : ~variants[i].outcome.passed
    BY <2>1 DEF AllFailed, Runs
  <2>4. ASSUME NEW i \in DOMAIN history, n \in DOMAIN history[i].network
        PROVE  history[i].network[n].allFailed
    BY <2>1, <2>4 DEF Inv, MergeIsExact, Failing
  <2>5. ASSUME NEW m \in Net \ {n}
        PROVE  \E i \in DOMAIN history :
                 m \in DOMAIN history[i].network /\ ~history[i].network[m].allFailed
    BY <2>1 DEF Inv, MergeIsExact, Failing
  <2> QED BY <2>2, <2>3, <2>4, <2>5
<1> QED BY <1>1, Inductive, PTL

\* However many runs are added, none turns a causal label into its opposite,
\* moves the blame to another service or earns a withdrawn clearance back.
THEOREM LabelsAreNotReversed == InterventionSpec => NeverReversed
<1> DEFINE Meant == \A n : Means(n)
           Kept ==
             variants # <<>> =>
               /\ Labelled("required") # {} =>
                    Labelled("required")' \subseteq Labelled("required")
               /\ Labelled("optional")' \subseteq Labelled("optional")
               /\ Labelled("required")' \cap Labelled("optional") = {}
<1>1. Inv /\ Meant /\ Meant' /\ [InterventionNext]_interventionVars => Kept
  <2> SUFFICES ASSUME Inv, Meant, Meant', [InterventionNext]_interventionVars, variants # <<>>
               PROVE  /\ Labelled("required") # {} =>
                           Labelled("required")' \subseteq Labelled("required")
                      /\ Labelled("optional")' \subseteq Labelled("optional")
                      /\ Labelled("required")' \cap Labelled("optional") = {}
    OBVIOUS
  <2>1. /\ outcomes' = outcomes
        /\ Runs # {} /\ Runs \subseteq Runs'
        /\ \A n \in Net : Failing(n)' => Failing(n)
    BY OneMoreRun
  <2>2. \A n : Means(n)
    OBVIOUS
  <2>3. \A n : Means(n)'
    OBVIOUS
  <2>4. Conclusive(assess_baseline(outcomes'), Runs') /\ AllPassed(Runs') =>
          Conclusive(assess_baseline(outcomes), Runs) /\ AllPassed(Runs)
    BY <2>1 DEF Conclusive, AllPassed
  <2>5. Conclusive(assess_baseline(outcomes'), Runs') /\ ~AllPassed(Runs') => ~AllPassed(Runs)
    BY <2>1 DEF Conclusive, AllPassed, AllFailed
  <2>6. Labelled("optional")' \subseteq Labelled("optional")
    BY <2>1, <2>2, <2>3, <2>4 DEF Means
  <2>7. Labelled("required")' \cap Labelled("optional") = {}
    BY <2>2, <2>3, <2>5 DEF Means
  <2>8. ASSUME NEW k \in Labelled("required"), NEW n \in Labelled("required")'
        PROVE  n \in Labelled("required")
    <3>1. n \in Net /\ Failing(n)'
      BY <2>3 DEF Means
    <3>2. n = k
      BY <2>1, <2>2, <3>1 DEF Means
    <3> QED BY <3>2
  <2> QED BY <2>6, <2>7, <2>8
<1> HIDE DEF Meant, Kept
<1>2. Meant
  BY LabelMeans DEF Meant
<1> QED BY <1>1, <1>2, Inductive, PTL DEF InterventionSpec, NeverReversed, Kept
=============================================================================
