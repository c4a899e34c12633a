--------------------------- MODULE PromiseProofs ---------------------------
(***************************************************************************)
(* Prove implements Analysis: for every laboratory, policy and workload,   *)
(* each step of prove() is a step of the promise or leaves what it speaks  *)
(* of unchanged.  What is written of the report (Report): the five         *)
(* accounts of a finished analysis agree.  And what Prove finds out of a   *)
(* laboratory that tells the truth (ProveTruth): its labels are those of   *)
(* the workload's nature, nothing is left open without a reason, and what  *)
(* it calls required is enough to run the workload on.                     *)
(***************************************************************************)
EXTENDS Report, ProveTruth, ProveProofs

-----------------------------------------------------------------------------
(* The mapped state.                                                       *)

\* The label of a dependency is that of its only conclusion.
LEMMA LabelIsNecessity ==
  ASSUME OneVerdictEach, NEW d
  PROVE  /\ \A c \in conclusions : c.dependency = d => LabelOf(d) = c.necessity
         /\ (\A c \in conclusions : c.dependency # d) => LabelOf(d) = "none"
<1>1. ASSUME NEW c \in conclusions, c.dependency = d
      PROVE  LabelOf(d) = c.necessity
  <2>1. (CHOOSE x \in conclusions : x.dependency = d) = c
    BY <1>1 DEF OneVerdictEach
  <2> QED
    BY <1>1, <2>1 DEF LabelOf
<1> QED
  BY <1>1 DEF LabelOf

\* The labels of dependencies that nothing concludes about are not changed by
\* conclusions about others.
LEMMA LabelsKept ==
  ASSUME UNCHANGED conclusions
  PROVE  \A d : LabelOf(d)' = LabelOf(d)
BY DEF LabelOf

\* A world made of the conclusions' keys holds exactly their labels.
LEMMA KeysAreLabels ==
  ASSUME TypeOK, OneVerdictEach, NEW d
  PROVE  LabelOf(d) = IF d \in Keys("required") THEN "required"
                      ELSE IF d \in Keys("optional") THEN "optional"
                      ELSE IF d \in Keys("unresolved") THEN "unresolved"
                      ELSE "none"
<1>1. CASE \E c \in conclusions : c.dependency = d
  <2>1. PICK c \in conclusions : c.dependency = d
    BY <1>1
  <2>2. LabelOf(d) = c.necessity
    BY <2>1, LabelIsNecessity
  <2>3. \A n : d \in Keys(n) <=> n = c.necessity
    BY <2>1 DEF Keys, OneVerdictEach
  <2>4. c.necessity \in {"required", "optional", "unresolved"}
    BY DEF TypeOK, Classified, Necessity
  <2> QED
    BY <2>2, <2>3, <2>4
<1>2. CASE \A c \in conclusions : c.dependency # d
  <2>1. \A n : d \notin Keys(n)
    BY <1>2 DEF Keys
  <2> QED
    BY <1>2, <2>1, LabelIsNecessity
<1> QED
  BY <1>1, <1>2

\* Initial states map to initial states.
LEMMA InitPromise == Init => Promise!Init
<1> SUFFICES ASSUME Init PROVE Promise!Init
  OBVIOUS
<1>1. \A d \in Dep : LabelOf(d) = "none" /\ MemberOf(d) = "none"
  BY DEF Init, LabelOf, MemberOf
<1> QED
  BY <1>1 DEF Init, Promise!Init

\* Every step maps to a step of the promise, or to none.
LEMMA StepPromise == Inv /\ Inv' /\ [Next]_vars => [Promise!Next]_(Promise!vars)
<1> SUFFICES ASSUME Inv, Inv', [Next]_vars PROVE [Promise!Next]_(Promise!vars)
  OBVIOUS
<1> USE DEF At
<1> DEFINE verdictBar == IF phase \in {"select", "prepare", "snapshot", "baseline"}
                         THEN "none" ELSE baseline
           labelBar   == [d \in Dep |-> LabelOf(d)]
           membersBar == [d \in Dep |-> MemberOf(d)]
<1>0. TypeOK /\ OneVerdictEach /\ OneVerdictEach' /\ LabelsEarned /\ WorldFrozen /\ LabelledOnce
  BY DEF Inv, LabelledOnce
<1>1. ASSUME UNCHANGED <<conclusions, world>>, verdictBar' = verdictBar
      PROVE  UNCHANGED Promise!vars
  <2>1. UNCHANGED labelBar
    BY <1>1, LabelsKept
  <2>2. UNCHANGED membersBar
    BY <1>1 DEF MemberOf
  <2> QED
    BY <1>1, <2>1, <2>2 DEF Promise!vars
<1>2. ASSUME UNCHANGED <<conclusions, world, baseline>>, phase' \in Early <=> phase \in Early
      PROVE  UNCHANGED Promise!vars
  BY <1>1, <1>2 DEF Early
<1>3. CASE TrialStep
  <2>1. /\ UNCHANGED <<conclusions, world, baseline>>
        /\ phase' = IF phase = "replay" THEN "replayed" ELSE phase
    BY <1>3, TrialSteps DEF Inv, found
  <2> QED
    BY <1>2, <2>1 DEF Early
<1>4. CASE SelectWorkload \/ PrepareEnvironment \/ TakeSnapshot
  BY <1>2, <1>4 DEF SelectWorkload, PrepareEnvironment, TakeSnapshot, Early, found
<1>5. CASE \/ ScreenSkip \/ ScreenUnenforceable \/ ScreenConclude \/ BlockDrop \/ BlockConclude
           \/ BlockReport \/ HideSkip \/ HideUnenforceable \/ HideBegin \/ HideDrop
           \/ HideUnsupported \/ HideConclude \/ HideReport
  <2>1. UNCHANGED <<conclusions, world, found>> /\ phase \notin Early /\ phase' \notin Early
    BY <1>5 DEF ScreenSkip, ScreenUnenforceable, ScreenConclude, BlockDrop, BlockConclude,
                BlockReport, HideSkip, HideUnenforceable, HideBegin, HideDrop,
                HideUnsupported, HideConclude, HideReport,
                DropTarget, ConcludeTarget, ReportDropped, Early
  <2> QED
    BY <1>2, <2>1 DEF found
<1>6. CASE Finalize \/ Abort \/ UNCHANGED vars
  BY <1>2, <1>6 DEF Finalize, Abort, vars, Early, found
<1>7. CASE AssessBaseline
  <2>1. /\ UNCHANGED <<conclusions, world>> /\ verdictBar = "none"
        /\ verdictBar' \in {"stable-passing", "stable-failing", "unstable"}
    BY <1>7, AssessType DEF AssessBaseline, BaselineVerdict
  <2>2. UNCHANGED <<labelBar, membersBar>>
    BY <2>1, LabelsKept DEF MemberOf
  <2>3. Promise!Judge
    BY <2>1, <2>2 DEF Promise!Judge
  <2> QED
    BY <2>3 DEF Promise!Next
<1>8. CASE JournalConclusion
  <2>1. PICK c \in pending :
          conclusions' = conclusions \cup
            {[dependency |-> c.dependency, necessity |-> c.necessity, trials |-> c.trials,
              evidence |-> Len(journal) + 1]}
    BY <1>8 DEF JournalConclusion
  <2> DEFINE given == [dependency |-> c.dependency, necessity |-> c.necessity,
                       trials |-> c.trials, evidence |-> Len(journal) + 1]
  <2>2. /\ c.dependency \in Dep /\ c.necessity \in {"required", "optional", "unresolved"}
        /\ given.dependency = c.dependency /\ given.necessity = c.necessity
    BY <1>0 DEF TypeOK, Conclusion, Necessity
  <2>3. conclusions' = conclusions \cup {given}
    BY <2>1
  <2> HIDE DEF given
  <2>4. /\ verdictBar # "none" /\ world.status = "none"
        /\ c.necessity \in {"required", "optional"} => verdictBar = "stable-passing"
        /\ UNCHANGED <<world, verdictBar>>
    <3>1. phase \notin Early /\ phase \notin Late
      BY <1>0 DEF LabelledOnce, WorldFrozen
    <3>2. c.necessity # "unresolved" => supports_experiments(baseline)
      BY <1>0 DEF LabelsEarned
    <3>3. UNCHANGED <<world, phase, baseline>>
      BY <1>8 DEF JournalConclusion, found
    <3> QED
      BY <1>0, <3>1, <3>2, <3>3
         DEF Early, WorldFrozen, supports_experiments, TypeOK, BaselineVerdict
  <2>5. \A d \in conclusions : d.dependency # c.dependency
    BY <1>0 DEF OneVerdictEach
  <2>6. LabelOf(c.dependency) = "none"
    BY <1>0, <2>5, LabelIsNecessity
  <2>7. LabelOf(c.dependency)' = c.necessity
    <3>1. \A d \in conclusions' : d.dependency = c.dependency => d = given
      BY <2>3, <2>5
    <3>2. given \in conclusions' /\ given.dependency = c.dependency
      BY <2>2, <2>3
    <3>3. (CHOOSE x \in conclusions' : x.dependency = c.dependency) = given
      BY <3>1, <3>2
    <3> QED
      BY <2>2, <3>2, <3>3 DEF LabelOf
  <2>8. ASSUME NEW d, d # c.dependency  PROVE LabelOf(d)' = LabelOf(d)
    <3>1. \A x : x \in conclusions' /\ x.dependency = d <=> x \in conclusions /\ x.dependency = d
      BY <2>2, <2>3, <2>8
    <3>2. (CHOOSE x : x \in conclusions' /\ x.dependency = d)
            = (CHOOSE x : x \in conclusions /\ x.dependency = d)
      BY <3>1
    <3>3. CASE \E x \in conclusions : x.dependency = d
      <4>1. PICK x \in conclusions : x.dependency = d
        BY <3>3
      <4>2. x \in conclusions'
        BY <2>3
      <4>3. (CHOOSE y \in conclusions : y.dependency = d) = x
        BY <1>0, <4>1 DEF OneVerdictEach
      <4>4. (CHOOSE y \in conclusions' : y.dependency = d) = x
        BY <3>1, <4>1, <4>2, <4>3 DEF OneVerdictEach
      <4> QED
        BY <4>1, <4>2, <4>3, <4>4 DEF LabelOf
    <3>4. CASE ~ \E x \in conclusions : x.dependency = d
      BY <3>1, <3>4 DEF LabelOf
    <3> QED
      BY <3>3, <3>4
  <2>9. labelBar' = [labelBar EXCEPT ![c.dependency] = c.necessity]
    BY <2>2, <2>7, <2>8
  <2>10. UNCHANGED membersBar
    BY <2>4 DEF MemberOf
  <2>11. labelBar[c.dependency] = "none"
    BY <2>2, <2>6
  <2> HIDE DEF labelBar, membersBar, verdictBar
  <2>12. Promise!GiveLabel(c.dependency, c.necessity)
    BY <2>4, <2>9, <2>10, <2>11
       DEF Promise!GiveLabel, Promise!Causal, labelBar, membersBar, verdictBar
  <2> QED
    BY <2>2, <2>12 DEF Promise!Next, Promise!Causal
<1>9. CASE SkipWorld
  <2>1. /\ world'.status = "not-synthesized" /\ world'.required = world.required
        /\ world'.optional = world.optional /\ world'.unresolved = world.unresolved
    BY <1>0, <1>9 DEF SkipWorld, TypeOK, World
  <2>2. /\ world.status = "none" /\ UNCHANGED <<conclusions, verdictBar>>
        /\ verdictBar \in {"stable-failing", "unstable"}
    BY <1>0, <1>9 DEF SkipWorld, WorldFrozen, Late, supports_experiments, TypeOK, BaselineVerdict,
                      found
  <2>3. UNCHANGED <<labelBar, membersBar>>
    BY <2>1, <2>2, LabelsKept DEF MemberOf
  <2>4. Promise!GiveUp
    BY <2>1, <2>2, <2>3 DEF Promise!GiveUp
  <2> QED
    BY <2>4 DEF Promise!Next
<1>10. CASE ProposeWorld
  <2>1. /\ world.status = "none" /\ world'.status = "proposed"
        /\ UNCHANGED <<conclusions, verdictBar>> /\ verdictBar = "stable-passing"
    BY <1>0, <1>10 DEF ProposeWorld, WorldFrozen, Late, supports_experiments, found
  <2>2. UNCHANGED labelBar
    BY <2>1, LabelsKept
  <2>3. membersBar' = labelBar'
    <3>1. /\ world'.required = Keys("required") /\ world'.optional = Keys("optional")
          /\ world'.unresolved = Keys("unresolved")
      BY <2>1 DEF Inv, WorldFrozen, Keys
    <3>2. \A d : MemberOf(d)' = LabelOf(d)
      BY <1>0, <3>1, KeysAreLabels DEF MemberOf
    <3> QED
      BY <2>1, <3>2, LabelsKept
  <2>4. Promise!Freeze
    BY <2>1, <2>2, <2>3 DEF Promise!Freeze
  <2> QED
    BY <2>4 DEF Promise!Next
<1>11. CASE ConcludeReplay
  <2>1. /\ world'.status \in {"verified", "replay-failed"} /\ world'.required = world.required
        /\ world'.optional = world.optional /\ world'.unresolved = world.unresolved
    BY <1>0, <1>11 DEF ConcludeReplay, TypeOK, World
  <2>2. /\ world.status = "proposed" /\ UNCHANGED <<conclusions, verdictBar>>
    BY <1>0, <1>11 DEF ConcludeReplay, WorldFrozen, found
  <2>3. UNCHANGED <<labelBar, membersBar>>
    BY <2>1, <2>2, LabelsKept DEF MemberOf
  <2>4. Promise!Replay
    BY <2>1, <2>2, <2>3 DEF Promise!Replay
  <2> QED
    BY <2>4 DEF Promise!Next
<1> QED
  BY <1>3, <1>4, <1>5, <1>6, <1>7, <1>8, <1>9, <1>10, <1>11
     DEF Next, Step, Experiment, TrialStep

\* prove() keeps the promise of Analysis: the baseline is judged once, a
\* dependency labelled at most once and only then, the world frozen from
\* exactly the labels given, and promoted or failed at most once.
THEOREM PromiseKept == Spec => KeepsPromise
<1>1. Init => Promise!Init
  BY InitPromise
<1>2. Inv /\ Inv' /\ [Next]_vars => [Promise!Next]_(Promise!vars)
  BY StepPromise
<1> QED
  BY <1>1, <1>2, Inductive, PTL DEF Spec, KeepsPromise, Promise!Spec

-----------------------------------------------------------------------------
(* The report.                                                             *)

\* What the manifest shows of a dependency.
LEMMA CausalityIsKeys ==
  ASSUME TypeOK, OneVerdictEach, NEW d
  PROVE  causality_of(d) = IF d \in Keys("required") THEN "required"
                           ELSE IF d \in Keys("optional") THEN "optional" ELSE "unresolved"
  <1>1. LabelOf(d) = IF d \in Keys("required") THEN "required"
                     ELSE IF d \in Keys("optional") THEN "optional"
                     ELSE IF d \in Keys("unresolved") THEN "unresolved" ELSE "none"
    BY KeysAreLabels
  <1>2. ConclusionFor(d) = {} => \A n : d \notin Keys(n)
    BY DEF ConclusionFor, Keys
  <1>3. ConclusionFor(d) # {} => LabelOf(d) \in {"required", "optional", "unresolved"}
    <2>1. SUFFICES ASSUME ConclusionFor(d) # {}
                   PROVE  LabelOf(d) \in {"required", "optional", "unresolved"}
      OBVIOUS
    <2>2. PICK c \in conclusions : c.dependency = d
      BY <2>1 DEF ConclusionFor
    <2>3. c.necessity \in {"required", "optional", "unresolved"}
      BY DEF TypeOK, Classified, Necessity
    <2> QED
      BY <2>2, <2>3, LabelIsNecessity
  <1> QED
    BY <1>1, <1>2, <1>3 DEF causality_of

\* What the entries of the manifest show, and what is claimed.
LEMMA ShownIsKeys ==
  ASSUME TypeOK, OneVerdictEach, \A c \in conclusions : c.dependency \in Candidates
  PROVE  /\ Shown("required") = Keys("required")
         /\ Shown("optional") = Keys("optional")
         /\ Shown("unresolved") = Candidates \ (Keys("required") \cup Keys("optional"))
<1>1. \A n : Shown(n) = {d \in Candidates : causality_of(d) = n}
  <2> TAKE n
  <2>1. ASSUME NEW d \in Shown(n)  PROVE d \in Candidates /\ causality_of(d) = n
    <3>1. PICK e \in Entries : e[2] = n /\ e[1] = d
      BY <2>1 DEF Shown
    <3>2. CASE \E s \in external_systems : e = <<s.id, s.causality>>
      BY <3>1, <3>2 DEF external_systems, Candidates
    <3>3. CASE \E t \in tools : e = <<t.id, t.causality>>
      BY <3>1, <3>3 DEF tools, Candidates
    <3> QED
      BY <3>2, <3>3 DEF Entries
  <2>2. ASSUME NEW d \in Candidates, causality_of(d) = n  PROVE d \in Shown(n)
    <3>1. CASE d \in DOMAIN networkCandidates
      <4> DEFINE s == [id |-> d, causality |-> causality_of(d),
                       evidence |-> {c.evidence : c \in ConclusionFor(d)}]
      <4>1. s \in external_systems
        BY <3>1 DEF external_systems
      <4>2. <<s.id, s.causality>> \in Entries
        BY <4>1 DEF Entries
      <4>3. <<d, n>> \in Entries
        BY <2>2, <4>2
      <4> QED
        BY <4>3 DEF Shown
    <3>2. CASE d \in DOMAIN executableCandidates
      <4> DEFINE t == [id |-> d, causality |-> causality_of(d), found |-> executableCandidates[d]]
      <4>1. t \in tools
        BY <3>2 DEF tools
      <4>2. <<t.id, t.causality>> \in Entries
        BY <4>1 DEF Entries
      <4>3. <<d, n>> \in Entries
        BY <2>2, <4>2
      <4> QED
        BY <4>3 DEF Shown
    <3> QED
      BY <2>2, <3>1, <3>2 DEF Candidates
  <2> QED
    BY <2>1, <2>2
<1>2. \A d : causality_of(d) = IF d \in Keys("required") THEN "required"
                               ELSE IF d \in Keys("optional") THEN "optional" ELSE "unresolved"
  BY CausalityIsKeys
<1>3. \A n : Keys(n) \subseteq Candidates
  BY DEF Keys
<1>4. \A d : ~(d \in Keys("required") /\ d \in Keys("optional"))
  BY DEF Keys, OneVerdictEach
<1> QED
  BY <1>1, <1>2, <1>3, <1>4

\* What is claimed, and where each claim comes from.
LEMMA ClaimedIsKeys ==
  /\ Claimed("requires") = Keys("required") /\ Claimed("optionally-uses") = Keys("optional")
  /\ {c.object : c \in claims} = Keys("required") \cup Keys("optional")
  /\ \A x \in claims : \E c \in conclusions :
       c.necessity \in {"required", "optional"} /\ x = ClaimOf(c)
<1>1. \A c \in conclusions : c.necessity \in {"required", "optional"} => ClaimOf(c) \in claims
  BY DEF claims, With
<1>2. \A x \in claims : \E c \in conclusions :
        c.necessity \in {"required", "optional"} /\ x = ClaimOf(c)
  BY DEF claims, With
<1>3. \A c : ClaimOf(c).object = c.dependency
  BY DEF ClaimOf
<1>4. \A c : ClaimOf(c).predicate = IF c.necessity = "required" THEN "requires" ELSE "optionally-uses"
  BY DEF ClaimOf
<1>5. Claimed("requires") = Keys("required")
  BY <1>1, <1>2, <1>3, <1>4 DEF Claimed, Keys
<1>6. Claimed("optionally-uses") = Keys("optional")
  BY <1>1, <1>2, <1>3, <1>4 DEF Claimed, Keys
<1>7. {c.object : c \in claims} = Keys("required") \cup Keys("optional")
  BY <1>1, <1>2, <1>3 DEF Keys
<1> QED
  BY <1>2, <1>5, <1>6, <1>7

\* What the invariant says of a finished analysis.
LEMMA WhenFinished ==
  ASSUME Inv, Finished
  PROVE  /\ TypeOK /\ OneVerdictEach /\ Provenance
         /\ \A c \in conclusions : c.dependency \in Candidates
         /\ HasLock <=> supports_experiments(baseline)
         /\ HasLock => world.required = Keys("required")
         /\ supports_experiments(baseline) => AllPassed(Purposes("baseline"))
         /\ ~HasLock => \A c \in conclusions : c.necessity = "unresolved"
<1>1. phase = "done"
  BY DEF Inv, ReplayKept, Finished
<1>2. TypeOK /\ OneVerdictEach /\ Provenance
  BY DEF Inv, LabelledOnce, Journaled
<1>3. \A c \in conclusions : c.dependency \in Candidates
  BY DEF Inv, LabelledOnce
<1>4. world.status \in {"none", "not-synthesized", "proposed", "verified", "replay-failed"}
  BY <1>2 DEF TypeOK, World
<1>5. HasLock <=> supports_experiments(baseline)
  BY <1>1, <1>4 DEF Inv, WorldFrozen, HasLock
<1>6. HasLock => world.required = Keys("required")
  BY DEF Inv, WorldFrozen, HasLock
<1>7. supports_experiments(baseline) => AllPassed(Purposes("baseline"))
  BY <1>1 DEF Inv, LabelsEarned, Early
<1>8. \A c \in conclusions : c.necessity # "unresolved" => supports_experiments(baseline)
  BY DEF Inv, LabelsEarned
<1> QED
  BY <1>2, <1>3, <1>5, <1>6, <1>7, <1>8

\* The manifest, the claims, the lock, the summary and the exit code of every
\* finished analysis tell the same story.
THEOREM BundleHolds == Spec => []BundleAgrees
<1>1. ASSUME Inv, Finished
      PROVE  /\ Shown("required") = Claimed("requires") /\ Claimed("requires") = world_dependencies
             /\ Shown("optional") = Claimed("optionally-uses")
             /\ HasLock => lock.tools \cup lock.cells = world_dependencies
             /\ ~HasLock => claims = {}
             /\ \A c \in claims : \A e \in c.supports :
                  journal[e].event = "dependency-classified" /\ journal[e].conclusion.dependency = c.object
  <2>1. world_dependencies = Keys("required")
    BY DEF world_dependencies, With, Keys
  <2>2. HasLock => lock.tools \cup lock.cells = world_dependencies
    <3>1. Keys("required") \subseteq Exe \cup Net
      BY <1>1, WhenFinished DEF TypeOK, Classified, Keys, Dep
    <3> QED
      BY <1>1, <2>1, <3>1, WhenFinished DEF lock, LockHolds
  <2>3. ~HasLock => claims = {}
    BY <1>1, WhenFinished, ClaimedIsKeys
  <2>4. \A c \in claims : \A e \in c.supports :
          journal[e].event = "dependency-classified" /\ journal[e].conclusion.dependency = c.object
    <3> SUFFICES ASSUME NEW x \in claims, NEW e \in x.supports
                 PROVE  journal[e].event = "dependency-classified"
                        /\ journal[e].conclusion.dependency = x.object
      OBVIOUS
    <3>1. PICK c \in conclusions : x = ClaimOf(c)
      BY ClaimedIsKeys
    <3>2. e = c.evidence /\ x.object = c.dependency
      BY <3>1 DEF ClaimOf
    <3> QED
      BY <1>1, <3>1, <3>2, WhenFinished DEF Provenance
  <2> QED
    BY <1>1, <2>1, <2>2, <2>3, <2>4, WhenFinished, ShownIsKeys, ClaimedIsKeys
<1>2. ASSUME Inv, Finished
      PROVE  LET settled == {c.object : c \in claims} IN
             /\ Candidates \ settled = Shown("unresolved")
             /\ {u.id : u \in unresolved_items} \cap settled = {}
             /\ {u.id : u \in unresolved_items} \subseteq Candidates
             /\ {f[2] : f \in {g \in Findings : g[1] = "tool-unresolved"}}
                  = DOMAIN executableCandidates \ settled
             /\ manifest_status = "complete" => \A c \in conclusions : c.necessity # "unresolved"
  <2> DEFINE settled == {c.object : c \in claims}
  <2>1. settled = Keys("required") \cup Keys("optional")
    BY ClaimedIsKeys
  <2>2. Candidates \ settled = Shown("unresolved")
    BY <1>2, <2>1, WhenFinished, ShownIsKeys
  <2>3. {u.id : u \in unresolved_items} = Keys("unresolved")
    <3>1. \A c : [id |-> c.dependency, evidence |-> c.evidence].id = c.dependency
      OBVIOUS
    <3>2. \A d : d \in {u.id : u \in unresolved_items} <=> d \in Keys("unresolved")
      BY <3>1 DEF unresolved_items, With, Keys
    <3> QED
      BY <3>2
  <2>4. Keys("unresolved") \cap settled = {}
    BY <1>2, <2>1, WhenFinished DEF Keys, OneVerdictEach
  <2>5. Keys("unresolved") \subseteq Candidates
    BY <1>2, WhenFinished DEF Keys
  <2>6. {f[2] : f \in {g \in Findings : g[1] = "tool-unresolved"}}
          = DOMAIN executableCandidates \ settled
    <3> DEFINE open == {t \in tools : t.causality = "unresolved"}
               flagged == {g \in Findings : g[1] = "tool-unresolved"}
    <3>1. \A g : g \in flagged <=> \E t \in open : g = <<"tool-unresolved", t.id>>
      BY DEF Findings
    <3>2. \A d : d \in {f[2] : f \in flagged} <=> \E t \in open : d = t.id
      <4>1. \A t : <<"tool-unresolved", t.id>>[2] = t.id
        OBVIOUS
      <4>2. \A d : d \in {f[2] : f \in flagged} <=> \E g \in flagged : d = g[2]
        OBVIOUS
      <4> HIDE DEF flagged, open
      <4>3. ASSUME NEW d, NEW g \in flagged, d = g[2]  PROVE \E t \in open : d = t.id
        BY <3>1, <4>1, <4>3
      <4>4. ASSUME NEW t \in open  PROVE \E g \in flagged : t.id = g[2]
        <5>1. <<"tool-unresolved", t.id>> \in flagged
          BY <3>1
        <5> QED
          BY <4>1, <5>1
      <4> QED
        BY <4>2, <4>3, <4>4
    <3>3. \A d : (\E t \in open : d = t.id)
                   <=> d \in DOMAIN executableCandidates /\ causality_of(d) = "unresolved"
      <4>1. ASSUME NEW t \in open
            PROVE  t.id \in DOMAIN executableCandidates /\ causality_of(t.id) = "unresolved"
        BY DEF tools
      <4>2. ASSUME NEW d \in DOMAIN executableCandidates, causality_of(d) = "unresolved"
            PROVE  \E t \in open : d = t.id
        <5> DEFINE t == [id |-> d, causality |-> causality_of(d), found |-> executableCandidates[d]]
        <5>1. t \in tools
          BY DEF tools
        <5>2. t \in open /\ t.id = d
          BY <4>2, <5>1
        <5> QED
          BY <5>2
      <4> HIDE DEF open
      <4> QED
        BY <4>1, <4>2
    <3>4. \A d \in DOMAIN executableCandidates : causality_of(d) = "unresolved" <=> d \notin settled
      BY <1>2, <2>1, WhenFinished, CausalityIsKeys DEF Candidates
    <3> QED
      BY <3>2, <3>3, <3>4
  <2>7. manifest_status = "complete" => \A c \in conclusions : c.necessity # "unresolved"
    BY DEF manifest_status, unresolved_items, With
  <2> QED
    BY <2>2, <2>3, <2>4, <2>5, <2>6, <2>7
<1>3. ASSUME Inv, Finished
      PROVE  /\ exit_code = 0 <=> HasLock /\ lock.status # "replay-failed"
             /\ exit_code = 0 => AllPassed(Purposes("baseline")) /\ <<"workload-failed", 0>> \notin Findings
             /\ workload_status = "passed" <=> HasLock
  <2>1. exit_code = 0 <=> supports_experiments(baseline) /\ world.status # "replay-failed"
    BY DEF exit_code
  <2>2. lock.status = world.status
    BY DEF lock
  <2>3. workload_status = "passed" <=> supports_experiments(baseline)
    BY DEF workload_status
  <2>4. workload_status = "passed" => <<"workload-failed", 0>> \notin Findings
    BY DEF Findings
  <2> QED
    BY <1>3, <2>1, <2>2, <2>3, <2>4, WhenFinished
<1>4. Inv => BundleAgrees
  BY <1>1, <1>2, <1>3 DEF BundleAgrees, ProjectionsAgree, NothingSettledUnclaimed, ExitAgrees
<1> QED
  BY <1>4, Inductive, PTL

-----------------------------------------------------------------------------
(* A truthful laboratory.                                                  *)

\* The laboratory of ProveTruth: it enforces every treatment and reports every
\* run of a workload with known needs as it went.
TruthfulLaboratory ==
  /\ Natures \subseteq Workload
  /\ \A n \in Natures, t \in Treatment : Answers(n, t) \subseteq TruthfulAnswers(n, t)

\* What is seen of services and executables is what is there.
TrueServices(net) ==
  \A k \in DOMAIN net : net[k].external /\ (net[k].allFailed <=> k \notin Undisturbed)

TrueExecutables(exe) == \A k \in DOMAIN exe : exe[k] <=> k \in Undisturbed

\* Everything the undisturbed workload tries is seen.
AllSeen(net, exe) ==
  Tried(nature, Undisturbed) \subseteq DOMAIN net \cup DOMAIN exe

\* The trials and what was observed in them are true of the workload.
TrialsAreTrue ==
  /\ \A t \in Records(trials) :
       /\ t.enforcement = "enforced"
       /\ t.outcome.passed <=> Passes(nature, Available(nature, t.treatment))
       /\ t.label.purpose = "baseline" => t.treatment = NoTreatment
  /\ phase \in Early =>
       /\ TrueServices(seen.network) /\ TrueExecutables(seen.executables)
       /\ Records(results) # {} => AllSeen(seen.network, seen.executables)
  /\ phase = "screen" => \A k \in DOMAIN seen.network : seen.network[k].allFailed
  /\ phase \notin Early =>
       /\ TrueServices(networkCandidates) /\ TrueExecutables(executableCandidates)
       /\ supports_experiments(baseline) => AllSeen(networkCandidates, executableCandidates)

\* A dependency is blamed alone: the workload fails without it, or it is the
\* only service that was seen to be reached.
BlamedAlone ==
  \A c \in conclusions \cup pending : c.necessity = "required" =>
    ~PassesWithout(c.dependency) \/ Screened \subseteq {c.dependency}

\* No candidate of a stable workload is lost on the way to its label.
NoneLost ==
  phase \notin Early /\ supports_experiments(baseline) =>
    \A d \in Candidates : d \in ToLabel \/ \E c \in conclusions \cup pending : c.dependency = d

\* With an able laboratory and a budget that was not hit, what stays unresolved
\* is an executable that the laboratory could not hide in every run.
LeftOpen(d) ==
  d \in Exe /\ ~ \E t \in Purposes("hide") : t.label.key = d /\ t.label.run = RunsPer

Decided ==
  supports_experiments(baseline) /\ AbleLaboratory /\ BudgetSufficed =>
    \A c \in conclusions \cup pending : c.necessity = "unresolved" => LeftOpen(c.dependency)

-----------------------------------------------------------------------------
(* Facts about workloads.                                                  *)

\* More to choose from never makes a workload fail.
LEMMA PassesMonotone ==
  ASSUME NEW n, NEW less, NEW more, less \subseteq more, Passes(n, less)
  PROVE  Passes(n, more)
BY DEF Passes

\* What each treatment leaves.
LEMMA WhatIsLeft ==
  /\ Available(nature, NoTreatment) = Undisturbed
  /\ Available(nature, DenyAllEgress) = Undisturbed \ Net
  /\ \A d : Available(nature, BlockDependency(d)) = Undisturbed \ {d}
  /\ \A d : Available(nature, HideExecutable(d)) = Undisturbed \ {d}
<1>1. Removed(NoTreatment) = {} /\ Removed(DenyAllEgress) = Net
  BY DEF Removed, NoTreatment, DenyAllEgress
<1>2. \A d : Removed(BlockDependency(d)) = {d} /\ Removed(HideExecutable(d)) = {d}
  BY DEF Removed, BlockDependency, HideExecutable
<1> QED
  BY <1>1, <1>2 DEF Available, Undisturbed

\* A workload tries its dependencies only.
LEMMA TriedType ==
  ASSUME NEW n \in Workload, NEW available
  PROVE  Tried(n, available) \subseteq Dep
<1>1. n.probes \subseteq Dep /\ n.needs \subseteq Seq(Dep)
  BY DEF Workload
<1>2. \A need \in n.needs : \A i \in DOMAIN need : need[i] \in Dep
  BY <1>1
<1> QED
  BY <1>1, <1>2 DEF Tried

\* What a truthful laboratory answers.
LEMMA TruthfulAnswer ==
  ASSUME NEW n, NEW t, NEW answer \in TruthfulAnswers(n, t)
  PROVE  LET available == Available(n, t)
             network   == answer.observations.network
             found_    == answer.observations.executables
         IN  /\ answer.enforcement = "enforced"
             /\ answer.outcome.passed <=> Passes(n, available)
             /\ DOMAIN network = Tried(n, available) \cap Net
             /\ DOMAIN found_ = Tried(n, available) \cap Exe
             /\ \A d \in DOMAIN network :
                  network[d].external /\ (network[d].allFailed <=> d \notin available)
             /\ \A e \in DOMAIN found_ : found_[e] <=> e \in available
<1> DEFINE available == Available(n, t)
           tried == Tried(n, available)
           network == [d \in tried \cap Net |-> [external  |-> TRUE,
                                                 allFailed |-> d \notin available,
                                                 enforced  |-> d \in n.refused]]
           executables == [e \in tried \cap Exe |-> e \in available]
<1>1. PICK o : /\ answer = [enforcement |-> "enforced", outcome |-> o,
                            observations |-> [network |-> network, executables |-> executables,
                                              observed |-> TRUE]]
               /\ o \in IF Passes(n, available) THEN {[passed |-> TRUE, signature |-> NoSignature]}
                        ELSE {s \in TrialOutcome : ~s.passed /\ s.signature # NoSignature}
  BY DEF TruthfulAnswers
<1>2. o.passed <=> Passes(n, available)
  BY <1>1
<1>3. /\ DOMAIN network = tried \cap Net /\ DOMAIN executables = tried \cap Exe
      /\ \A d \in DOMAIN network : network[d].external /\ (network[d].allFailed <=> d \notin available)
      /\ \A e \in DOMAIN executables : executables[e] <=> e \in available
  OBVIOUS
<1>4. /\ answer.enforcement = "enforced" /\ answer.outcome = o
      /\ answer.observations.network = network /\ answer.observations.executables = executables
  BY <1>1
<1> HIDE DEF network, executables
<1> QED
  BY <1>2, <1>3, <1>4

-----------------------------------------------------------------------------
(* Trials and observations.                                                *)

\* Two true accounts of the services make a true one.
LEMMA MergeServices ==
  ASSUME NEW f \in PartialFunctions(Net, Sighting), NEW g \in PartialFunctions(Net, Sighting)
  PROVE  /\ DOMAIN merge_candidates(f, g) = DOMAIN f \cup DOMAIN g
         /\ TrueServices(f) /\ TrueServices(g) => TrueServices(merge_candidates(f, g))
         /\ (\A k \in DOMAIN f : f[k].allFailed) /\ (\A k \in DOMAIN g : g[k].allFailed)
              => \A k \in DOMAIN merge_candidates(f, g) : merge_candidates(f, g)[k].allFailed
<1> DEFINE m == merge_candidates(f, g)
<1>1. /\ \A k \in DOMAIN f : f[k] \in Sighting
      /\ \A k \in DOMAIN g : g[k] \in Sighting
  BY PartialFunctionIff
<1>2. DOMAIN m = DOMAIN f \cup DOMAIN g
  BY DEF merge_candidates, MergeMaps
<1>3. ASSUME NEW k \in DOMAIN m
      PROVE  \/ k \notin DOMAIN g /\ k \in DOMAIN f /\ m[k] = f[k]
             \/ k \notin DOMAIN f /\ k \in DOMAIN g /\ m[k] = g[k]
             \/ k \in DOMAIN f /\ k \in DOMAIN g /\ m[k] = MergeSighting(f[k], g[k])
  BY DEF merge_candidates, MergeMaps
<1>4. \A a, b \in Sighting :
        /\ MergeSighting(a, b).external <=> a.external \/ b.external
        /\ MergeSighting(a, b).allFailed <=> a.allFailed /\ b.allFailed
  BY DEF MergeSighting, Sighting
<1> HIDE DEF m
<1>5. TrueServices(f) /\ TrueServices(g) => TrueServices(m)
  BY <1>1, <1>2, <1>3, <1>4 DEF TrueServices
<1>6. (\A k \in DOMAIN f : f[k].allFailed) /\ (\A k \in DOMAIN g : g[k].allFailed)
        => \A k \in DOMAIN m : m[k].allFailed
  BY <1>1, <1>2, <1>3, <1>4
<1> QED
  BY <1>2, <1>5, <1>6 DEF m

\* Two true accounts of the executables make a true one.
LEMMA MergeFound ==
  ASSUME NEW f \in PartialFunctions(Exe, BOOLEAN), NEW g \in PartialFunctions(Exe, BOOLEAN)
  PROVE  /\ DOMAIN merge_executables(f, g) = DOMAIN f \cup DOMAIN g
         /\ TrueExecutables(f) /\ TrueExecutables(g) => TrueExecutables(merge_executables(f, g))
<1> DEFINE m == merge_executables(f, g)
<1>1. /\ \A k \in DOMAIN f : f[k] \in BOOLEAN
      /\ \A k \in DOMAIN g : g[k] \in BOOLEAN
  BY PartialFunctionIff
<1>2. DOMAIN m = DOMAIN f \cup DOMAIN g
  BY DEF merge_executables, MergeMaps
<1>3. ASSUME NEW k \in DOMAIN m
      PROVE  \/ k \notin DOMAIN g /\ k \in DOMAIN f /\ m[k] = f[k]
             \/ k \notin DOMAIN f /\ k \in DOMAIN g /\ m[k] = g[k]
             \/ k \in DOMAIN f /\ k \in DOMAIN g /\ m[k] = (f[k] \/ g[k])
  BY DEF merge_executables, MergeMaps, EitherFound
<1> HIDE DEF m
<1>4. TrueExecutables(f) /\ TrueExecutables(g) => TrueExecutables(m)
  BY <1>1, <1>2, <1>3 DEF TrueExecutables
<1> QED
  BY <1>2, <1>4 DEF m

\* A step that runs a trial asks the laboratory about one treatment.
LEMMA TrialRuns ==
  ASSUME TypeOK, TrialStep
  PROVE  \E purpose, key, answer : \E treatment \in Treatment :
           RunTrial(purpose, key, treatment, answer)
<1>1. CASE BaselineTrial \/ ScreenTrial \/ ReplayTrial
  BY <1>1, TreatmentType DEF BaselineTrial, ScreenTrial, ReplayTrial
<1>2. CASE BlockTrial
  <2>1. PICK n \in agenda : TestTarget(n, "block", BlockDependency(n))
    BY <1>2 DEF BlockTrial
  <2>2. BlockDependency(n) \in Treatment
    BY <1>2, TreatmentType DEF BlockTrial, At, TypeOK
  <2> QED
    BY <2>1, <2>2 DEF TestTarget
<1>3. CASE HideTrial
  <2>1. PICK e \in agenda : TestTarget(e, "hide", HideExecutable(e))
    BY <1>3 DEF HideTrial
  <2>2. HideExecutable(e) \in Treatment
    BY <1>3, TreatmentType DEF HideTrial, At, TypeOK
  <2> QED
    BY <2>1, <2>2 DEF TestTarget
<1> QED
  BY <1>1, <1>2, <1>3 DEF TrialStep

TrueRecord(t) ==
  /\ t.enforcement = "enforced"
  /\ t.outcome.passed <=> Passes(nature, Available(nature, t.treatment))

\* The trial of a step is reported as it went.
LEMMA TrueTrial ==
  ASSUME TypeOK, TruthfulLaboratory, TrialStep, NEW record, Taken(record)
  PROVE  /\ TrueRecord(record)
         /\ \E answer \in TrialResult :
              /\ answer \in TruthfulAnswers(nature, record.treatment)
              /\ seen' = MergeObservations(seen, answer.observations)
<1>1. PICK purpose, key, answer : \E treatment \in Treatment :
        RunTrial(purpose, key, treatment, answer)
  BY TrialRuns
<1>2. PICK treatment \in Treatment : RunTrial(purpose, key, treatment, answer)
  BY <1>1
<1>3. nature \in Natures /\ answer \in Answers(nature, treatment)
  BY <1>2 DEF RunTrial, TypeOK
<1>4. answer \in TrialResult /\ answer \in TruthfulAnswers(nature, treatment)
  BY <1>3, AnswersAssumption DEF TruthfulLaboratory
<1> DEFINE taken == [label |-> [purpose |-> purpose, key |-> key, run |-> Len(results) + 1],
                     treatment |-> treatment, enforcement |-> answer.enforcement,
                     outcome |-> answer.outcome]
<1>5. trials' = Append(trials, taken) /\ seen' = MergeObservations(seen, answer.observations)
  BY <1>2 DEF RunTrial
<1>6. trials' = Append(trials, record) /\ trials \in Seq(TrialRecord)
  BY DEF Taken, TypeOK
<1>7. /\ taken.treatment = treatment /\ taken.enforcement = answer.enforcement
      /\ taken.outcome = answer.outcome
  OBVIOUS
<1> HIDE DEF taken
<1>8. /\ Append(trials, taken)[Len(trials) + 1] = taken
      /\ Append(trials, record)[Len(trials) + 1] = record
  BY <1>6
<1>9. record = taken
  BY <1>5, <1>6, <1>8
<1> QED
  BY <1>4, <1>5, <1>7, <1>9, TruthfulAnswer DEF TrueRecord

-----------------------------------------------------------------------------
(* Trials stay true.                                                       *)

\* No step changes what is analysed.
LEMMA InputsKept == [Next]_vars => UNCHANGED inputs
<1> SUFFICES ASSUME [Next]_vars PROVE UNCHANGED inputs
  OBVIOUS
<1>1. CASE SelectWorkload \/ PrepareEnvironment \/ TakeSnapshot \/ AssessBaseline
  BY <1>1 DEF SelectWorkload, PrepareEnvironment, TakeSnapshot, AssessBaseline, inputs
<1>2. CASE BaselineTrial \/ ScreenTrial \/ ReplayTrial
  BY <1>2 DEF BaselineTrial, ScreenTrial, ReplayTrial, inputs
<1>3. CASE BlockTrial \/ HideTrial
  BY <1>3 DEF BlockTrial, HideTrial, TestTarget, inputs
<1>4. CASE \/ ScreenSkip \/ ScreenUnenforceable \/ ScreenConclude \/ BlockDrop \/ BlockConclude
           \/ BlockReport \/ HideSkip \/ HideUnenforceable \/ HideBegin \/ HideDrop
           \/ HideUnsupported \/ HideConclude \/ HideReport
  BY <1>4 DEF ScreenSkip, ScreenUnenforceable, ScreenConclude, BlockDrop, BlockConclude,
              BlockReport, HideSkip, HideUnenforceable, HideBegin, HideDrop, HideUnsupported,
              HideConclude, HideReport, DropTarget, ConcludeTarget, ReportDropped, inputs
<1>5. CASE JournalConclusion \/ SkipWorld \/ ProposeWorld \/ ConcludeReplay \/ Finalize \/ Abort
  BY <1>5 DEF JournalConclusion, SkipWorld, ProposeWorld, ConcludeReplay, Finalize, Abort, inputs
<1>6. CASE UNCHANGED vars
  BY <1>6 DEF vars, inputs
<1> QED
  BY <1>1, <1>2, <1>3, <1>4, <1>5, <1>6 DEF Next, Step, Experiment

\* What is true of a workload stays so.
LEMMA NatureKept ==
  ASSUME UNCHANGED inputs
  PROVE  /\ UNCHANGED <<nature, policy, caps, Undisturbed, AbleLaboratory, RunsPer>>
         /\ \A f : TrueServices(f)' <=> TrueServices(f)
         /\ \A f : TrueExecutables(f)' <=> TrueExecutables(f)
         /\ \A f, g : AllSeen(f, g)' <=> AllSeen(f, g)
         /\ \A t : TrueRecord(t)' <=> TrueRecord(t)
         /\ \A d : PassesWithout(d)' <=> PassesWithout(d)
BY DEF inputs, Undisturbed, AbleLaboratory, RunsPer, TrueServices, TrueExecutables, AllSeen,
       TrueRecord, PassesWithout

\* What is seen in a truthful run, by its treatment.
LEMMA TrueSight ==
  ASSUME TypeOK, TruthfulLaboratory, NEW answer \in TrialResult, NEW t \in Treatment,
         answer \in TruthfulAnswers(nature, t)
  PROVE  LET net == answer.observations.network
             exe == answer.observations.executables
         IN  /\ t = NoTreatment => TrueServices(net) /\ TrueExecutables(exe) /\ AllSeen(net, exe)
             /\ t = DenyAllEgress => \A k \in DOMAIN net : net[k].allFailed
<1> DEFINE net == answer.observations.network
           exe == answer.observations.executables
           available == Available(nature, t)
<1>1. /\ DOMAIN net = Tried(nature, available) \cap Net
      /\ DOMAIN exe = Tried(nature, available) \cap Exe
      /\ \A k \in DOMAIN net : net[k].external /\ (net[k].allFailed <=> k \notin available)
      /\ \A k \in DOMAIN exe : exe[k] <=> k \in available
  BY TruthfulAnswer
<1> HIDE DEF net, exe
<1>2. Tried(nature, available) \subseteq Net \cup Exe
  BY TriedType DEF TruthfulLaboratory, TypeOK, Dep
<1>3. /\ t = NoTreatment => available = Undisturbed
      /\ t = DenyAllEgress => available = Undisturbed \ Net
  BY WhatIsLeft
<1> HIDE DEF available
<1>4. t = NoTreatment => TrueServices(net) /\ TrueExecutables(exe) /\ AllSeen(net, exe)
  BY <1>1, <1>2, <1>3 DEF TrueServices, TrueExecutables, AllSeen
<1>5. t = DenyAllEgress => \A k \in DOMAIN net : net[k].allFailed
  BY <1>1, <1>3
<1> QED
  BY <1>4, <1>5 DEF net, exe

\* Before the first run nothing was seen that could be wrong.
LEMMA InitTrialsAreTrue == Init => TrialsAreTrue
<1>1. DOMAIN NothingSeen.network = {} /\ DOMAIN NothingSeen.executables = {}
  BY DEF NothingSeen, EmptyMap
<1> QED
  BY <1>1, NoRecords DEF Init, TrialsAreTrue, TrueServices, TrueExecutables, Early

\* Every step keeps what was observed true.
LEMMA StepTrialsAreTrue ==
  ASSUME TruthfulLaboratory
  PROVE  TypeOK /\ TrialsInOrder /\ TrialsAreTrue /\ [Next]_vars => TrialsAreTrue'
<1> SUFFICES ASSUME TypeOK, TrialsInOrder, TrialsAreTrue, [Next]_vars PROVE TrialsAreTrue'
  OBVIOUS
<1> USE DEF At, loop, ResetLoop
<1>0. /\ UNCHANGED <<nature, Undisturbed>>
      /\ \A f : TrueServices(f)' <=> TrueServices(f)
      /\ \A f : TrueExecutables(f)' <=> TrueExecutables(f)
      /\ \A f, g : AllSeen(f, g)' <=> AllSeen(f, g)
      /\ \A t : TrueRecord(t)' <=> TrueRecord(t)
  BY InputsKept, NatureKept
<1>1. \A t \in Records(trials) : /\ TrueRecord(t)
                                 /\ t.label.purpose = "baseline" => t.treatment = NoTreatment
  BY DEF TrialsAreTrue, TrueRecord
<1>2. CASE TrialStep
  <2>1. PICK record : Taken(record) /\ OfLoop(record)'
    BY <1>2, TrialSteps
  <2>2. /\ phase' = IF phase = "replay" THEN "replayed" ELSE phase
        /\ phase \in {"baseline", "screen", "isolate", "hide-trials", "replay"}
        /\ UNCHANGED found
    BY <1>2, TrialSteps
  <2>3. TrueRecord(record)
    BY <1>2, <2>1, TrueTrial
  <2>4. PICK answer \in TrialResult :
          /\ answer \in TruthfulAnswers(nature, record.treatment)
          /\ seen' = MergeObservations(seen, answer.observations)
    BY <1>2, <2>1, TrueTrial
  <2>5. \A t \in Records(trials)' : /\ TrueRecord(t)'
                                    /\ t.label.purpose = "baseline" => t.treatment = NoTreatment
    BY <1>0, <1>1, <2>1, <2>3 DEF Taken, OfLoop
  <2> DEFINE net == answer.observations.network
             exe == answer.observations.executables
  <2>6. /\ net \in PartialFunctions(Net, Sighting) /\ exe \in PartialFunctions(Exe, BOOLEAN)
        /\ seen.network \in PartialFunctions(Net, Sighting)
        /\ seen.executables \in PartialFunctions(Exe, BOOLEAN)
    <3>1. answer.observations \in Observations /\ seen \in Observations
      BY DEF TrialResult, TypeOK
    <3> QED
      BY <3>1 DEF Observations
  <2>7. /\ seen'.network = merge_candidates(seen.network, net)
        /\ seen'.executables = merge_executables(seen.executables, exe)
    BY <2>4 DEF MergeObservations
  <2>8. record.treatment \in Treatment
    BY <2>1 DEF Taken, TrialRecord
  <2>9. /\ record.treatment = NoTreatment =>
             TrueServices(net) /\ TrueExecutables(exe) /\ AllSeen(net, exe)
        /\ record.treatment = DenyAllEgress => \A k \in DOMAIN net : net[k].allFailed
    BY <2>4, <2>8, TrueSight
  <2> HIDE DEF net, exe
  <2>10. /\ DOMAIN seen'.network = DOMAIN seen.network \cup DOMAIN net
         /\ TrueServices(seen.network) /\ TrueServices(net) => TrueServices(seen'.network)
         /\ (\A k \in DOMAIN seen.network : seen.network[k].allFailed)
              /\ (\A k \in DOMAIN net : net[k].allFailed)
              => \A k \in DOMAIN seen'.network : seen'.network[k].allFailed
    BY <2>6, <2>7, MergeServices
  <2>11. /\ DOMAIN seen'.executables = DOMAIN seen.executables \cup DOMAIN exe
         /\ TrueExecutables(seen.executables) /\ TrueExecutables(exe) =>
              TrueExecutables(seen'.executables)
    BY <2>6, <2>7, MergeFound
  <2>12. CASE phase = "baseline"
    <3>1. record.treatment = NoTreatment
      BY <2>1, <2>2, <2>12 DEF OfLoop
    <3>2. TrueServices(seen'.network) /\ TrueExecutables(seen'.executables)
      BY <2>9, <2>10, <2>11, <2>12, <3>1 DEF TrialsAreTrue, Early
    <3>3. AllSeen(seen'.network, seen'.executables)
      BY <2>9, <2>10, <2>11, <3>1 DEF AllSeen
    <3> QED
      BY <1>0, <2>2, <2>5, <2>12, <3>2, <3>3 DEF TrialsAreTrue, TrueRecord, Early
  <2>13. CASE phase = "screen"
    <3>1. record.treatment = DenyAllEgress
      BY <2>1, <2>2, <2>13 DEF OfLoop
    <3>2. \A k \in DOMAIN seen'.network : seen'.network[k].allFailed
      BY <2>9, <2>10, <2>13, <3>1 DEF TrialsAreTrue
    <3> QED
      BY <1>0, <2>2, <2>5, <2>13, <3>2 DEF TrialsAreTrue, TrueRecord, Early, found
  <2>14. CASE phase \in {"isolate", "hide-trials", "replay"}
    BY <1>0, <2>2, <2>5, <2>14 DEF TrialsAreTrue, TrueRecord, Early, found
  <2> QED
    BY <2>2, <2>12, <2>13, <2>14
<1>3. ASSUME UNCHANGED trials
      PROVE  \A t \in Records(trials)' : /\ TrueRecord(t)'
                                         /\ t.label.purpose = "baseline" => t.treatment = NoTreatment
  BY <1>0, <1>1, <1>3, TrialsKept
<1>4. ASSUME UNCHANGED <<trials, results, seen, found>>, phase' \in Early <=> phase \in Early,
             phase' = "screen" => phase = "screen"
      PROVE  TrialsAreTrue'
  <2>1. UNCHANGED Records(results)
    BY <1>4 DEF Records
  <2> QED
    BY <1>0, <1>3, <1>4, <2>1 DEF TrialsAreTrue, TrueRecord, found
<1>5. ASSUME UNCHANGED <<trials, found>>, phase \notin Early,
             phase' \in Phases \ (Early \cup {"screen"})
      PROVE  TrialsAreTrue'
  BY <1>0, <1>3, <1>5 DEF TrialsAreTrue, TrueRecord, found
<1>6. CASE SelectWorkload \/ PrepareEnvironment \/ TakeSnapshot
  BY <1>4, <1>6 DEF SelectWorkload, PrepareEnvironment, TakeSnapshot, Early
<1>7. CASE JournalConclusion \/ Abort \/ UNCHANGED vars
  BY <1>4, <1>7 DEF JournalConclusion, Abort, vars
<1>8. CASE AssessBaseline
  <2> DEFINE verdict == assess_baseline(Outcomes(results))
             net     == [k \in {n \in DOMAIN seen.network : seen.network[n].external}
                           |-> seen.network[k]]
  <2>1. /\ networkCandidates' = net /\ executableCandidates' = seen.executables
        /\ baseline' = verdict /\ UNCHANGED trials /\ phase = "baseline"
        /\ phase' \in {"screen", "complete"} /\ seen' = NothingSeen
    BY <1>8 DEF AssessBaseline
  <2>2. TrueServices(seen.network) /\ TrueExecutables(seen.executables)
    BY <2>1 DEF TrialsAreTrue, Early
  <2>3. TrueServices(net) /\ DOMAIN net = DOMAIN seen.network
    BY <2>2 DEF TrueServices
  <2> HIDE DEF net
  <2>4. supports_experiments(verdict) => AllSeen(net, seen.executables)
    <3>1. supports_experiments(verdict) => Records(results) # {}
      BY StableBaseline DEF TypeOK
    <3> QED
      BY <2>1, <2>3, <3>1 DEF TrialsAreTrue, AllSeen, Early
  <2>5. DOMAIN NothingSeen.network = {}
    BY DEF NothingSeen, EmptyMap
  <2> HIDE DEF verdict
  <2> QED
    BY <1>0, <1>3, <2>1, <2>2, <2>3, <2>4, <2>5 DEF TrialsAreTrue, TrueRecord, Early
<1>9. CASE \/ ScreenSkip \/ ScreenUnenforceable \/ ScreenConclude \/ BlockDrop \/ BlockConclude
           \/ BlockReport \/ HideSkip \/ HideUnenforceable \/ HideBegin \/ HideDrop
           \/ HideUnsupported \/ HideConclude \/ HideReport
  <2>1. /\ UNCHANGED <<trials, found>>
        /\ phase \in {"screen", "isolate", "hide", "hide-trials"}
        /\ phase' \in {"isolate", "hide", "hide-trials", "complete"}
    BY <1>9 DEF ScreenSkip, ScreenUnenforceable, ScreenConclude, BlockDrop, BlockConclude,
                BlockReport, HideSkip, HideUnenforceable, HideBegin, HideDrop,
                HideUnsupported, HideConclude, HideReport,
                DropTarget, ConcludeTarget, ReportDropped
  <2> QED
    BY <1>5, <2>1 DEF Early, Phases
<1>10. CASE SkipWorld \/ ProposeWorld \/ ConcludeReplay \/ Finalize
  <2>1. /\ UNCHANGED <<trials, found>> /\ phase \in {"complete", "replayed", "finalize"}
        /\ phase' \in {"replay", "finalize", "done"}
    BY <1>10 DEF SkipWorld, ProposeWorld, ConcludeReplay, Finalize
  <2> QED
    BY <1>5, <2>1 DEF Early, Phases
<1> QED
  BY <1>2, <1>6, <1>7, <1>8, <1>9, <1>10 DEF Next, Step, Experiment, TrialStep

-----------------------------------------------------------------------------
(* Nothing is blamed that others could have caused.                        *)

\* Under the deny posture every screened service is out of reach.
LEMMA ScreenSeesAll ==
  ASSUME TypeOK, TrialsAreTrue, phase = "screen"
  PROVE  /\ ScreenEvidence = {Evidence(n, TRUE) : n \in Screened}
         /\ ChangedSet(ScreenEvidence) = ScreenEvidence
         /\ Changed = Screened
<1>1. \A n \in Screened : n \in DOMAIN seen.network => seen.network[n].allFailed
  BY DEF TrialsAreTrue
<1>2. \A n \in Screened :
        Evidence(n, n \in DOMAIN seen.network => seen.network[n].allFailed) = Evidence(n, TRUE)
  BY <1>1 DEF Evidence
<1>3. ScreenEvidence = {Evidence(n, TRUE) : n \in Screened}
  BY <1>2 DEF ScreenEvidence
<1>4. \A e \in ScreenEvidence : e.external /\ e.unavailable /\ e.attempted
  BY <1>3 DEF Evidence
<1> QED
  BY <1>3, <1>4 DEF ChangedSet, Changed

\* The trials of the target under test took the target away.
LEMMA TargetTrials ==
  ASSUME TypeOK, TrialsInOrder, NEW k \in agenda, phase \in {"isolate", "hide-trials"},
         phase = "isolate" => NextBlock(k), phase = "hide-trials" => NextHide(k)
  PROVE  \A t \in Records(results) :
           t.label.key = k /\ Available(nature, t.treatment) = Undisturbed \ {k}
<1>1. \A t \in Records(results) :
        t.label.key = k /\ t.treatment \in {BlockDependency(k), HideExecutable(k)}
  BY OneNext DEF TrialsInOrder, OfLoop
<1> QED
  BY <1>1, WhatIsLeft

\* Nobody is blamed in the initial states.
LEMMA InitBlamedAlone == Init => BlamedAlone
BY DEF Init, BlamedAlone

\* A step that gives no blame keeps the blame there is.
LEMMA BlameKept ==
  ASSUME BlamedAlone, UNCHANGED <<inputs, found>>,
         \A c \in conclusions' \cup pending' : c.necessity = "required" =>
           \/ \E d \in conclusions \cup pending :
                d.necessity = "required" /\ d.dependency = c.dependency
           \/ ~PassesWithout(c.dependency) \/ Screened \subseteq {c.dependency}
  PROVE  BlamedAlone'
<1>1. Screened' = Screened /\ \A d : PassesWithout(d)' <=> PassesWithout(d)
  BY FoundKept, NatureKept
<1> QED
  BY <1>1 DEF BlamedAlone

\* Every step blames a dependency alone.
LEMMA StepBlamedAlone ==
  TypeOK /\ TrialsInOrder /\ LabelledOnce /\ TrialsAreTrue /\ BlamedAlone /\ [Next]_vars
    => BlamedAlone'
<1> SUFFICES ASSUME TypeOK, TrialsInOrder, LabelledOnce, TrialsAreTrue, BlamedAlone, [Next]_vars
             PROVE  BlamedAlone'
  OBVIOUS
<1> USE DEF At, loop, ResetLoop
<1>0. UNCHANGED inputs
  BY InputsKept
<1>1. CASE AssessBaseline
  <2>1. /\ conclusions' = conclusions /\ conclusions = {}
        /\ \/ \E verdict, labels, denied, natural :
                pending' = classify_enforced_deny(verdict, labels, denied)
                             \cup classify_natural_counterfactual(verdict, labels, natural)
           \/ \E verdict, candidates : pending' = classify_intervention(verdict, {}, candidates)
    BY <1>1 DEF AssessBaseline, LabelledOnce, Early
  <2>2. \A c \in pending' : c.necessity # "required"
    BY <2>1, FreeLabels, UntriedUnresolved
  <2> QED
    BY <2>1, <2>2 DEF BlamedAlone
<1>2. CASE TrialStep
  <2>1. UNCHANGED <<conclusions, pending, found>>
    BY <1>2, TrialSteps
  <2> QED
    BY <1>0, <2>1, BlameKept
<1>3. CASE JournalConclusion
  <2>1. PICK c \in pending :
          /\ conclusions' = conclusions \cup
               {[dependency |-> c.dependency, necessity |-> c.necessity, trials |-> c.trials,
                 evidence |-> Len(journal) + 1]}
          /\ pending' = pending \ {c}
    BY <1>3 DEF JournalConclusion
  <2>2. UNCHANGED found
    BY <1>3 DEF JournalConclusion
  <2> QED
    BY <1>0, <2>1, <2>2, BlameKept
<1>4. CASE \/ SelectWorkload \/ PrepareEnvironment \/ TakeSnapshot \/ ScreenSkip \/ BlockDrop
           \/ HideSkip \/ HideBegin \/ HideDrop \/ SkipWorld \/ ProposeWorld \/ ConcludeReplay
           \/ Finalize \/ Abort \/ UNCHANGED vars
  <2>1. UNCHANGED <<conclusions, pending, found>>
    BY <1>4 DEF SelectWorkload, PrepareEnvironment, TakeSnapshot, ScreenSkip, BlockDrop,
                HideSkip, HideBegin, HideDrop, SkipWorld, ProposeWorld, ConcludeReplay,
                Finalize, Abort, DropTarget, vars
  <2> QED
    BY <1>0, <2>1, BlameKept
<1>5. CASE ScreenUnenforceable \/ HideUnenforceable \/ HideUnsupported \/ BlockReport \/ HideReport
  <2>1. /\ UNCHANGED <<conclusions, found>>
        /\ \/ \E candidates : pending' = classify_unenforceable(candidates)
           \/ \E verdict, candidates : pending' = classify_intervention(verdict, {}, candidates)
    BY <1>5 DEF ScreenUnenforceable, HideUnenforceable, HideUnsupported, BlockReport, HideReport,
                ReportDropped
  <2>2. \A c \in pending' : c.necessity # "required"
    BY <2>1, UntriedUnresolved
  <2> QED
    BY <1>0, <2>1, <2>2, BlameKept
<1>6. CASE ScreenConclude
  <2>1. /\ UNCHANGED <<conclusions, found>> /\ phase = "screen"
        /\ \/ pending' = {}
           \/ pending' = classify_intervention(baseline, Records(results), ScreenEvidence)
    BY <1>6 DEF ScreenConclude
  <2>2. ASSUME NEW c \in pending', c.necessity = "required"
        PROVE  Screened \subseteq {c.dependency}
    <3>1. PICK e : c.dependency = e.key /\ ChangedSet(ScreenEvidence) = {e}
      BY <2>1, <2>2 DEF classify_intervention, Judgement
    <3>2. \A n \in Screened : Evidence(n, TRUE) = e
      BY <2>1, <3>1, ScreenSeesAll
    <3>3. \A n : Evidence(n, TRUE).key = n
      BY DEF Evidence
    <3> QED
      BY <3>1, <3>2, <3>3
  <2> QED
    BY <1>0, <2>1, <2>2, BlameKept
<1>7. CASE BlockConclude \/ HideConclude
  <2>1. PICK k \in agenda : /\ ConcludeTarget(k)
                            /\ phase = "isolate" => NextBlock(k)
                            /\ phase = "hide-trials" => NextHide(k)
    BY <1>7 DEF BlockConclude, HideConclude
  <2>2. /\ UNCHANGED <<found, conclusions>> /\ phase \in {"isolate", "hide-trials"}
        /\ pending' = classify_intervention(baseline, Records(results), {Evidence(k, TRUE)})
    BY <1>7, <2>1 DEF BlockConclude, HideConclude, ConcludeTarget
  <2>3. ASSUME NEW c \in pending', c.necessity = "required"
        PROVE  ~PassesWithout(c.dependency)
    <3>1. c.dependency = k
      BY <2>2 DEF classify_intervention, Evidence
    <3>2. Records(results) # {} /\ AllFailed(Records(results))
      BY <2>2, <2>3, CausalLabelEarned
    <3>3. PICK t \in Records(results) : ~t.outcome.passed
      BY <3>2 DEF AllFailed
    <3>4. t \in Records(trials) /\ Available(nature, t.treatment) = Undisturbed \ {k}
      BY <2>1, <2>2, TargetTrials DEF TrialsInOrder
    <3> QED
      BY <3>1, <3>3, <3>4 DEF TrialsAreTrue, PassesWithout
  <2> QED
    BY <1>0, <2>2, <2>3, BlameKept
<1> QED
  BY <1>1, <1>2, <1>3, <1>4, <1>5, <1>6, <1>7 DEF Next, Step, Experiment, TrialStep

-----------------------------------------------------------------------------
(* The labels are true.                                                    *)

\* A required label of a truthful laboratory is true of the workload.
LEMMA RequiredTrue ==
  ASSUME TruthfulLaboratory, Inv, TrialsAreTrue, BlamedAlone
  PROVE  RequiredIsTrue
<1> SUFFICES ASSUME NEW c \in conclusions, c.necessity = "required", PassesWithout(c.dependency)
             PROVE  /\ \A t \in Cited(c) : t.treatment = DenyAllEgress
                    /\ ~Passes(nature, Undisturbed \ Net)
                    /\ \E d \in Unseen : \E need \in nature.needs :
                         \E i \in DOMAIN need : need[i] = d
  BY DEF RequiredIsTrue
<1>1. /\ Cited(c) # {} /\ AllFailed(Cited(c))
      /\ \A t \in Cited(c) : TakesAway(t, c.dependency)
      /\ phase \notin Early /\ supports_experiments(baseline)
  BY DEF Inv, LabelsEarned, Earned, RequiredFor
<1>2. \A t \in Cited(c) : ~Passes(nature, Available(nature, t.treatment))
  BY <1>1 DEF AllFailed, Cited, TrialsAreTrue
<1>3. \A t \in Cited(c) : t.treatment = DenyAllEgress
  <2> SUFFICES ASSUME NEW t \in Cited(c),
                      t.treatment \in {BlockDependency(c.dependency), HideExecutable(c.dependency)}
               PROVE  FALSE
    BY <1>1 DEF TakesAway
  <2>1. Available(nature, t.treatment) = Undisturbed \ {c.dependency}
    BY WhatIsLeft
  <2> QED
    BY <1>2, <2>1 DEF PassesWithout
<1>4. ~Passes(nature, Undisturbed \ Net)
  BY <1>1, <1>2, <1>3, WhatIsLeft
<1>5. PICK need \in nature.needs : \A i \in DOMAIN need : need[i] \notin Undisturbed \ Net
  BY <1>4 DEF Passes
<1>6. PICK i \in DOMAIN need : need[i] \in Undisturbed \ {c.dependency}
  BY DEF PassesWithout, Passes
<1>7. need[i] \in Net \cap Undisturbed /\ need[i] # c.dependency
  BY <1>5, <1>6
<1>8. need[i] \notin Tried(nature, Undisturbed)
  <2> SUFFICES ASSUME need[i] \in Tried(nature, Undisturbed)  PROVE FALSE
    OBVIOUS
  <2>1. need[i] \in DOMAIN networkCandidates \cup DOMAIN executableCandidates
    BY <1>1 DEF TrialsAreTrue, AllSeen
  <2>2. need[i] \in DOMAIN networkCandidates
    BY <1>7, <2>1, CandidateKeys, KeyAssumption DEF Inv
  <2>3. ~networkCandidates[need[i]].allFailed
    BY <1>1, <1>7, <2>2 DEF TrialsAreTrue, TrueServices
  <2>4. Screened \subseteq {c.dependency}
    BY DEF BlamedAlone
  <2> QED
    BY <1>7, <2>2, <2>3, <2>4 DEF Screened
<1> QED
  BY <1>3, <1>4, <1>7, <1>8 DEF Unseen

\* An optional label of a truthful laboratory is true of the workload.
LEMMA OptionalTrue ==
  ASSUME Inv, TrialsAreTrue
  PROVE  OptionalIsTrue
<1> SUFFICES ASSUME NEW c \in conclusions, c.necessity = "optional"
             PROVE  PassesWithout(c.dependency)
  BY DEF OptionalIsTrue
<1>1. OptionalFor(c) /\ phase \notin Early
  BY DEF Inv, LabelsEarned, Earned
<1>2. PICK t \in Cited(c) : t.outcome.passed
  BY <1>1 DEF OptionalFor, AllPassed
<1>3. t \in Records(trials) /\ Passes(nature, Available(nature, t.treatment))
  BY <1>2 DEF Cited, TrialsAreTrue
<1>4. Available(nature, t.treatment) \subseteq Undisturbed \ {c.dependency}
  <2>1. CASE TakesAway(t, c.dependency)
    BY <2>1, WhatIsLeft DEF TakesAway
  <2>2. CASE Cited(c) = Purposes("baseline") /\ OutOfReach(c.dependency)
    <3>1. Available(nature, t.treatment) = Undisturbed
      BY <1>3, <2>2, WhatIsLeft DEF TrialsAreTrue, Purposes
    <3>2. c.dependency \notin Undisturbed
      BY <1>1, <2>2 DEF OutOfReach, TrialsAreTrue, TrueServices, TrueExecutables
    <3> QED
      BY <3>1, <3>2
  <2> QED
    BY <1>1, <2>1, <2>2 DEF OptionalFor
<1> QED
  BY <1>3, <1>4, PassesMonotone DEF PassesWithout

-----------------------------------------------------------------------------
(* No candidate of a stable workload is lost.                              *)

\* An intervention concludes about every dependency it has evidence of.
LEMMA InterventionConcludes ==
  ASSUME NEW verdict, NEW records, NEW candidates
  PROVE  \A e \in candidates :
           \E c \in classify_intervention(verdict, records, candidates) : c.dependency = e.key
<1> SUFFICES ASSUME NEW e \in candidates
             PROVE  \E c \in classify_intervention(verdict, records, candidates) :
                      c.dependency = e.key
  OBVIOUS
<1> DEFINE label == Judgement(verdict, records, candidates, e)
           c == [dependency |-> e.key, necessity |-> label,
                 trials |-> IF label = "unresolved" THEN {} ELSE Labels(records)]
<1>1. c \in classify_intervention(verdict, records, candidates)
  BY DEF classify_intervention
<1>2. c.dependency = e.key
  OBVIOUS
<1> QED
  BY <1>1, <1>2

\* So does a laboratory that cannot enforce.
LEMMA UnenforceableConcludes ==
  ASSUME NEW candidates
  PROVE  \A e \in candidates : \E c \in classify_unenforceable(candidates) : c.dependency = e.key
<1>1. \A e \in candidates : /\ Unresolved(e.key) \in classify_unenforceable(candidates)
                            /\ Unresolved(e.key).dependency = e.key
  BY DEF classify_unenforceable, Unresolved
<1> QED
  BY <1>1

\* There is evidence of every key of a set.
LEMMA EvidenceOfEach ==
  ASSUME NEW S, NEW u \in BOOLEAN
  PROVE  \A d \in S : \E e \in {Evidence(k, u) : k \in S} : e.key = d
<1>1. \A d \in S : Evidence(d, u) \in {Evidence(k, u) : k \in S} /\ Evidence(d, u).key = d
  BY DEF Evidence
<1> QED
  BY <1>1

\* The baseline concludes about every candidate that was out of reach.
LEMMA FreeConcluded ==
  ASSUME NEW net, NEW exe, NEW verdict, NEW labels, supports_experiments(verdict), NEW d,
         \/ d \in DOMAIN net /\ net[d].allFailed
         \/ d \in DOMAIN exe /\ ~exe[d]
  PROVE  \E c \in classify_enforced_deny(verdict, labels, EnforcedDeny(net))
                    \cup classify_natural_counterfactual(verdict, labels, Natural(net, exe)) :
           c.dependency = d
<1> DEFINE c == [dependency |-> d, necessity |-> "optional", trials |-> labels]
<1>1. /\ Evidence(d, TRUE).key = d
      /\ Evidence(d, TRUE).external /\ Evidence(d, TRUE).unavailable
  BY DEF Evidence
<1>2. Evidence(d, TRUE) \in EnforcedDeny(net) \/ Evidence(d, TRUE) \in Natural(net, exe)
  BY DEF EnforcedDeny, Natural
<1>3. CASE Evidence(d, TRUE) \in EnforcedDeny(net)
  <2>1. c \in classify_enforced_deny(verdict, labels, EnforcedDeny(net))
    BY <1>1, <1>3 DEF classify_enforced_deny
  <2> QED
    BY <2>1
<1>4. CASE Evidence(d, TRUE) \in Natural(net, exe)
  <2>1. c \in classify_natural_counterfactual(verdict, labels, Natural(net, exe))
    BY <1>1, <1>4 DEF classify_natural_counterfactual
  <2> QED
    BY <2>1
<1> QED
  BY <1>2, <1>3, <1>4

\* Before the baseline there is nobody to lose.
LEMMA InitNoneLost == Init => NoneLost
BY DEF Init, NoneLost, Early

\* A step that labels the targets it takes off the list loses none.
LEMMA LosesNone ==
  ASSUME NoneLost, UNCHANGED found, phase \notin Early,
         \A c \in conclusions \cup pending :
           \E d \in conclusions' \cup pending' : d.dependency = c.dependency,
         \A d \in ToLabel : d \in ToLabel' \/ \E c \in conclusions' \cup pending' : c.dependency = d
  PROVE  NoneLost'
<1>1. Candidates' = Candidates /\ baseline' = baseline
  BY FoundKept DEF found
<1>2. ASSUME supports_experiments(baseline), NEW d \in Candidates
      PROVE  d \in ToLabel' \/ \E c \in conclusions' \cup pending' : c.dependency = d
  BY <1>2 DEF NoneLost
<1> QED
  BY <1>1, <1>2 DEF NoneLost

\* Every step loses none.
LEMMA StepNoneLost ==
  TypeOK /\ TrialsInOrder /\ LabelledOnce /\ TrialsAreTrue /\ NoneLost /\ [Next]_vars
    => NoneLost'
<1> SUFFICES ASSUME TypeOK, TrialsInOrder, LabelledOnce, TrialsAreTrue, NoneLost, [Next]_vars
             PROVE  NoneLost'
  OBVIOUS
<1> USE DEF At, loop, ResetLoop
<1>2. CASE phase' \in Early
  BY <1>2 DEF NoneLost
<1>3. CASE TrialStep
  <2>1. /\ UNCHANGED <<conclusions, pending, agenda, dropped, found>>
        /\ phase' = IF phase = "replay" THEN "replayed" ELSE phase
    BY <1>3, TrialSteps
  <2>2. ToLabel' = ToLabel
    BY <2>1, FoundKept DEF ToLabel
  <2>3. phase' \in Early <=> phase \in Early
    BY <2>1 DEF Early
  <2> QED
    BY <1>2, <2>1, <2>2, <2>3, LosesNone
<1>4. CASE SelectWorkload \/ PrepareEnvironment \/ TakeSnapshot
  BY <1>2, <1>4 DEF SelectWorkload, PrepareEnvironment, TakeSnapshot, Early
<1>5. CASE AssessBaseline
  <2> DEFINE verdict == assess_baseline(Outcomes(results))
             net     == [k \in {n \in DOMAIN seen.network : seen.network[n].external}
                           |-> seen.network[k]]
             exe     == seen.executables
             free    == classify_enforced_deny(verdict, BaselineLabels, EnforcedDeny(net))
                          \cup classify_natural_counterfactual(verdict, BaselineLabels,
                                                               Natural(net, exe))
  <2>1. /\ networkCandidates' = net /\ executableCandidates' = exe /\ baseline' = verdict
        /\ supports_experiments(verdict) => phase' = "screen" /\ pending' = free
    BY <1>5 DEF AssessBaseline
  <2> SUFFICES ASSUME supports_experiments(verdict), NEW d \in DOMAIN net \cup DOMAIN exe
               PROVE  d \in ToLabel' \/ \E c \in pending' : c.dependency = d
    BY <2>1 DEF NoneLost, Candidates
  <2>2. CASE \/ d \in DOMAIN net /\ net[d].allFailed
             \/ d \in DOMAIN exe /\ ~exe[d]
    <3> HIDE DEF net, exe, verdict
    <3>1. \E c \in free : c.dependency = d
      BY <2>2, FreeConcluded
    <3> QED
      BY <2>1, <3>1
  <2>3. CASE \/ d \in DOMAIN net /\ ~net[d].allFailed
             \/ d \in DOMAIN exe /\ exe[d]
    <3> HIDE DEF net, exe, verdict, free
    <3>1. d \in Screened' \cup HideTargets'
      BY <2>1, <2>3 DEF Screened, HideTargets
    <3> QED
      BY <2>1, <3>1 DEF ToLabel
  <2> QED
    BY <2>2, <2>3
<1>6. CASE JournalConclusion
  <2>1. PICK c \in pending :
          /\ conclusions' = conclusions \cup
               {[dependency |-> c.dependency, necessity |-> c.necessity, trials |-> c.trials,
                 evidence |-> Len(journal) + 1]}
          /\ pending' = pending \ {c}
    BY <1>6 DEF JournalConclusion
  <2>2. UNCHANGED <<phase, agenda, dropped, found>>
    BY <1>6 DEF JournalConclusion
  <2>3. UNCHANGED ToLabel
    BY <2>2, FoundKept DEF ToLabel
  <2>4. phase \notin Early
    BY DEF LabelledOnce
  <2>5. \A x \in conclusions \cup pending :
          \E d \in conclusions' \cup pending' : d.dependency = x.dependency
    <3> SUFFICES ASSUME NEW x \in conclusions \cup pending
                 PROVE  \E d \in conclusions' \cup pending' : d.dependency = x.dependency
      OBVIOUS
    <3> DEFINE label == [dependency |-> c.dependency, necessity |-> c.necessity,
                         trials |-> c.trials, evidence |-> Len(journal) + 1]
    <3>1. label \in conclusions' /\ label.dependency = c.dependency
      BY <2>1
    <3>2. x # c => x \in conclusions' \cup pending'
      BY <2>1
    <3> QED
      BY <3>1, <3>2
  <2> QED
    BY <2>2, <2>3, <2>4, <2>5, LosesNone
<1>7. CASE Abort \/ UNCHANGED vars
  <2>1. UNCHANGED <<phase, conclusions, pending, agenda, dropped, found>>
    BY <1>7 DEF Abort, vars
  <2>2. UNCHANGED ToLabel
    BY <2>1, FoundKept DEF ToLabel
  <2> QED
    BY <1>2, <2>1, <2>2, LosesNone
<1>8. ASSUME pending = {}, UNCHANGED <<conclusions, found>>, phase \notin Early,
             \A d \in ToLabel : d \in ToLabel' \/ \E c \in pending' : c.dependency = d
      PROVE  NoneLost'
  BY <1>8, LosesNone
<1>9. CASE ScreenSkip \/ HideSkip \/ SkipWorld \/ ProposeWorld \/ ConcludeReplay \/ Finalize
  <2>1. /\ UNCHANGED <<conclusions, found>> /\ pending = {}
        /\ \/ phase = "screen" /\ phase' = "hide" /\ Screened = {}
           \/ phase = "hide" /\ phase' = "complete" /\ HideTargets = {}
           \/ phase \in {"complete", "replayed", "finalize"}
    BY <1>9 DEF ScreenSkip, HideSkip, SkipWorld, ProposeWorld, ConcludeReplay, Finalize
  <2>2. \A d \in ToLabel : d \in ToLabel'
    BY <2>1, FoundKept DEF ToLabel
  <2> QED
    BY <1>8, <2>1, <2>2 DEF Early
<1>10. CASE ScreenUnenforceable
  <2> DEFINE evidence == {Evidence(n, FALSE) : n \in Screened}
  <2>0. \A d \in Screened : \E e \in evidence : e.key = d
    BY EvidenceOfEach
  <2>1. /\ UNCHANGED <<conclusions, found>> /\ phase = "screen" /\ phase' = "hide"
        /\ pending = {} /\ pending' = classify_unenforceable(evidence)
    BY <1>10 DEF ScreenUnenforceable
  <2> HIDE DEF evidence
  <2>2. \A d \in Screened : \E c \in pending' : c.dependency = d
    BY <2>0, <2>1, UnenforceableConcludes
  <2> QED
    BY <1>8, <2>1, <2>2, FoundKept DEF ToLabel, Early
<1>11. CASE ScreenConclude
  <2>1. /\ UNCHANGED <<conclusions, found>> /\ phase = "screen" /\ pending = {}
        /\ \/ phase' = "isolate" /\ agenda' = Changed
           \/ /\ phase' = "hide"
              /\ pending' = classify_intervention(baseline, Records(results), ScreenEvidence)
    BY <1>11 DEF ScreenConclude
  <2>2. ScreenEvidence = {Evidence(n, TRUE) : n \in Screened} /\ Changed = Screened
    BY <2>1, ScreenSeesAll
  <2>3. CASE phase' = "isolate"
    BY <1>8, <2>1, <2>2, <2>3, FoundKept DEF ToLabel, Early
  <2>4. CASE phase' = "hide"
    <3>1. \A d \in Screened : \E e \in ScreenEvidence : e.key = d
      BY <2>2, EvidenceOfEach
    <3>2. \A d \in Screened : \E c \in pending' : c.dependency = d
      BY <2>1, <2>4, <3>1, InterventionConcludes
    <3> QED
      BY <1>8, <2>1, <2>4, <3>2, FoundKept DEF ToLabel, Early
  <2> QED
    BY <2>1, <2>3, <2>4
<1>12. CASE BlockDrop \/ HideDrop
  <2>1. PICK k \in agenda : DropTarget(k)
    BY <1>12 DEF BlockDrop, HideDrop
  <2>2. /\ UNCHANGED <<conclusions, found, phase>> /\ pending = {}
        /\ phase \in {"isolate", "hide-trials"}
        /\ agenda' \cup dropped' = agenda \cup dropped
    BY <1>12, <2>1 DEF BlockDrop, HideDrop, DropTarget
  <2> QED
    BY <1>8, <2>2, FoundKept DEF ToLabel, Early
<1>13. ASSUME NEW k \in agenda, pending = {}, phase \in {"isolate", "hide-trials"},
              UNCHANGED <<conclusions, found, phase, dropped>>, agenda' = agenda \ {k},
              \E c \in pending' : c.dependency = k
       PROVE  NoneLost'
  BY <1>8, <1>13, FoundKept DEF ToLabel, Early
<1>14. \A k : Evidence(k, TRUE).key = k
  BY DEF Evidence
<1>15. CASE BlockConclude \/ HideConclude
  <2>1. PICK k \in agenda : ConcludeTarget(k)
    BY <1>15 DEF BlockConclude, HideConclude
  <2>2. /\ UNCHANGED <<conclusions, found, phase, dropped>> /\ pending = {}
        /\ phase \in {"isolate", "hide-trials"} /\ agenda' = agenda \ {k}
        /\ pending' = classify_intervention(baseline, Records(results), {Evidence(k, TRUE)})
    BY <1>15, <2>1 DEF BlockConclude, HideConclude, ConcludeTarget
  <2>3. \E c \in pending' : c.dependency = k
    <3> DEFINE evidence == {Evidence(k, TRUE)}
    <3>1. pending' = classify_intervention(baseline, Records(results), evidence)
      BY <2>2
    <3>2. \E e \in evidence : e.key = k
      BY <1>14
    <3> HIDE DEF evidence
    <3> QED
      BY <3>1, <3>2, InterventionConcludes
  <2> QED
    BY <1>13, <2>2, <2>3
<1>16. CASE HideUnsupported
  <2>1. PICK k \in agenda :
          /\ UNCHANGED <<conclusions, found, phase, dropped>> /\ pending = {}
          /\ phase = "hide-trials" /\ agenda' = agenda \ {k}
          /\ pending' = classify_unenforceable({Evidence(k, TRUE)})
    BY <1>16 DEF HideUnsupported
  <2>2. \E c \in pending' : c.dependency = k
    <3> DEFINE evidence == {Evidence(k, TRUE)}
    <3>1. pending' = classify_unenforceable(evidence)
      BY <2>1
    <3>2. \E e \in evidence : e.key = k
      BY <1>14
    <3> HIDE DEF evidence
    <3> QED
      BY <3>1, <3>2, UnenforceableConcludes
  <2> QED
    BY <1>13, <2>1, <2>2
<1>17. CASE BlockReport \/ HideReport
  <2> DEFINE evidence == {Evidence(k, FALSE) : k \in dropped}
  <2>0. \A d \in dropped : \E e \in evidence : e.key = d
    BY EvidenceOfEach
  <2>1. /\ UNCHANGED <<conclusions, found>> /\ pending = {} /\ agenda = {}
        /\ \/ phase = "isolate" /\ phase' = "hide"
           \/ phase = "hide-trials" /\ phase' = "complete"
        /\ pending' = classify_intervention(baseline, {}, evidence)
    BY <1>17 DEF BlockReport, HideReport, ReportDropped
  <2> HIDE DEF evidence
  <2>2. \A d \in dropped : \E c \in pending' : c.dependency = d
    BY <2>0, <2>1, InterventionConcludes
  <2> QED
    BY <1>8, <2>1, <2>2, FoundKept DEF ToLabel, Early
<1>18. CASE HideUnenforceable
  <2> DEFINE evidence == {Evidence(e, FALSE) : e \in HideTargets}
  <2>0. \A d \in HideTargets : \E e \in evidence : e.key = d
    BY EvidenceOfEach
  <2>1. /\ UNCHANGED <<conclusions, found>> /\ phase = "hide" /\ phase' = "complete"
        /\ pending = {} /\ pending' = classify_unenforceable(evidence)
    BY <1>18 DEF HideUnenforceable
  <2> HIDE DEF evidence
  <2>2. \A d \in HideTargets : \E c \in pending' : c.dependency = d
    BY <2>0, <2>1, UnenforceableConcludes
  <2> QED
    BY <1>8, <2>1, <2>2, FoundKept DEF ToLabel, Early
<1>19. CASE HideBegin
  <2>1. /\ UNCHANGED <<conclusions, found>> /\ phase = "hide" /\ phase' = "hide-trials"
        /\ pending = {} /\ agenda' = HideTargets
    BY <1>19 DEF HideBegin
  <2> QED
    BY <1>8, <2>1, FoundKept DEF ToLabel, Early
<1> QED
  BY <1>3, <1>4, <1>5, <1>6, <1>7, <1>9, <1>10, <1>11, <1>12, <1>15, <1>16, <1>17, <1>18, <1>19
     DEF Next, Step, Experiment, TrialStep

-----------------------------------------------------------------------------
(* Nothing is given up needlessly.                                         *)

\* A workload that fails leaves the same signature every time.
SteadyFailures == \A s, t \in Signature : s = t

\* Limitations are only ever added.
LEMMA LimitationsGrow == TypeOK /\ TrialsInOrder /\ [Next]_vars => Grows(limitations, limitations')
<1> SUFFICES ASSUME TypeOK, TrialsInOrder, [Next]_vars PROVE Grows(limitations, limitations')
  OBVIOUS
<1> USE DEF loop
<1>1. ASSUME NEW l, limitations' = Append(limitations, l)  PROVE Grows(limitations, limitations')
  BY <1>1 DEF TypeOK, Grows
<1>2. ASSUME UNCHANGED limitations  PROVE Grows(limitations, limitations')
  BY <1>2 DEF Grows
<1>3. CASE TrialStep
  BY <1>2, <1>3, TrialSteps
<1>4. CASE \/ PrepareEnvironment \/ ScreenUnenforceable \/ HideUnenforceable \/ ScreenConclude
           \/ BlockReport \/ HideReport
  BY <1>1, <1>2, <1>4 DEF PrepareEnvironment, ScreenUnenforceable, HideUnenforceable,
                          ScreenConclude, BlockReport, HideReport, ReportDropped
<1>5. CASE \/ SelectWorkload \/ TakeSnapshot \/ JournalConclusion \/ ScreenSkip \/ BlockDrop
           \/ BlockConclude \/ HideSkip \/ HideBegin \/ HideDrop \/ HideUnsupported \/ HideConclude
           \/ SkipWorld \/ ProposeWorld \/ ConcludeReplay \/ Finalize \/ Abort \/ UNCHANGED vars
  BY <1>2, <1>5 DEF SelectWorkload, TakeSnapshot, JournalConclusion, ScreenSkip, BlockDrop,
                    BlockConclude, HideSkip, HideBegin, HideDrop, HideUnsupported, HideConclude,
                    SkipWorld, ProposeWorld, ConcludeReplay, Finalize, Abort, vars,
                    DropTarget, ConcludeTarget
<1>6. CASE AssessBaseline
  <2> DEFINE short == IF Len(results) < BaselineRuns
                      THEN <<Limitation("budget-baseline", {})>> ELSE <<>>
             blind == IF seen.observed THEN <<>> ELSE <<Limitation("unobserved", {})>>
  <2>1. limitations' = limitations \o short \o blind
    BY <1>6 DEF AssessBaseline
  <2>2. short \in Seq(LimitationRecord) /\ blind \in Seq(LimitationRecord)
    BY LimitationType DEF LimitationKind
  <2> HIDE DEF short, blind
  <2>3. Grows(limitations, limitations \o short)
    BY <2>2 DEF TypeOK, Grows
  <2>4. Grows(limitations \o short, limitations \o short \o blind)
    <3>1. limitations \o short \in Seq(LimitationRecord)
      BY <2>2 DEF TypeOK
    <3> QED
      BY <2>2, <3>1 DEF Grows
  <2> QED
    BY <2>1, <2>3, <2>4 DEF Grows
<1> QED
  BY <1>3, <1>4, <1>5, <1>6 DEF Next, Step, Experiment, TrialStep

\* A budget limitation that was just recorded.
LEMMA BudgetHit ==
  ASSUME TypeOK,
         NEW kind \in {"budget-baseline", "budget-intervention", "budget-isolation", "budget-hide"},
         NEW about, limitations' = Append(limitations, Limitation(kind, about))
  PROVE  ~BudgetSufficed'
<1>1. /\ Len(limitations) + 1 \in DOMAIN limitations'
      /\ limitations'[Len(limitations) + 1] = Limitation(kind, about)
  BY DEF TypeOK
<1>2. Limitation(kind, about).limitation = kind
  BY DEF Limitation
<1> QED
  BY <1>1, <1>2 DEF BudgetSufficed

\* True trials of one treatment agree with each other.
LEMMA TrueTrialsAgree ==
  ASSUME SteadyFailures, TypeOK, TrialsInOrder, TrialsAreTrue, supports_experiments(baseline),
         results # <<>>,
         \A t, u \in Records(results) :
           Available(nature, t.treatment) = Available(nature, u.treatment)
  PROVE  Conclusive(baseline, Records(results))
<1>1. \A t \in Records(results) : /\ t.enforcement = "enforced"
                                  /\ t.outcome.passed <=> Passes(nature, Available(nature, t.treatment))
  BY DEF TrialsInOrder, TrialsAreTrue
<1>2. Records(results) # {}
  <2>1. 1 \in DOMAIN results
    BY DEF TypeOK
  <2> QED
    BY <2>1 DEF Records
<1>3. AllPassed(Records(results)) \/ AllFailed(Records(results))
  BY <1>1 DEF AllPassed, AllFailed
<1>4. SignaturesCompatible(Records(results))
  <2>1. \A t \in Records(results) : t.outcome.signature \in Signature \cup {NoSignature}
    BY TrialSets DEF TrialRecord, TrialOutcome
  <2> QED
    BY <2>1 DEF SignaturesCompatible, SteadyFailures
<1> QED
  BY <1>1, <1>2, <1>3, <1>4 DEF Conclusive

\* Nothing is open in the initial states.
LEMMA InitDecided == Init => Decided
BY DEF Init, Decided

\* A step that leaves nothing open needlessly.
LEMMA StaysDecided ==
  ASSUME TypeOK, TrialsInOrder, Decided, [Next]_vars, UNCHANGED <<inputs, found>>,
         \A c \in conclusions \cup pending : LeftOpen(c.dependency) => LeftOpen(c.dependency)',
         supports_experiments(baseline) /\ AbleLaboratory /\ BudgetSufficed' =>
           \A c \in conclusions' \cup pending' : c.necessity = "unresolved" =>
             \/ \E d \in conclusions \cup pending :
                  d.necessity = "unresolved" /\ d.dependency = c.dependency
             \/ LeftOpen(c.dependency)'
  PROVE  Decided'
<1>1. BudgetSufficed' => BudgetSufficed
  BY LimitationsGrow DEF BudgetSufficed, Grows
<1>2. UNCHANGED <<baseline, AbleLaboratory>>
  BY NatureKept DEF found
<1> QED
  BY <1>1, <1>2 DEF Decided

\* What a target's own trials decide.
LEMMA TargetDecided ==
  ASSUME NEW verdict, NEW records, NEW k, Conclusive(verdict, records)
  PROVE  \A c \in classify_intervention(verdict, records, {Evidence(k, TRUE)}) :
           c.necessity # "unresolved"
<1> DEFINE e == Evidence(k, TRUE)
<1>1. e.external /\ e.unavailable /\ e.attempted
  BY DEF Evidence
<1>2. ChangedSet({e}) = {e}
  BY <1>1 DEF ChangedSet
<1>3. Judgement(verdict, records, {e}, e) # "unresolved"
  BY <1>1, <1>2 DEF Judgement
<1> HIDE DEF e
<1>4. \A c \in classify_intervention(verdict, records, {e}) :
        c.necessity = Judgement(verdict, records, {e}, e)
  BY DEF classify_intervention
<1> QED
  BY <1>3, <1>4 DEF e

\* What the screen decides when it need not isolate.
LEMMA ScreenDecided ==
  ASSUME TypeOK, TrialsAreTrue, phase = "screen", results # <<>>, caps.per_dependency_egress,
         ~MustIsolate, Conclusive(baseline, Records(results))
  PROVE  \A c \in classify_intervention(baseline, Records(results), ScreenEvidence) :
           c.necessity # "unresolved"
<1>1. /\ ScreenEvidence = {Evidence(n, TRUE) : n \in Screened}
      /\ ChangedSet(ScreenEvidence) = ScreenEvidence /\ Changed = Screened
  BY ScreenSeesAll
<1>2. \A e \in ScreenEvidence : e.external /\ e.unavailable
  BY <1>1 DEF Evidence
<1>3. ASSUME NEW e \in ScreenEvidence
      PROVE  Judgement(baseline, Records(results), ScreenEvidence, e) # "unresolved"
  <2>1. CASE AllPassed(Records(results))
    BY <1>2, <2>1 DEF Judgement
  <2>2. CASE ~AllPassed(Records(results))
    <3>1. AllFailed(Records(results))
      BY <2>2 DEF Conclusive
    <3>2. \A m, n \in Screened : m = n
      BY <1>1, <3>1 DEF MustIsolate
    <3>3. ScreenEvidence = {e}
      BY <1>1, <3>2
    <3> QED
      BY <1>1, <2>2, <3>3 DEF Judgement
  <2> QED
    BY <2>1, <2>2
<1>4. \A c \in classify_intervention(baseline, Records(results), ScreenEvidence) :
        \E e \in ScreenEvidence :
          c.necessity = Judgement(baseline, Records(results), ScreenEvidence, e)
  BY DEF classify_intervention
<1> QED
  BY <1>3, <1>4

\* Every step leaves open only what it must.
LEMMA StepDecided ==
  ASSUME SteadyFailures
  PROVE  TypeOK /\ TrialsInOrder /\ LabelledOnce /\ TrialsAreTrue /\ Decided /\ [Next]_vars
           => Decided'
<1> SUFFICES ASSUME TypeOK, TrialsInOrder, LabelledOnce, TrialsAreTrue, Decided, [Next]_vars
             PROVE  Decided'
  OBVIOUS
<1> USE DEF At, loop, ResetLoop
<1>0. UNCHANGED inputs /\ UNCHANGED <<caps, RunsPer>>
  BY InputsKept, NatureKept
<1>1. ASSUME UNCHANGED trials  PROVE \A d : LeftOpen(d)' <=> LeftOpen(d)
  BY <1>0, <1>1, TrialsKept DEF LeftOpen
<1>2. CASE TrialStep
  <2>1. PICK record : Taken(record) /\ OfLoop(record)'
    BY <1>2, TrialSteps
  <2>2. /\ UNCHANGED <<conclusions, pending, found, agenda>> /\ pending = {}
        /\ phase' = IF phase = "replay" THEN "replayed" ELSE phase
    BY <1>2, TrialSteps
  <2>3. Purposes("hide")' = Purposes("hide") \cup {t \in {record} : t.label.purpose = "hide"}
    BY <2>1 DEF Taken, Purposes
  <2>4. record.label.purpose = "hide" => phase = "hide-trials" /\ record.label.key \in agenda
    BY <2>1, <2>2 DEF OfLoop, NextHide
  <2>5. \A c \in conclusions : record.label.purpose = "hide" => c.dependency # record.label.key
    BY <2>4 DEF LabelledOnce, ToLabel
  <2>6. \A c \in conclusions : LeftOpen(c.dependency) => LeftOpen(c.dependency)'
    BY <1>0, <2>3, <2>5 DEF LeftOpen
  <2> QED
    BY <1>0, <2>2, <2>6, StaysDecided
<1>3. CASE JournalConclusion
  <2>1. PICK c \in pending :
          /\ conclusions' = conclusions \cup
               {[dependency |-> c.dependency, necessity |-> c.necessity, trials |-> c.trials,
                 evidence |-> Len(journal) + 1]}
          /\ pending' = pending \ {c}
    BY <1>3 DEF JournalConclusion
  <2>2. UNCHANGED <<found, trials>>
    BY <1>3 DEF JournalConclusion
  <2>3. \A x \in conclusions' \cup pending' : x.necessity = "unresolved" =>
          \E d \in conclusions \cup pending :
            d.necessity = "unresolved" /\ d.dependency = x.dependency
    BY <2>1
  <2> QED
    BY <1>0, <1>1, <2>2, <2>3, StaysDecided
<1>4. CASE \/ SelectWorkload \/ PrepareEnvironment \/ TakeSnapshot \/ ScreenSkip \/ BlockDrop
           \/ HideSkip \/ HideBegin \/ HideDrop \/ SkipWorld \/ ProposeWorld \/ ConcludeReplay
           \/ Finalize \/ Abort \/ UNCHANGED vars
  <2>1. UNCHANGED <<trials, conclusions, pending, found>>
    BY <1>4 DEF SelectWorkload, PrepareEnvironment, TakeSnapshot, ScreenSkip, BlockDrop,
                HideSkip, HideBegin, HideDrop, SkipWorld, ProposeWorld, ConcludeReplay,
                Finalize, Abort, DropTarget, vars
  <2> QED
    BY <1>0, <1>1, <2>1, StaysDecided
<1>5. CASE AssessBaseline
  <2>1. /\ conclusions' = conclusions /\ conclusions = {}
        /\ supports_experiments(baseline') =>
             \E verdict, labels, denied, natural :
                pending' = classify_enforced_deny(verdict, labels, denied)
                             \cup classify_natural_counterfactual(verdict, labels, natural)
    BY <1>5 DEF AssessBaseline, LabelledOnce, Early
  <2>2. supports_experiments(baseline') => \A c \in pending' : c.necessity # "unresolved"
    BY <2>1, FreeLabels
  <2> QED
    BY <2>1, <2>2 DEF Decided
<1>6. ASSUME UNCHANGED <<trials, conclusions, found>>,
             supports_experiments(baseline) /\ AbleLaboratory /\ BudgetSufficed' =>
               \A c \in pending' : c.necessity = "unresolved" => LeftOpen(c.dependency)
      PROVE  Decided'
  BY <1>0, <1>1, <1>6, StaysDecided
<1>7. CASE ScreenUnenforceable \/ HideUnenforceable
  <2>1. UNCHANGED <<trials, conclusions, found>> /\ ~AbleLaboratory
    BY <1>7 DEF ScreenUnenforceable, HideUnenforceable, AbleLaboratory
  <2> QED
    BY <1>6, <2>1
<1>8. CASE ScreenConclude
  <2>1. /\ UNCHANGED <<trials, conclusions, found>> /\ phase = "screen" /\ pending = {}
        /\ Len(results) < RunsPer =>
             limitations' = Append(limitations, Limitation("budget-intervention", {}))
        /\ \/ pending' = {}
           \/ /\ ~MustIsolate
              /\ pending' = classify_intervention(baseline, Records(results), ScreenEvidence)
    BY <1>8 DEF ScreenConclude
  <2> SUFFICES ASSUME supports_experiments(baseline), AbleLaboratory, BudgetSufficed', ~MustIsolate
               PROVE  \A c \in classify_intervention(baseline, Records(results), ScreenEvidence) :
                        c.necessity # "unresolved"
    BY <1>6, <2>1
  <2>2. results # <<>>
    <3>1. ~(Len(results) < RunsPer)
      BY <2>1, BudgetHit
    <3>2. RunsPer \in Nat \ {0}
      BY PolicyType DEF TypeOK
    <3> QED
      BY <3>1, <3>2
  <2>3. \A t \in Records(results) : t.treatment = DenyAllEgress
    BY <2>1 DEF TrialsInOrder, OfLoop
  <2>4. Conclusive(baseline, Records(results))
    BY <2>2, <2>3, TrueTrialsAgree
  <2>5. caps.per_dependency_egress
    BY DEF AbleLaboratory
  <2> QED
    BY <2>1, <2>2, <2>4, <2>5, ScreenDecided
<1>9. CASE BlockConclude \/ HideConclude
  <2>1. PICK k \in agenda : /\ ConcludeTarget(k)
                            /\ phase = "isolate" => NextBlock(k)
                            /\ phase = "hide-trials" => NextHide(k)
    BY <1>9 DEF BlockConclude, HideConclude
  <2>2. /\ UNCHANGED <<found, conclusions, trials>> /\ phase \in {"isolate", "hide-trials"}
        /\ results # <<>>
        /\ pending' = classify_intervention(baseline, Records(results), {Evidence(k, TRUE)})
    BY <1>9, <2>1 DEF BlockConclude, HideConclude, ConcludeTarget
  <2>3. \A t \in Records(results) : Available(nature, t.treatment) = Undisturbed \ {k}
    BY <2>1, <2>2, TargetTrials
  <2>4. supports_experiments(baseline) => Conclusive(baseline, Records(results))
    BY <2>2, <2>3, TrueTrialsAgree
  <2>5. supports_experiments(baseline) => \A c \in pending' : c.necessity # "unresolved"
    BY <2>2, <2>4, TargetDecided
  <2> QED
    BY <1>6, <2>2, <2>5
<1>10. CASE HideUnsupported
  <2>1. PICK k \in agenda : pending' = classify_unenforceable({Evidence(k, TRUE)})
    BY <1>10 DEF HideUnsupported
  <2>2. /\ UNCHANGED <<found, conclusions, trials>> /\ phase = "hide-trials"
        /\ Len(results) < RunsPer
    BY <1>10 DEF HideUnsupported
  <2>3. \A c \in pending' : c.dependency = k
    BY <2>1 DEF classify_unenforceable, Unresolved, Evidence
  <2>4. k \in Exe
    BY <2>2 DEF TypeOK
  <2>5. ASSUME NEW t \in Purposes("hide"), t.label.key = k, t.label.run = RunsPer  PROVE FALSE
    <3>1. t \in Records(results)
      BY <2>2, <2>5 DEF TrialsInOrder, InProgress, Purposes
    <3>2. t.label.run <= Len(results) /\ RunsPer \in Nat /\ Len(results) \in Nat
      BY <3>1, PolicyType DEF TrialsInOrder, TypeOK
    <3> QED
      BY <2>2, <2>5, <3>2
  <2>6. LeftOpen(k)
    BY <2>4, <2>5 DEF LeftOpen
  <2> QED
    BY <1>6, <2>2, <2>3, <2>6
<1>11. CASE BlockReport \/ HideReport
  <2>1. PICK kind \in {"budget-isolation", "budget-hide"} : ReportDropped(kind, phase')
    BY <1>11 DEF BlockReport, HideReport, ReportDropped
  <2>2. /\ UNCHANGED <<found, conclusions, trials>>
        /\ dropped # {} => limitations' = Append(limitations, Limitation(kind, dropped))
        /\ pending' = classify_intervention(baseline, {}, {Evidence(k, FALSE) : k \in dropped})
    BY <2>1 DEF ReportDropped
  <2>3. dropped = {} => pending' = {}
    BY <2>2 DEF classify_intervention
  <2>4. dropped # {} => ~BudgetSufficed'
    BY <2>2, BudgetHit
  <2> QED
    BY <1>6, <2>2, <2>3, <2>4
<1> QED
  BY <1>2, <1>3, <1>4, <1>5, <1>7, <1>8, <1>9, <1>10, <1>11 DEF Next, Step, Experiment, TrialStep

-----------------------------------------------------------------------------
(* The theorems.                                                           *)

\* The truth invariant holds initially and every step keeps it.
LEMMA Truthful == TruthfulLaboratory => (Spec => [](Inv /\ TrialsAreTrue /\ BlamedAlone /\ NoneLost))
<1> SUFFICES ASSUME TruthfulLaboratory
             PROVE  Spec => [](Inv /\ TrialsAreTrue /\ BlamedAlone /\ NoneLost)
  OBVIOUS
<1>1. Init => TrialsAreTrue /\ BlamedAlone /\ NoneLost
  BY InitTrialsAreTrue, InitBlamedAlone, InitNoneLost
<1>2. Inv /\ TrialsAreTrue /\ BlamedAlone /\ NoneLost /\ [Next]_vars
        => TrialsAreTrue' /\ BlamedAlone' /\ NoneLost'
  BY StepTrialsAreTrue, StepBlamedAlone, StepNoneLost DEF Inv
<1> QED
  BY <1>1, <1>2, Inductive, PTL DEF Spec

\* Causal labels are true of the workload: without a required dependency it
\* fails, without an optional one it passes.
THEOREM LabelsTrue == TruthfulLaboratory => (Spec => []LabelsAreTrue)
<1> SUFFICES ASSUME TruthfulLaboratory PROVE Spec => []LabelsAreTrue
  OBVIOUS
<1>1. Inv /\ TrialsAreTrue /\ BlamedAlone => LabelsAreTrue
  BY RequiredTrue, OptionalTrue DEF LabelsAreTrue
<1> QED
  BY <1>1, Truthful, PTL

\* A label is given to every candidate of a finished analysis of a stable workload.
LEMMA AllLabelled ==
  ASSUME Inv, NoneLost, phase \in {"complete"} \cup Late, pending = {},
         supports_experiments(baseline), NEW d \in Candidates
  PROVE  \E c \in conclusions : c.dependency = d /\ c.necessity = LabelOf(d)
<1>1. d \notin ToLabel /\ phase \notin Early
  BY DEF ToLabel, Late, Early
<1>2. PICK c \in conclusions : c.dependency = d
  BY <1>1 DEF NoneLost
<1> QED
  BY <1>2, LabelIsNecessity DEF Inv, LabelledOnce

\* With an able laboratory and a budget that was not hit, every candidate of a
\* stable workload that fails in one way gets a causal label, save an
\* executable whose hide trials the laboratory would not run.
THEOREM NothingGivenUp ==
  TruthfulLaboratory /\ SteadyFailures => (Spec => []EverythingDecided)
<1> SUFFICES ASSUME TruthfulLaboratory, SteadyFailures PROVE Spec => []EverythingDecided
  OBVIOUS
<1>1. Init => Decided
  BY InitDecided
<1>2. Inv /\ TrialsAreTrue /\ Decided /\ [Next]_vars => Decided'
  BY StepDecided DEF Inv
<1>3. Inv /\ NoneLost /\ Decided => EverythingDecided
  <2> SUFFICES ASSUME Inv, NoneLost, Decided, outcome = "reported",
                      supports_experiments(baseline), AbleLaboratory, BudgetSufficed,
                      NEW d \in Candidates
               PROVE  \/ LabelOf(d) \in {"required", "optional"}
                      \/ /\ d \in Exe
                         /\ ~ \E t \in Purposes("hide") : t.label.key = d /\ t.label.run = RunsPer
    BY DEF EverythingDecided
  <2>1. phase = "done"
    BY DEF Inv, ReplayKept
  <2>2. pending = {}
    BY <2>1 DEF Inv, WorldFrozen, Late
  <2>3. PICK c \in conclusions : c.dependency = d /\ c.necessity = LabelOf(d)
    BY <2>1, <2>2, AllLabelled DEF Late
  <2>4. c.necessity \in {"required", "optional", "unresolved"}
    BY DEF Inv, TypeOK, Classified, Necessity
  <2>5. c.necessity = "unresolved" => LeftOpen(d)
    BY <2>3 DEF Decided
  <2> QED
    BY <2>3, <2>4, <2>5 DEF LeftOpen
<1> QED
  BY <1>1, <1>2, <1>3, Truthful, PTL DEF Spec

\* Without substitutes, and when nothing stayed unresolved, the workload passes
\* in a world that offers only the required dependencies.
THEOREM RequiredIsEnough == TruthfulLaboratory => (Spec => []RequiredSuffices)
<1> SUFFICES ASSUME TruthfulLaboratory PROVE Spec => []RequiredSuffices
  OBVIOUS
<1>1. ASSUME Inv, TrialsAreTrue, NoneLost, world.status = "verified",
             \A need \in nature.needs : Len(need) = 1,
             \A c \in conclusions : c.necessity # "unresolved",
             NEW need \in nature.needs
      PROVE  \E i \in DOMAIN need : need[i] \in world.required
  <2>1. /\ phase \in Late /\ pending = {} /\ supports_experiments(baseline)
        /\ world.required = Keys("required") /\ phase \notin Early
    BY <1>1 DEF Inv, WorldFrozen, Late, Early
  <2>2. DOMAIN need = {1}
    <3>1. need \in Seq(Dep)
      BY <1>1 DEF Inv, TypeOK, TruthfulLaboratory, Workload
    <3> QED
      BY <1>1, <3>1
  <2>3. Passes(nature, Undisturbed)
    <3>1. PICK t \in Records(trials) : t.label.purpose = "baseline" /\ t.outcome.passed
      BY <1>1, <2>1 DEF Inv, LabelsEarned, Purposes, AllPassed
    <3> QED
      BY <1>1, <3>1, WhatIsLeft DEF TrialsAreTrue
  <2>4. need[1] \in Undisturbed
    BY <2>2, <2>3 DEF Passes
  <2>5. need[1] \in Candidates
    <3>1. need[1] \in Tried(nature, Undisturbed)
      BY <2>2 DEF Tried
    <3> QED
      BY <1>1, <2>1, <3>1 DEF TrialsAreTrue, AllSeen, Candidates
  <2>6. PICK c \in conclusions : c.dependency = need[1]
    BY <1>1, <2>1, <2>5, AllLabelled
  <2>7. c.necessity \in {"required", "optional", "unresolved"}
    BY <1>1 DEF Inv, TypeOK, Classified, Necessity
  <2>8. c.necessity # "optional"
    <3>1. ~PassesWithout(need[1])
      BY <2>2 DEF PassesWithout, Passes
    <3> QED
      BY <1>1, <2>6, <3>1, OptionalTrue DEF OptionalIsTrue
  <2>9. need[1] \in Keys("required")
    BY <1>1, <2>6, <2>7, <2>8 DEF Keys
  <2> QED
    BY <2>1, <2>2, <2>9
<1>2. Inv /\ TrialsAreTrue /\ NoneLost => RequiredSuffices
  BY <1>1 DEF RequiredSuffices, Passes
<1> QED
  BY <1>2, Truthful, PTL
=============================================================================
