------------------------------- MODULE Prove -------------------------------
(***************************************************************************)
(* The prove use case (crates/ovid-application: prove.rs, workflow.rs):    *)
(* one analysis, from the prepared environment over the baseline runs and  *)
(* the budgeted interventions to the classified dependencies, the          *)
(* synthesized world and its replay.                                       *)
(*                                                                         *)
(* prove() is one thread; what it does not control is the laboratory       *)
(* behind LaboratoryPort and the journal behind JournalPort.  The          *)
(* laboratory answers a trial with any member of Answers(nature, t), and   *)
(* either port may return an error at any call (Abort).  An action is one  *)
(* call to the laboratory with everything the code does until the next     *)
(* one; the loop that journals fresh conclusions is one action per append. *)
(*                                                                         *)
(* A definition placed before the one it resembles (CanReserveNoReplay     *)
(* before CanReserve) is a seeded mistake: no specification uses it, the   *)
(* properties are shown to reject it.                                      *)
(***************************************************************************)
EXTENDS Classify

CONSTANTS
  Policies,       \* the ProvePolicy values considered
  Capabilities,   \* the LabCapabilities considered
  Natures,        \* the workloads and environments considered
  Answers(_, _),  \* what the laboratory may answer to a trial
  Ubiquitous      \* the executables of UBIQUITOUS_UTILITIES

Policy == [baseline_runs : Nat, confirmation_runs : Nat, max_trials : Nat,
           attempt_replay : BOOLEAN]

Capability == [deny_all_egress : BOOLEAN, per_dependency_egress : BOOLEAN,
               executable_hiding : BOOLEAN]

\* A TrialResult: the record's enforcement and outcome, and the observations.
TrialResult == [enforcement : EnforcementStatus, outcome : TrialOutcome,
                observations : Observations]

\* A classified dependency of the report: a conclusion and its evidence id.
Classified == [dependency : Dep, necessity : Necessity, trials : SUBSET Label,
               evidence : Nat]

\* A limitation of the report: its kind and the dependencies it names.
LimitationKind == {"provisioning-failed", "unobserved", "no-deny-all", "no-hiding",
                   "budget-baseline", "budget-intervention", "budget-isolation", "budget-hide"}

LimitationRecord == [limitation : LimitationKind, about : SUBSET Dep]

Limitation(kind, about) == [limitation |-> kind, about |-> about]

\* A journal event, with what identifies it.
Event == [event : {"workload-selected", "environment-prepared", "snapshot-created"}]
           \cup [event : {"trial-completed"}, label : Label]
           \cup [event : {"baseline-classified"}, verdict : BaselineVerdict]
           \cup [event : {"dependency-classified"}, conclusion : Conclusion]
           \cup [event : {"world-synthesized"}, required : SUBSET Dep, optional : SUBSET Dep,
                 unresolved : SUBSET Dep]
           \cup [event : {"replay-completed"}, passed : BOOLEAN]
           \cup [event : {"limitation-recorded"}, limitation : LimitationRecord]

ASSUME PolicyAssumption == Policies \subseteq Policy
ASSUME CapabilityAssumption == Capabilities \subseteq Capability
ASSUME UbiquitousAssumption == Ubiquitous \subseteq Exe
ASSUME AnswersAssumption ==
  \A n \in Natures, t \in Treatment : Answers(n, t) \subseteq TrialResult

VARIABLES
  nature, policy, caps,   \* the inputs of the analysis, never changed
  phase,                  \* where prove() stands
  outcome,                \* running, reported (Ok) or error (Err)
  workflow,               \* AnalysisState of the Workflow
  environment,            \* the prepared environment behind the port
  executed,               \* trials_executed
  trials,                 \* the trial records of the report
  results, seen,          \* records and merged observations of the current loop
  baseline,               \* the BaselineVerdict
  networkCandidates,      \* merged, externally controlled
  executableCandidates,   \* merged
  agenda, dropped,        \* targets of the current isolation loop
  pending,                \* conclusions not yet journaled
  conclusions,            \* the classified dependencies of the report
  limitations,            \* the limitations of the report
  world,                  \* the WorldOutcome
  journal                 \* the events appended through JournalPort

inputs == <<nature, policy, caps>>
loop   == <<results, seen, agenda, dropped>>
found  == <<baseline, networkCandidates, executableCandidates>>
vars   == <<inputs, phase, outcome, workflow, environment, executed, trials, loop, found,
            pending, conclusions, limitations, world, journal>>

-----------------------------------------------------------------------------
(* The analysis state machine (workflow.rs).                               *)

AnalysisState == {"created", "source-resolved", "inspected", "environment-prepared",
                  "provisioned", "baseline-validated", "candidates-observed",
                  "experiments-completed", "world-synthesized", "replay-verified",
                  "replay-failed", "replay-unavailable", "finalized"}

Allows ==
  {<<"created", "source-resolved">>, <<"source-resolved", "inspected">>,
   <<"inspected", "environment-prepared">>, <<"environment-prepared", "provisioned">>,
   <<"provisioned", "baseline-validated">>, <<"baseline-validated", "candidates-observed">>,
   <<"baseline-validated", "finalized">>, <<"candidates-observed", "experiments-completed">>,
   <<"experiments-completed", "world-synthesized">>, <<"experiments-completed", "finalized">>,
   <<"world-synthesized", "replay-verified">>, <<"world-synthesized", "replay-failed">>,
   <<"world-synthesized", "replay-unavailable">>, <<"replay-verified", "finalized">>,
   <<"replay-failed", "finalized">>, <<"replay-unavailable", "finalized">>}

\* Workflow::advance in release: an illegal transition is refused.
Advance(state, next) == IF <<state, next>> \in Allows THEN next ELSE state

-----------------------------------------------------------------------------
(* Helpers of the loop.                                                    *)

At(p) == outcome = "running" /\ phase = p /\ pending = {}

Journal(event) == journal' = Append(journal, event)

RunsPer == 1 + policy.confirmation_runs

\* The trial runner returns None once the budget is spent.
HasBudget == executed < policy.max_trials

\* The isolation loops keep one trial back for the replay.
CanReserveNoReplay == executed + RunsPer <= policy.max_trials
CanReserve == executed + RunsPer + 1 <= policy.max_trials

Records(seq) == {seq[i] : i \in DOMAIN seq}

Outcomes(seq) == [i \in DOMAIN seq |-> seq[i].outcome]

BaselineLabels == {t.label : t \in {r \in Records(trials) : r.label.purpose = "baseline"}}

Evidence(key, unavailable) ==
  [key |-> key, external |-> TRUE, unavailable |-> unavailable, attempted |-> TRUE]


\* run_trial of prove(): charge the budget, run, journal and keep the record.
RunTrial(purpose, key, treatment, answer) ==
  LET record == [label |-> [purpose |-> purpose, key |-> key, run |-> Len(results) + 1],
                 treatment |-> treatment, enforcement |-> answer.enforcement,
                 outcome |-> answer.outcome]
  IN  /\ HasBudget
      /\ answer \in Answers(nature, treatment)
      /\ executed' = executed + 1
      /\ trials' = Append(trials, record)
      /\ results' = Append(results, record)
      /\ seen' = MergeObservations(seen, answer.observations)
      /\ Journal([event |-> "trial-completed", label |-> record.label])

ResetLoop == results' = <<>> /\ seen' = NothingSeen

-----------------------------------------------------------------------------
Init ==
  /\ nature \in Natures
  /\ policy \in Policies
  /\ caps \in Capabilities
  /\ phase = "select"
  /\ outcome = "running"
  /\ workflow = "created"
  /\ environment = "none"
  /\ executed = 0
  /\ trials = <<>>
  /\ results = <<>>
  /\ seen = NothingSeen
  /\ baseline = "unstable"
  /\ networkCandidates = EmptyMap
  /\ executableCandidates = EmptyMap
  /\ agenda = {}
  /\ dropped = {}
  /\ pending = {}
  /\ conclusions = {}
  /\ limitations = <<>>
  /\ world = [status |-> "none", required |-> {}, optional |-> {}, unresolved |-> {}]
  /\ journal = <<>>

-----------------------------------------------------------------------------
(* Environment and snapshot.                                               *)

SelectWorkload ==
  /\ At("select")
  /\ workflow' = Advance(Advance(workflow, "source-resolved"), "inspected")
  /\ Journal([event |-> "workload-selected"])
  /\ phase' = "prepare"
  /\ UNCHANGED <<inputs, outcome, environment, executed, trials, loop, found, pending,
                 conclusions, limitations, world>>

\* A failed provisioning command is a limitation, never an error.
PrepareEnvironment ==
  /\ At("prepare")
  /\ environment' = "live"
  /\ workflow' = Advance(Advance(workflow, "environment-prepared"), "provisioned")
  /\ \E provisioned \in BOOLEAN :
       limitations' = IF provisioned THEN limitations
                      ELSE Append(limitations, Limitation("provisioning-failed", {}))
  /\ Journal([event |-> "environment-prepared"])
  /\ phase' = "snapshot"
  /\ UNCHANGED <<inputs, outcome, executed, trials, loop, found, pending, conclusions, world>>

TakeSnapshot ==
  /\ At("snapshot")
  /\ Journal([event |-> "snapshot-created"])
  /\ phase' = "baseline"
  /\ UNCHANGED <<inputs, outcome, workflow, environment, executed, trials, loop, found,
                 pending, conclusions, limitations, world>>

-----------------------------------------------------------------------------
(* Baseline.                                                               *)

BaselineRuns == IF policy.baseline_runs = 0 THEN 1 ELSE policy.baseline_runs

BaselineTrial ==
  /\ At("baseline")
  /\ Len(results) < BaselineRuns
  /\ \E answer \in Answers(nature, NoTreatment) :
       RunTrial("baseline", 0, NoTreatment, answer)
  /\ UNCHANGED <<inputs, phase, outcome, workflow, environment, agenda, dropped, found,
                 pending, conclusions, limitations, world>>

\* The evidence of step 1a: refused by the deny posture, nothing contacted.
EnforcedDeny(net) ==
  {Evidence(n, TRUE) : n \in {k \in DOMAIN net : net[k].allFailed /\ net[k].enforced}}

\* The evidence of step 1b: unreachable hosts and missing executables.
Natural(net, exe) ==
  {Evidence(n, TRUE) : n \in {k \in DOMAIN net : net[k].allFailed /\ ~net[k].enforced}}
    \cup {Evidence(e, TRUE) : e \in {k \in DOMAIN exe : ~exe[k]}}

\* Every candidate of a baseline that supports no experiment.
Unsupported(net, exe) ==
  {Evidence(n, FALSE) : n \in DOMAIN net} \cup {Evidence(e, ~exe[e]) : e \in DOMAIN exe}

\* The baseline loop is over: verdict, candidates, and the counterfactuals
\* that cost no trial.
AssessBaseline ==
  LET verdict == assess_baseline(Outcomes(results))
      net     == [k \in {n \in DOMAIN seen.network : seen.network[n].external}
                     |-> seen.network[k]]
      exe     == seen.executables
      short   == IF Len(results) < BaselineRuns
                 THEN <<Limitation("budget-baseline", {})>> ELSE <<>>
      blind   == IF seen.observed THEN <<>> ELSE <<Limitation("unobserved", {})>>
  IN  /\ At("baseline")
      /\ Len(results) = BaselineRuns \/ ~HasBudget
      /\ baseline' = verdict
      /\ networkCandidates' = net
      /\ executableCandidates' = exe
      /\ limitations' = limitations \o short \o blind
      /\ workflow' = Advance(Advance(workflow, "baseline-validated"), "candidates-observed")
      /\ Journal([event |-> "baseline-classified", verdict |-> verdict])
      /\ IF supports_experiments(verdict)
         THEN /\ pending' = classify_enforced_deny(verdict, BaselineLabels, EnforcedDeny(net))
                              \cup classify_natural_counterfactual(verdict, BaselineLabels,
                                                                   Natural(net, exe))
              /\ phase' = "screen"
         ELSE /\ pending' = classify_intervention(verdict, {}, Unsupported(net, exe))
              /\ phase' = "complete"
      /\ ResetLoop
      /\ UNCHANGED <<inputs, outcome, environment, executed, trials, agenda, dropped,
                     conclusions, world>>

JournalConclusionOff ==
  /\ outcome = "running"
  /\ \E c \in pending :
       /\ Journal([event |-> "dependency-classified", conclusion |-> c])
       /\ conclusions' = conclusions \cup
            {[dependency |-> c.dependency, necessity |-> c.necessity, trials |-> c.trials,
              evidence |-> Len(journal)]}
       /\ pending' = pending \ {c}
  /\ UNCHANGED <<inputs, phase, outcome, workflow, environment, executed, trials, loop,
                 found, limitations, world>>

\* journal_conclusions: append one classified dependency, keep its evidence
\* id.  A batch is journaled in key order; the code's order inside a batch
\* (refused services, then unreachable ones, then executables) differs only
\* in which of them gets the lower evidence id.
JournalConclusion ==
  /\ outcome = "running"
  /\ \E c \in pending :
       /\ \A d \in pending : c.dependency <= d.dependency
       /\ Journal([event |-> "dependency-classified", conclusion |-> c])
       /\ conclusions' = conclusions \cup
            {[dependency |-> c.dependency, necessity |-> c.necessity, trials |-> c.trials,
              evidence |-> Len(journal) + 1]}
       /\ pending' = pending \ {c}
  /\ UNCHANGED <<inputs, phase, outcome, workflow, environment, executed, trials, loop,
                 found, limitations, world>>

-----------------------------------------------------------------------------
(* Step 2: one deny-all-egress screen for the reachable network services.  *)

Screened == {n \in DOMAIN networkCandidates : ~networkCandidates[n].allFailed}

ScreenSkip ==
  /\ At("screen")
  /\ Screened = {}
  /\ phase' = "hide"
  /\ UNCHANGED <<inputs, outcome, workflow, environment, executed, trials, loop, found,
                 pending, conclusions, limitations, world, journal>>

ScreenUnenforceable ==
  /\ At("screen")
  /\ Screened # {}
  /\ ~caps.deny_all_egress
  /\ limitations' = Append(limitations, Limitation("no-deny-all", Screened))
  /\ pending' = classify_unenforceable({Evidence(n, FALSE) : n \in Screened})
  /\ phase' = "hide"
  /\ UNCHANGED <<inputs, outcome, workflow, environment, executed, trials, loop, found,
                 conclusions, world, journal>>

ScreenTrial ==
  /\ At("screen")
  /\ Screened # {}
  /\ caps.deny_all_egress
  /\ Len(results) < RunsPer
  /\ \E answer \in Answers(nature, DenyAllEgress) :
       RunTrial("no-egress", 0, DenyAllEgress, answer)
  /\ UNCHANGED <<inputs, phase, outcome, workflow, environment, agenda, dropped, found,
                 pending, conclusions, limitations, world>>

\* Unavailable unless some variant run saw it succeed; absence counts.
ScreenEvidence ==
  {Evidence(n, n \in DOMAIN seen.network => seen.network[n].allFailed) : n \in Screened}

Changed == {n \in Screened : Evidence(n, TRUE) \in ScreenEvidence}

MustIsolateThree ==
  /\ results # <<>>
  /\ AllFailed(Records(results))
  /\ \E l, m, n \in Changed : l # m /\ m # n /\ l # n
  /\ caps.per_dependency_egress

\* The group screen is ambiguous and the laboratory can tell services apart.
MustIsolate ==
  /\ results # <<>>
  /\ AllFailed(Records(results))
  /\ \E m, n \in Changed : m # n
  /\ caps.per_dependency_egress

ScreenConclude ==
  /\ At("screen")
  /\ Screened # {}
  /\ caps.deny_all_egress
  /\ Len(results) = RunsPer \/ ~HasBudget
  /\ limitations' = IF Len(results) < RunsPer
                    THEN Append(limitations, Limitation("budget-intervention", {}))
                    ELSE limitations
  /\ IF MustIsolate
     THEN /\ agenda' = Changed
          /\ phase' = "isolate"
          /\ UNCHANGED pending
     ELSE /\ pending' = classify_intervention(baseline, Records(results), ScreenEvidence)
          /\ phase' = "hide"
          /\ UNCHANGED agenda
  /\ ResetLoop
  /\ UNCHANGED <<inputs, outcome, workflow, environment, executed, trials, dropped, found,
                 conclusions, world, journal>>

-----------------------------------------------------------------------------
(* Isolation, one target after the other in a fixed order: a target whose  *)
(* runs do not fit in the budget with the replay's trial is dropped.       *)

DropTarget(k) ==
  /\ results = <<>>
  /\ ~CanReserve
  /\ dropped' = dropped \cup {k}
  /\ agenda' = agenda \ {k}
  /\ UNCHANGED <<inputs, phase, outcome, workflow, environment, executed, trials, results,
                 seen, found, pending, conclusions, limitations, world, journal>>

TestTarget(k, purpose, treatment) ==
  /\ results = <<>> => CanReserve
  /\ Len(results) < RunsPer
  /\ \E answer \in Answers(nature, treatment) : RunTrial(purpose, k, treatment, answer)
  /\ UNCHANGED <<inputs, phase, outcome, workflow, environment, agenda, dropped, found,
                 pending, conclusions, limitations, world>>

\* The target's trials are over, or the budget is: classify what there is.
ConcludeTarget(k) ==
  /\ results # <<>>
  /\ Len(results) = RunsPer \/ ~HasBudget
  /\ pending' = classify_intervention(baseline, Records(results), {Evidence(k, TRUE)})
  /\ agenda' = agenda \ {k}
  /\ ResetLoop
  /\ UNCHANGED <<inputs, phase, outcome, workflow, environment, executed, trials, dropped,
                 found, conclusions, limitations, world, journal>>

\* The dropped targets are named in a limitation and stay unresolved.
ReportDropped(kind, next) ==
  /\ agenda = {}
  /\ limitations' = IF dropped = {} THEN limitations
                    ELSE Append(limitations, Limitation(kind, dropped))
  /\ pending' = classify_intervention(baseline, {}, {Evidence(k, FALSE) : k \in dropped})
  /\ dropped' = {}
  /\ phase' = next
  /\ UNCHANGED <<inputs, outcome, workflow, environment, executed, trials, results, seen,
                 agenda, found, conclusions, world, journal>>

NextBlock(n) == n \in agenda /\ \A m \in agenda : n <= m

BlockDrop     == At("isolate") /\ \E n \in agenda : NextBlock(n) /\ DropTarget(n)
BlockTrial    == At("isolate") /\ \E n \in agenda :
                   NextBlock(n) /\ TestTarget(n, "block", BlockDependency(n))
BlockConclude == At("isolate") /\ \E n \in agenda : NextBlock(n) /\ ConcludeTarget(n)
BlockReport   == At("isolate") /\ ReportDropped("budget-isolation", "hide")

-----------------------------------------------------------------------------
(* Step 3: hide one executable at a time, project tooling first.           *)

HideTargetsAll    == DOMAIN networkCandidates \cup DOMAIN executableCandidates
HideTargetsNoUtil == {e \in DOMAIN executableCandidates \ Ubiquitous : executableCandidates[e]}
HideTargets == {e \in DOMAIN executableCandidates : executableCandidates[e]}

HideSkip ==
  /\ At("hide")
  /\ HideTargets = {}
  /\ phase' = "complete"
  /\ UNCHANGED <<inputs, outcome, workflow, environment, executed, trials, loop, found,
                 pending, conclusions, limitations, world, journal>>

HideUnenforceable ==
  /\ At("hide")
  /\ HideTargets # {}
  /\ ~caps.executable_hiding
  /\ limitations' = Append(limitations, Limitation("no-hiding", HideTargets))
  /\ pending' = classify_unenforceable({Evidence(e, FALSE) : e \in HideTargets})
  /\ phase' = "complete"
  /\ UNCHANGED <<inputs, outcome, workflow, environment, executed, trials, loop, found,
                 conclusions, world, journal>>

HideBegin ==
  /\ At("hide")
  /\ HideTargets # {}
  /\ caps.executable_hiding
  /\ agenda' = HideTargets
  /\ phase' = "hide-trials"
  /\ UNCHANGED <<inputs, outcome, workflow, environment, executed, trials, results, seen,
                 dropped, found, pending, conclusions, limitations, world, journal>>

NextHideByName(e) == e \in agenda /\ \A f \in agenda : e <= f

\* Sorted by scheduling class, then by name.
NextHide(e) ==
  /\ e \in agenda
  /\ \A f \in agenda : \/ e \notin Ubiquitous /\ f \in Ubiquitous
                       \/ (e \in Ubiquitous <=> f \in Ubiquitous) /\ e <= f

HideDrop     == At("hide-trials") /\ \E e \in agenda : NextHide(e) /\ DropTarget(e)
HideTrial    == At("hide-trials") /\ \E e \in agenda :
                  NextHide(e) /\ TestTarget(e, "hide", HideExecutable(e))
HideConclude == At("hide-trials") /\ \E e \in agenda : NextHide(e) /\ ConcludeTarget(e)
HideReport   == At("hide-trials") /\ ReportDropped("budget-hide", "complete")

\* The laboratory finds out per target that it cannot hide it: the target
\* stays unresolved and the sweep goes on.
HideUnsupported ==
  /\ At("hide-trials")
  /\ results = <<>> => CanReserve
  /\ Len(results) < RunsPer
  /\ HasBudget
  /\ \E e \in agenda :
       /\ NextHide(e)
       /\ pending' = classify_unenforceable({Evidence(e, TRUE)})
       /\ agenda' = agenda \ {e}
  /\ ResetLoop
  /\ UNCHANGED <<inputs, phase, outcome, workflow, environment, executed, trials, dropped,
                 found, conclusions, limitations, world, journal>>

-----------------------------------------------------------------------------
(* World synthesis and replay.                                             *)

KeysWithTrials(necessity) ==
  {c.dependency : c \in {d \in conclusions : d.necessity = necessity /\ d.trials # {}}}
Keys(necessity) ==
  {c.dependency : c \in {d \in conclusions : d.necessity = necessity}}

SkipWorld ==
  /\ At("complete")
  /\ ~supports_experiments(baseline)
  /\ workflow' = Advance(workflow, "experiments-completed")
  /\ world' = [world EXCEPT !.status = "not-synthesized"]
  /\ phase' = "finalize"
  /\ UNCHANGED <<inputs, outcome, environment, executed, trials, loop, found, pending,
                 conclusions, limitations, journal>>

\* A replay is attempted unless policy or budget forbid it.
MayReplayUnchecked == policy.attempt_replay
MayReplay == policy.attempt_replay /\ HasBudget

\* WorldCandidate::propose, then the decision to replay.
ProposeWorld ==
  LET candidate == [status     |-> "proposed",
                    required   |-> Keys("required"),
                    optional   |-> Keys("optional"),
                    unresolved |-> Keys("unresolved")]
      proposed  == Advance(Advance(workflow, "experiments-completed"), "world-synthesized")
  IN  /\ At("complete")
      /\ supports_experiments(baseline)
      /\ world' = candidate
      /\ Journal([event |-> "world-synthesized", required |-> candidate.required,
                  optional |-> candidate.optional, unresolved |-> candidate.unresolved])
      /\ workflow' = IF MayReplay THEN proposed ELSE Advance(proposed, "replay-unavailable")
      /\ phase' = IF MayReplay THEN "replay" ELSE "finalize"
      /\ UNCHANGED <<inputs, outcome, environment, executed, trials, loop, found, pending,
                     conclusions, limitations>>

ReplayTrial ==
  /\ At("replay")
  /\ \E answer \in Answers(nature, NoTreatment) : RunTrial("replay", 0, NoTreatment, answer)
  /\ phase' = "replayed"
  /\ UNCHANGED <<inputs, outcome, workflow, environment, agenda, dropped, found, pending,
                 conclusions, limitations, world>>

CleanReplayFailing(trial) == trial.treatment = NoTreatment

\* ReplayEvidence::from_clean_replay: an untreated trial that passed.
CleanReplay(trial) == trial.treatment = NoTreatment /\ trial.outcome.passed

ConcludeReplay ==
  LET replay == trials[Len(trials)]
  IN  /\ At("replayed")
      /\ Journal([event |-> "replay-completed", passed |-> replay.outcome.passed])
      /\ world' = [world EXCEPT !.status =
                     IF CleanReplay(replay) THEN "verified" ELSE "replay-failed"]
      /\ workflow' = Advance(workflow, IF CleanReplay(replay) THEN "replay-verified"
                                       ELSE "replay-failed")
      /\ phase' = "finalize"
      /\ ResetLoop
      /\ UNCHANGED <<inputs, outcome, environment, executed, trials, agenda, dropped, found,
                     pending, conclusions, limitations>>

\* Journal the limitations, finalize, destroy the environment (best effort).
Finalize ==
  /\ At("finalize")
  /\ journal' = journal \o [i \in DOMAIN limitations |->
                              [event |-> "limitation-recorded", limitation |-> limitations[i]]]
  /\ workflow' = Advance(workflow, "finalized")
  /\ environment' \in {"destroyed", "live"}
  /\ outcome' = "reported"
  /\ phase' = "done"
  /\ UNCHANGED <<inputs, executed, trials, loop, found, pending, conclusions, limitations,
                 world>>

\* A port returned an error: `?` leaves prove() at once.  What was journaled
\* stays; nothing else is done, and lab.destroy is not called.
Abort ==
  /\ outcome = "running"
  /\ outcome' = "error"
  /\ UNCHANGED <<inputs, phase, workflow, environment, executed, trials, loop, found,
                 pending, conclusions, limitations, world, journal>>

-----------------------------------------------------------------------------
Experiment ==
  \/ ScreenSkip \/ ScreenUnenforceable \/ ScreenTrial \/ ScreenConclude
  \/ BlockDrop \/ BlockTrial \/ BlockConclude \/ BlockReport
  \/ HideSkip \/ HideUnenforceable \/ HideBegin
  \/ HideDrop \/ HideTrial \/ HideUnsupported \/ HideConclude \/ HideReport

Step ==
  \/ SelectWorkload \/ PrepareEnvironment \/ TakeSnapshot
  \/ BaselineTrial \/ AssessBaseline \/ JournalConclusion
  \/ Experiment
  \/ SkipWorld \/ ProposeWorld \/ ReplayTrial \/ ConcludeReplay \/ Finalize

Next == Step \/ Abort

Spec == Init /\ [][Next]_vars

\* prove() is a single thread that never waits for anything but its ports,
\* and every call to a port returns.
FairSpec == Spec /\ WF_vars(Step)

-----------------------------------------------------------------------------
(* Properties.                                                             *)

Phases == {"select", "prepare", "snapshot", "baseline", "screen", "isolate", "hide",
           "hide-trials", "complete", "replay", "replayed", "finalize", "done"}

World == [status : {"none", "not-synthesized", "proposed", "verified", "replay-failed"},
          required : SUBSET Dep, optional : SUBSET Dep, unresolved : SUBSET Dep]

\* The type invariant.
TypeOK ==
  /\ nature \in Natures /\ policy \in Policies /\ caps \in Capabilities
  /\ phase \in Phases
  /\ outcome \in {"running", "reported", "error"}
  /\ workflow \in AnalysisState
  /\ environment \in {"none", "live", "destroyed"}
  /\ executed \in Nat
  /\ trials \in Seq(TrialRecord)
  /\ results \in Seq(TrialRecord)
  /\ seen \in Observations
  /\ baseline \in BaselineVerdict
  /\ networkCandidates \in PartialFunctions(Net, Sighting)
  /\ executableCandidates \in PartialFunctions(Exe, BOOLEAN)
  /\ agenda \subseteq (IF phase = "isolate" THEN Net
                      ELSE IF phase = "hide-trials" THEN Exe ELSE {})
  /\ dropped \subseteq Dep
  /\ pending \subseteq Conclusion
  /\ conclusions \subseteq Classified
  /\ limitations \in Seq(LimitationRecord)
  /\ world \in World
  /\ journal \in Seq(Event)

Purposes(purpose) == {t \in Records(trials) : t.label.purpose = purpose}

Isolated == Purposes("block") \cup Purposes("hide")

\* The budget holds at every step, and isolating dependencies never costs the
\* analysis its replay: a run that isolated anything and is allowed to replay
\* ends with a replayed world (the reservation of the isolation loops).
ReplayReserved ==
  /\ executed = Len(trials) /\ executed <= policy.max_trials
  /\ outcome = "reported" /\ policy.attempt_replay /\ Isolated # {}
       => world.status \in {"verified", "replay-failed"}

\* Why ReplayReserved holds, phase by phase (its inductive strengthening):
\* while a target is under test the budget covers its remaining runs and the
\* replay, and between targets it covers the replay.
ReplayKept ==
  /\ executed = Len(trials) /\ executed <= policy.max_trials
  /\ outcome = "reported" => phase = "done"
  /\ phase \in {"select", "prepare", "snapshot", "baseline", "screen"} => Isolated = {}
  /\ phase \in {"screen", "isolate", "hide", "hide-trials"} => supports_experiments(baseline)
  /\ phase \in {"hide", "complete"} => results = <<>>
  /\ phase = "screen" /\ results # <<>> => Screened # {} /\ caps.deny_all_egress
  /\ phase \in {"isolate", "hide-trials"} /\ results # <<>> =>
       /\ agenda # {}
       /\ Len(results) <= RunsPer
       /\ executed + (RunsPer - Len(results)) + 1 <= policy.max_trials
  /\ phase \in {"isolate", "hide", "hide-trials", "complete"} /\ results = <<>> /\ Isolated # {} =>
       executed < policy.max_trials /\ supports_experiments(baseline)
  /\ phase = "replayed" => trials # <<>>
  /\ phase \in {"finalize", "done"} /\ policy.attempt_replay /\ Isolated # {} =>
       world.status \in {"verified", "replay-failed"}

\* No dependency is labelled twice, over all the steps that can label it.
OneVerdictEach ==
  /\ \A c, d \in conclusions : c.dependency = d.dependency => c = d
  /\ \A c, d \in pending : c.dependency = d.dependency => c = d
  /\ \A c \in conclusions, d \in pending : c.dependency # d.dependency

\* No treatment is applied and no causal label given on a baseline that was
\* not unanimous, however the runs interleave passes and failures.
StableBaselineGate ==
  \/ \E t \in Records(trials) : t.treatment # NoTreatment
  \/ \E c \in conclusions : c.necessity # "unresolved"
  => /\ AllPassed(Purposes("baseline"))
     /\ Purposes("baseline") # {}

Cited(c) == {t \in Records(trials) : t.label \in c.trials}

\* A required label rests on enforced, failing, agreeing trials of a treatment
\* that took this dependency away.
RequiredIsEarned ==
  \A c \in conclusions : c.necessity = "required" =>
    /\ Cited(c) # {} /\ AllFailed(Cited(c)) /\ SignaturesCompatible(Cited(c))
    /\ \A t \in Cited(c) :
         /\ t.enforcement = "enforced"
         /\ \/ t.treatment = DenyAllEgress /\ c.dependency \in Net
            \/ t.treatment \in {BlockDependency(c.dependency), HideExecutable(c.dependency)}

\* An optional label rests on passing trials: enforced ones of such a
\* treatment, or the whole baseline of a dependency that was out of reach.
OptionalIsEarned ==
  \A c \in conclusions : c.necessity = "optional" =>
    /\ Cited(c) # {} /\ AllPassed(Cited(c))
    /\ \/ \A t \in Cited(c) :
            /\ t.enforcement = "enforced"
            /\ \/ t.treatment = DenyAllEgress /\ c.dependency \in Net
               \/ t.treatment \in {BlockDependency(c.dependency), HideExecutable(c.dependency)}
       \/ /\ Cited(c) = Purposes("baseline")
          /\ \/ c.dependency \in DOMAIN networkCandidates
                  /\ networkCandidates[c.dependency].allFailed
             \/ c.dependency \in DOMAIN executableCandidates
                  /\ ~executableCandidates[c.dependency]

\* What a causal label has behind it, whichever of the five steps gave it.
LabelsAreEarned == StableBaselineGate /\ RequiredIsEarned /\ OptionalIsEarned

\* Every label can be followed back: its evidence id is the journal event
\* that classified it, and every trial it cites was journaled before.
Provenance ==
  \A c \in conclusions :
    /\ c.evidence \in DOMAIN journal
    /\ journal[c.evidence].event = "dependency-classified"
    /\ journal[c.evidence].conclusion.dependency = c.dependency
    /\ journal[c.evidence].conclusion.necessity = c.necessity
    /\ \A label \in c.trials : \E i \in 1..(c.evidence - 1) :
         journal[i].event = "trial-completed" /\ journal[i].label = label

\* The trail from the labels to the trials is single and complete.
TrailHolds == OneVerdictEach /\ Provenance

\* A verified world was frozen before the one clean replay that verified it,
\* and that replay is the last trial of the analysis.
VerifiedMeansReplayed ==
  world.status = "verified" =>
    /\ trials[Len(trials)].label.purpose = "replay"
    /\ trials[Len(trials)].treatment = NoTreatment
    /\ trials[Len(trials)].outcome.passed
    /\ \E i, j, k \in DOMAIN journal :
         /\ i < j /\ j < k
         /\ journal[i].event = "world-synthesized"
         /\ journal[i].required = Keys("required")
         /\ journal[j].event = "trial-completed" /\ journal[j].label.purpose = "replay"
         /\ journal[k].event = "replay-completed" /\ journal[k].passed

\* No advance of the workflow is ever refused: each phase finds it in the
\* state the code expects there.
WorkflowFollows ==
  workflow = CASE phase = "select" -> "created"
               [] phase = "prepare" -> "inspected"
               [] phase \in {"snapshot", "baseline"} -> "provisioned"
               [] phase \in {"screen", "isolate", "hide", "hide-trials", "complete"}
                    -> "candidates-observed"
               [] phase \in {"replay", "replayed"} -> "world-synthesized"
               [] phase = "finalize" -> (CASE world.status = "not-synthesized" -> "experiments-completed"
                                           [] world.status = "proposed" -> "replay-unavailable"
                                           [] world.status = "verified" -> "replay-verified"
                                           [] OTHER -> "replay-failed")
               [] OTHER -> "finalized"

\* The workflow, the journal and the world agree about where the analysis is and
\* how its world was verified.
RecordsAgree == WorkflowFollows /\ VerifiedMeansReplayed

\* The budget goes to project tooling first: when a ubiquitous utility was
\* tested, no project tool was dropped for lack of budget.
ToolingFirst ==
  \A t \in Purposes("hide") : t.label.key \in Ubiquitous =>
    \A i \in DOMAIN limitations :
      limitations[i].limitation = "budget-hide" => limitations[i].about \subseteq Ubiquitous

\* Every analysis comes to an end.
Termination == <>(outcome # "running")

\* The refinement mapping to Analysis.
LabelOf(d) ==
  IF \E c \in conclusions : c.dependency = d
  THEN (CHOOSE c \in conclusions : c.dependency = d).necessity
  ELSE "none"

MemberOf(d) ==
  IF d \in world.required THEN "required"
  ELSE IF d \in world.optional THEN "optional"
  ELSE IF d \in world.unresolved THEN "unresolved" ELSE "none"

Promise == INSTANCE Analysis WITH
  verdict <- IF phase \in {"select", "prepare", "snapshot", "baseline"} THEN "none" ELSE baseline,
  label   <- [d \in Dep |-> LabelOf(d)],
  status  <- world.status,
  members <- [d \in Dep |-> MemberOf(d)]

\* prove() keeps the promise of Analysis.
KeepsPromise == Promise!Spec

-----------------------------------------------------------------------------
(* What the documentation says and the code does not do.                   *)

Candidates == DOMAIN networkCandidates \cup DOMAIN executableCandidates

\* "Dependencies that stayed unresolved (visible, never hidden)": every
\* candidate of a finished analysis has a label.
NoCandidateForgotten ==
  outcome = "reported" => \A d \in Candidates : LabelOf(d) # "none"

=============================================================================
