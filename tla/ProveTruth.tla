----------------------------- MODULE ProveTruth -----------------------------
(***************************************************************************)
(* What the labels of prove() are worth: Prove with a laboratory that      *)
(* enforces every treatment and reports every run as it went, and a        *)
(* workload whose needs are known.                                         *)
(*                                                                         *)
(* A need is a list of interchangeable dependencies: the workload tries    *)
(* them in order and is served by the first that is available; it passes   *)
(* when every need is served.  It also probes dependencies it can do       *)
(* without.  This is the laboratory of the truth fixtures                  *)
(* (ovid-testkit), with the scripts derived from the needs.                *)
(***************************************************************************)
EXTENDS Prove

\* A workload in its environment: a member of Natures.
Workload == [needs : SUBSET Seq(Dep), probes : SUBSET Dep,
             up : SUBSET Dep,        \* what the environment offers
             refused : SUBSET Net]   \* what its gateway refuses in every run

Passes(n, available) ==
  \A need \in n.needs : \E i \in DOMAIN need : need[i] \in available

Tried(n, available) ==
  n.probes \cup UNION {{need[i] : i \in {j \in DOMAIN need :
                                          \A h \in 1..(j - 1) : need[h] \notin available}} :
                         need \in n.needs}

\* What a treatment takes away.
Removed(t) == IF t.kind = "none" THEN {}
              ELSE IF t.kind = "deny-all-egress" THEN Net ELSE {t.key}

Available(n, t) == (n.up \ n.refused) \ Removed(t)

\* One run, reported truthfully.
TruthfulAnswers(n, t) ==
  LET available == Available(n, t)
      tried     == Tried(n, available)
      failed    == {s \in TrialOutcome : ~s.passed /\ s.signature # NoSignature}
      ended     == IF Passes(n, available) THEN {[passed |-> TRUE, signature |-> NoSignature]}
                   ELSE failed
  IN  {[enforcement  |-> "enforced",
        outcome      |-> o,
        observations |->
          [network     |-> [d \in tried \cap Net |->
                              [external  |-> TRUE,
                               allFailed |-> d \notin available,
                               enforced  |-> d \in n.refused]],
           executables |-> [e \in tried \cap Exe |-> e \in available],
           observed    |-> TRUE]] : o \in ended}

-----------------------------------------------------------------------------
(* Properties.                                                             *)

Undisturbed == Available(nature, NoTreatment)

PassesWithout(d) == Passes(nature, Undisturbed \ {d})

\* A workload that is served without looking further never shows the services
\* it would fall back on.
Unseen == {d \in Net \cap Undisturbed : d \notin Tried(nature, Undisturbed)}

\* A required label is true: without the dependency the workload fails.  The
\* group screen cannot tell the only service it saw from fallbacks it did not
\* see: there the label is promised only of workloads without hidden services.
RequiredIsTrue ==
  \A c \in conclusions : c.necessity = "required" =>
    \/ ~PassesWithout(c.dependency)
    \/ /\ \A t \in Cited(c) : t.treatment = DenyAllEgress
       /\ ~Passes(nature, Undisturbed \ Net)
       /\ \E d \in Unseen : \E need \in nature.needs : \E i \in DOMAIN need : need[i] = d

\* An optional label is true: the workload passes without the dependency,
\* whichever of the four rules gave the label.
OptionalIsTrue ==
  \A c \in conclusions : c.necessity = "optional" => PassesWithout(c.dependency)

\* Causal labels are true of the workload.
LabelsAreTrue == RequiredIsTrue /\ OptionalIsTrue

BudgetSufficed ==
  \A i \in DOMAIN limitations :
    limitations[i].limitation \notin {"budget-baseline", "budget-intervention",
                                      "budget-isolation", "budget-hide"}

AbleLaboratory ==
  caps.deny_all_egress /\ caps.per_dependency_egress /\ caps.executable_hiding

\* Nothing is given up needlessly: with an able laboratory and a budget that
\* was not hit every candidate of a stable workload gets a causal label, save
\* an executable whose hide trials the laboratory would not run.
EverythingDecided ==
  outcome = "reported" /\ supports_experiments(baseline) /\ AbleLaboratory /\ BudgetSufficed =>
    \A d \in Candidates :
      \/ LabelOf(d) \in {"required", "optional"}
      \/ /\ d \in Exe
         /\ ~ \E t \in Purposes("hide") : t.label.key = d /\ t.label.run = RunsPer

\* Without substitutes the verified world is sufficient: when no need has two
\* candidates and nothing stayed unresolved, the workload passes in a world
\* that offers only the required dependencies.
RequiredSuffices ==
  /\ world.status = "verified"
  /\ \A need \in nature.needs : Len(need) = 1
  /\ \A c \in conclusions : c.necessity # "unresolved"
  => Passes(nature, world.required)
=============================================================================
