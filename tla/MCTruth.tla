------------------------------ MODULE MCTruth ------------------------------
(* ProveTruth for every workload of at most two needs from the list below. *)
EXTENDS ProveTruth, FiniteSetsExt

\* Services 1 and 2, a project tool 12 and a ubiquitous utility 11, each
\* needed alone or standing in for another of its kind.
Needs == {<<1>>, <<2>>, <<1, 2>>, <<2, 1>>, <<11>>, <<12>>, <<11, 12>>, <<1, 12>>}

MCNatures == [needs   : UNION {kSubset(k, Needs) : k \in 0..2},
              probes  : {{}, {2, 11}},
              up      : {Dep, Dep \ {2}, Dep \ {12}},
              refused : {{}, {2}}]

MCPolicies == {[baseline_runs |-> 2, confirmation_runs |-> 1, max_trials |-> 13,
                attempt_replay |-> TRUE],
               [baseline_runs |-> 1, confirmation_runs |-> 0, max_trials |-> 4,
                attempt_replay |-> TRUE]}

MCCapabilities == {[deny_all_egress |-> TRUE, per_dependency_egress |-> p,
                    executable_hiding |-> TRUE] : p \in BOOLEAN}

\* Workloads that fail fail alike: of the symptoms of Signature only the timeout.
MCAnswers(n, t) == {a \in TruthfulAnswers(n, t) : a.outcome.signature \in {"timeout", NoSignature}}
=============================================================================
