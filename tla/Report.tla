-------------------------------- MODULE Report --------------------------------
(***************************************************************************)
(* What a finished analysis is turned into (crates/ovid-cli prove_cmd.rs:     *)
(* write_bundle, manifest_from_report, exit_code; the read-first summary and   *)
(* the manifest status: ovid-output manifest.rs; the lock: ovid-world lib.rs).  *)
(* These are projections of the report, each computed on its own from another   *)
(* part of it; the order in which the files are written is in Bundle.          *)
(*                                                                         *)
(* Networks are external systems, executables are tools.  Reasons, wording,     *)
(* digests and the compose file are left out.                                *)
(* Seeded mistake: ShowAbsence.                                              *)
(***************************************************************************)
EXTENDS Prove

Finished == outcome = "reported"

With(necessity) == {c \in conclusions : c.necessity = necessity}

(***************************************************************************)
(* manifest_from_report                                                     *)
(***************************************************************************)
ConclusionFor(d) == {c \in conclusions : c.dependency = d}

ShowAbsence(d) == IF ConclusionFor(d) = {} THEN "optional" ELSE LabelOf(d)
\* A candidate that nothing concluded about is shown as unresolved.
causality_of(d) == IF ConclusionFor(d) = {} THEN "unresolved" ELSE LabelOf(d)

external_systems ==
  {[id |-> n, causality |-> causality_of(n), evidence |-> {c.evidence : c \in ConclusionFor(n)}] :
     n \in DOMAIN networkCandidates}
tools ==
  {[id |-> e, causality |-> causality_of(e), found |-> executableCandidates[e]] :
     e \in DOMAIN executableCandidates}

workload_status == IF supports_experiments(baseline) THEN "passed" ELSE "failed"

\* UnresolvedItem, WorldDependencySummary
unresolved_items   == {[id |-> c.dependency, evidence |-> c.evidence] : c \in With("unresolved")}
world_dependencies == {c.dependency : c \in With("required")}

manifest_status == IF unresolved_items = {} THEN "complete" ELSE "complete-with-unresolved"

(***************************************************************************)
(* write_bundle: the claims, and the lock of the world as it was proposed.    *)
(***************************************************************************)
ClaimOf(c) ==
  [predicate |-> IF c.necessity = "required" THEN "requires" ELSE "optionally-uses",
   object |-> c.dependency, supports |-> {c.evidence}]
claims == {ClaimOf(c) : c \in With("required") \cup With("optional")}

HasLock == world.status \in {"proposed", "replay-failed", "verified"}

\* What the lock holds: required executables as tools, required services as
\* cells.  from_world starts none of the cells and keeps them visible.
LockHolds == world.required
lock == [tools |-> LockHolds \cap Exe, cells |-> LockHolds \cap Net, status |-> world.status]

(***************************************************************************)
(* build_summary                                                            *)
(***************************************************************************)
Findings ==
  {<<"workload-failed", 0>> : w \in {x \in {workload_status} : x = "failed"}}
    \cup {<<"required-external-dependency", s.id>> : s \in {x \in external_systems : x.causality = "required"}}
    \cup {<<"tool-unresolved", t.id>> : t \in {x \in tools : x.causality = "unresolved"}}

NothingUnresolved == workload_status = "passed" /\ unresolved_items = {}

exit_code == IF supports_experiments(baseline) /\ world.status # "replay-failed" THEN 0 ELSE 20

(***************************************************************************)
(* Properties.                                                              *)
(***************************************************************************)
Claimed(predicate) == {c.object : c \in {d \in claims : d.predicate = predicate}}
Entries == {<<s.id, s.causality>> : s \in external_systems} \cup {<<t.id, t.causality>> : t \in tools}
Shown(causality) == {e[1] : e \in {x \in Entries : x[2] = causality}}

\* The manifest, the claims and the lock tell the same story although each is
\* made from another part of the report, the lock from the world as it was
\* frozen before the replay: what one calls required (or optional) the others do,
\* and each claim stands on the journal event that classified its object.
ProjectionsAgree ==
  Finished =>
    /\ Shown("required") = Claimed("requires") /\ Claimed("requires") = world_dependencies
    /\ Shown("optional") = Claimed("optionally-uses")
    /\ HasLock => lock.tools \cup lock.cells = world_dependencies
    /\ ~HasLock => claims = {}
    /\ \A c \in claims : \A e \in c.supports :
         journal[e].event = "dependency-classified" /\ journal[e].conclusion.dependency = c.object

\* Nothing the observer met is shown as settled without a claim, and what has a
\* claim is not listed as unresolved; the tools called unresolved in the summary
\* are those without a claim.
NothingSettledUnclaimed ==
  Finished =>
    LET settled == {c.object : c \in claims} IN
    /\ Candidates \ settled = Shown("unresolved")
    /\ {u.id : u \in unresolved_items} \cap settled = {}
    /\ {u.id : u \in unresolved_items} \subseteq Candidates
    /\ {f[2] : f \in {g \in Findings : g[1] = "tool-unresolved"}} = DOMAIN executableCandidates \ settled
    /\ manifest_status = "complete" =>
         \A c \in conclusions : c.necessity # "unresolved"

\* The exit code agrees with the bundle: 0 says that the workload passed every
\* baseline run and that there is a lock whose replay did not fail.
ExitAgrees ==
  Finished =>
    /\ exit_code = 0 <=> HasLock /\ lock.status # "replay-failed"
    /\ exit_code = 0 => AllPassed(Purposes("baseline")) /\ <<"workload-failed", 0>> \notin Findings
    /\ workload_status = "passed" <=> HasLock

\* Manifest, claims, lock, summary and exit code are five accounts of one report.
BundleAgrees == ProjectionsAgree /\ NothingSettledUnclaimed /\ ExitAgrees
=============================================================================
