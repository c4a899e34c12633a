# Ovid: verification project

Ovid decides by experiment which dependencies a workload needs: it runs the workload in a
laboratory, takes dependencies away, classifies what happened, synthesizes a minimal world and
replays it. This directory holds TLA+ models of that loop, of the laboratory and the observer under
it, of the bundle it leaves on disk and of the static inspection and planning before it, the TLC
configurations that check them on small instances, and theorems about them checked by TLAPS.
Paths below are relative to `src/crates/`.

    cd tla
    tlc -config MCProve.cfg MCProve      # any of the configurations below
    tlapm ProveProofs.tla                # any of the *Proofs modules

## 1. Inventory

| Component | State | Operations | Hard behaviour | What makes it correct |
|---|---|---|---|---|
| prove use case (`ovid-application/prove.rs`) | the report under construction: trials, merged candidates, conclusions, limitations, world; the trial count | one pass: baseline, counterfactuals, deny-all screen, block isolation, hide sweep, synthesis, replay, finalize | a budget that may end in any of five loops; the reservation of the replay; a port that fails at any call; labels given in four places | no label without its evidence, none given twice, replay never starved, trail from label to trial |
| workflow (`ovid-application/workflow.rs`) | one `AnalysisState` | `advance` | an illegal advance is refused silently in a release build | no path of prove() ever makes one |
| ports (`ovid-application/ports.rs`) | the observations of one loop | `merge` | merging keeps "all failed" and "enforced" over runs | nothing a run saw is lost |
| classifier (`ovid-domain/classify.rs`) | none (pure) | four classification rules | partial enforcement, unequal signatures, several candidates gone at once | one intervention blames at most one dependency |
| baseline (`ovid-domain/baseline.rs`) | none (pure) | `assess_baseline` | passes and failures in turn | only unanimity supports experiments |
| world (`ovid-domain/world.rs`) | candidate, proposal, verification | `freeze`, `verify` | promoted only by its own replay | verified means replayed afterwards |
| gateway (`ovid-gateway/proxy.rs`) | policy, backlog, one thread per connection, sequence counter, log, stop flag | accept, handle, record, shutdown, serve until killed | detached handlers, two-step record, shutdown blocked in accept, kill inside the namespace | a request answered and not in the log is one still in its tunnel or being recorded; no number is lost |
| host laboratory (`ovid-cli/lab.rs`) | a workspace snapshot; per trial: posture, gateway, observations | `prepare`, `snapshot`, `run_trial`, `destroy` | what a treatment really enforces on this host; intents merged with traced connects | reported enforcement of denials is true, and availability as far as the two observers can tell |
| supervisor (`ovid-sandbox/process.rs`) | child, deadline, reader threads | `run` | exit between poll and kill, descendants outside the group, pipes held open | a returned run is quiet, a passed run was never cut short |
| guest VM (`ovid-sandbox/microsandbox.rs`) | external VM command | `run` | as the supervisor, with a grace period | as the supervisor |
| observer (`ovid-observer`) | tables by process and descriptor, pending interrupted calls, DNS names | one pass over a trace | calls of several processes interleave; descriptors are reused | every connect is told once, of its own process, with its own address; a name comes from the resolver last named on the descriptor |
| evidence ledger (`ovid-evidence/ledger.rs`) | a hash-chained file; per handle the head and an index in memory | `open`, `append`, `verify_chain` | torn last line, a short write, two openers | the chain on disk verifies and the next command can go on |
| claims (`ovid-evidence/claim.rs`) | claims by id, one file | `open`, `upsert`, `save`, `explain` | lost updates, claims without their evidence | a saved claim has its evidence in the ledger |
| proof bundle and replay (`ovid-cli/prove_cmd.rs`, `ovid-output/manifest.rs`, `ovid-world`) | proof, claims, lock, manifest and ledger in one directory | `run_prove`, `write_bundle`, `run_replay` | a kill between two files or inside one, a bundle used again, a replay at another revision | files of one bundle speak of one analysis; a verified lock was earned |
| fixture laboratory (`ovid-testkit`) | scripts by treatment | as the laboratory | none | the tests' truth cases |
| network analysis (`ovid-gateway/analysis.rs`, `ovid-observer/aggregate.rs`) | none (pure) | aggregation, grouping connects by name | dropped repetitions, several names of one address | destinations are those of the whole trace |
| static inspection (`ovid-cli/inspect_cmd.rs`, `ovid-inventory`) | systems, claims and unresolved items under construction | scan packages, services and endpoints, absorb one by one, summarize | the order of files and declarations, a limit on endpoints, names bound at run time | nothing declared is lost, nothing unknown is asserted |
| workload planner (`ovid-planner`, `ovid-packs/registry.rs`) | a list of mined actions | mine, score, deduplicate, link prerequisites, choose | ties, several miners finding one command | what is run is the best that was found, after its install |
| scope, repository, remaining outputs, remaining core | immutable values and text | copying, rendering | none of the kind modelled here | - |

Interaction. The CLI builds the laboratory and calls `prove()`, one thread, which calls the
laboratory and the journal through ports. A trial of the host laboratory starts a gateway (a
server in Ovid's process, or, when the trial runs in its own network namespace, a process in that
namespace), runs the workload under the supervisor and strace, stops the gateway, reads the log of
intents and the trace back, and merges them into the observations that `prove()` classifies. The
journal goes to the ledger; the report becomes proof, claims, lock and manifest in one bundle
directory, and later commands (inspect, replay, explain, another prove) open the same directory,
nothing keeping two of them apart.

The hazards, each at its line and with the properties aimed at it, are listed in `PROJECT.json`.

## 2. Modules and the code

A definition placed before the one it resembles (`CanReserveNoReplay` before `CanReserve`,
`WakeNobody` before `Wake`) is a seeded mistake. No specification uses it; `PROJECT.json` pairs it
with the property that rejects it when it takes the place of the real one, so that each property is
known to depend on the code it speaks of.

| Module | Models | Notes |
|---|---|---|
| `Classify` | `classify.rs`, `trial.rs`, `dependency.rs`, `baseline.rs`, the records and `merge` of `ports.rs` | pure operators; reason texts are left out, dependency keys are numbers, because the code's maps are ordered |
| `Prove` EXTENDS `Classify` | `prove.rs`, `workflow.rs`, `world.rs` | one action per call to the laboratory with all the code does until the next; `JournalConclusion` is one append |
| `Analysis` | nothing in the code | the abstract promise (below) |
| `ProveTruth` EXTENDS `Prove` | `Prove` against a laboratory that tells the truth (`ovid-testkit`) | needs of the workload become answers |
| `Intervention` EXTENDS `Classify` | the evidence of one group intervention, run by run | the rules applied after every run, to state what one more run may do |
| `Supervisor` | `ProcessBackend::run` | process tree external and arbitrary |
| `Gateway` | `proxy.rs` | clients and destinations external |
| `Trial` EXTENDS `Gateway` | `run_trial`, `execute`, `merge_intent_candidates` of `lab.rs` | composes laboratory and gateway |
| `Report` EXTENDS `Prove` | `manifest_from_report`, `write_bundle`, `exit_code` of `prove_cmd.rs`, `build_summary`, `WorldLock::from_world` | what each file says, as operators on the state of `Prove` |
| `Observer` | `strace.rs`, `dns.rs`, the events of `event.rs` | tasks, the kernel and strace external; one action per line of the trace |
| `Observations` EXTENDS `Observer` | `aggregate.rs`, `analysis.rs`, executable candidates and `build_shim_path` of `lab.rs` | pure operators on the events; one action builds the shim |
| `Ledger` | `ledger.rs` | no next-state relation of its own: the steps of a handle |
| `Bundle` EXTENDS `Ledger` | `prove_cmd.rs`, `inspect_cmd.rs`, `claim.rs` write by write | commands in any overlap, kills and errors at any step |
| `Order` | what the code's sorted maps and sorts give | the least of a set of numbers; a set in a strict order, each member at the place its predecessors leave it |
| `Endpoints` EXTENDS `Order` | `endpoints.rs`, `compose.rs` | operators over mappings, lines and reads; a merge is stated by the places of its members |
| `Inventory` EXTENDS `Order` | `ovid-inventory/lib.rs` and the seven scanners | what a section of a manifest declares is a table |
| `Inspect` EXTENDS `Endpoints`, `Inventory` | `run_inspect` | one action per declaration absorbed |
| `Planner` EXTENDS `Order` | `ovid-planner`, `detect_runners`, the choice in `run_prove` | one action per mined line; a line is its traits |
| `ProveProofs`, `PromiseProofs`, `InterventionProofs`, `SupervisorProofs`, `TrialProofs`, `ObserverProofs`, `BundleProofs`, `InspectProofs` | theorems | section 6 |
| `MC*` | instances for TLC | section 4 |

*Prove.* `phase` says which statement of `prove()` is next; `results` and `seen` are the locals of
the current trial loop, `agenda` and `dropped` the targets of the isolation loops, `pending` the
fresh conclusions not yet journaled; the other variables are fields of the report or of the ports.
The laboratory is the constant operator `Answers(nature, treatment)`; `Abort` is the `?` after any
port call. Progress messages, timings, reason texts and the egress-observed event are left out.

*Analysis* is what a caller may rely on: one judgement of the baseline; at most one label per
dependency, none before the judgement and no causal one unless the baseline is stably passing; the
world is frozen from exactly the labels given so far, no label follows, and the world is promoted or
failed at most once. `Prove` implements it through the mapping `Promise` (`KeepsPromise`).

*Gateway and Trial.* `conn[c]` is a handler thread and what came of its connection. `record` is the
two steps `TakeTicket` (the atomic counter) and `WriteLine` (under the log's lock); a refusal or a
failure is recorded and then answered (`Answer`), a tunnel is announced first (the 200 of `Forward`, or
what the far side says, `Relay`) and recorded when it closes (`CloseTunnel`). `ForwardFails` may come
before or after contact. `Wake` is
shutdown's own connection, `StopAccepting` the accept loop noticing the flag, `EndRun` either the
call of `shutdown()` or the death of a gateway in a namespace with its process. `Trial` adds the
posture of the treatment, direct connections that bypass the proxy variables, with what strace may print
of them (an errno, a success on a stream or on a datagram socket, in progress, or `?`) and whether they
reached anything, which only the first two settle; and the observations:
`attempts`, `failures`, `all_failed` and `enforced_unavailable` are the fields of the merged
candidates. Names and bytes are abstracted to destinations, each a host and a port.

*Supervisor.* One variable per fact about a process (alive, in the child's group, holding an output
pipe, wait status). `StillRunning`, `Sleep` and `Kill` split one round of the poll loop at the points
where the tree may move; `Collect` is the join of the reader threads. `launched` says that strace or
the wrapper script of a network namespace stands in front of the workload.

*Observer and Observations.* `done` is the history of the calls as they ended, `report` what the parser
made of their lines; a line has a head and a tail, and strace may print them apart. `unfinished`,
`bound`, `dnsPeers` and `executables` are the parser's tables, with the code's keys. The parser reads a
finished file; reading each line as it is written is the same pass. `Kept` is what aggregation
leaves of the events, `Whole` all of them; every operator of the network analysis takes one of the
two, which is how the run compares them. `shim` is the directory of links a hide trial puts first on
`PATH`.

*Ledger and Bundle.* A record is written in two writes, as `writeln!` does; `handle[c].owing` stands
between them. A file of the bundle is emptied (`Torn`) and then filled, as `fs::write` does. A command
is its kind, its place, and what it holds in memory; `Stop` is a kill or an error return at any place.
`replayed`, `locked`, `saved`, `alone` and `cut` are history. `NextId` makes ids unique; the code's ids (a
millisecond and a counter) are unique within a process only.

*Inspect, Endpoints, Inventory.* A file of the repository is what the scanners see in it: mappings of a
configuration, lines of an environment file, reads of a variable in source, compose services, packages
by section. Hosts, variables and packages are numbers and names; what a key or a value looks like is a field of the entry.
`ledger`, `claims`, `systems`, `unresolved` and `summary` are those of the code.

*Planner.* A command is what the code's text tests say of it (`Trait`): verbs, suites, whether it is
dangerous, a builtin, or launches a script of the repository. Confidences are hundredths.

## 3. Plan

Order: first the loop that gives the labels, because a wrong label is the worst this program can do;
then what a single trial rests on; then what is kept on disk; then what comes before any run.

1. Done: `Classify`, `Prove`, `Analysis`, `ProveTruth`, `Intervention` and their theorems.
2. Done: `Supervisor`, `Gateway`, `Trial`, and their theorems.
3. Done: `Ledger`, `Bundle`, `Report`.
4. Done: `Observer`, `Observations`.
5. Done: `Planner`, `Endpoints`, `Inventory`, `Inspect`.
6. Done: the theorems of section 6: every safety and action property of every passing run, and the
   refinement `KeepsPromise`.
7. Left to TLC: the liveness properties `Termination`, `ReturnsWhenContained` and `ShutdownReturns`.

## 4. Runs

Passing runs:

| Run | Question | Result |
|---|---|---|
| `prove` | What can prove() do when a laboratory answers treated trials in any way and any port call may fail? | It stays in budget and replays what it may (`ReplayReserved`), labels nothing before a unanimous baseline or on weaker trials than the rules ask for (`LabelsAreEarned`), labels nothing twice and leads each label back to journaled trials (`TrailHolds`); no workflow advance is refused and a verified world was frozen before its replay (`RecordsAgree`); the sweep tests project tools first (`ToolingFirst`); manifest, claims, lock, summary and exit code tell one story (`BundleAgrees`); it implements `Analysis` (`KeepsPromise`) and ends (`Termination`). |
| `laboratory`, supervisor | Against any process tree, what holds when `run` returns? | Nobody writes any more and a killed group is gone (`QuietAfterRun`); a run that passed ended by itself even if the deadline raced it (`PassedMeansFinished`); a traced run whose processes stay in their group returns (`ReturnsWhenContained`). |
| `laboratory`, trial | Are the observations and the enforcement of a trial true in any interleaving of clients, handlers and shutdown? | Sequence numbers are accounted for (`SeqAccounted`). A request that was answered is read back with the decision behind the answer, save one told yes whose handler is in its tunnel or recording (`AnswersAreAccounted`; `unrecorded` shows that one). An enforced denial contacts nothing (`DenialHolds`). A candidate called enforced was only refused; one called available has an attempt behind it that made contact, entered the host's proxy, or left nothing to tell by (a datagram, `?`); one called unavailable was reached only by what neither observer can see: a connect in progress, a forward that failed after contact, a connection not yet recorded (`SightingsAreTrue`). Shutdown returns (`ShutdownReturns`). |
| `observer` | Is a trace of interleaved, interrupted and reused calls read as what happened? | The connects told are those that ended, in order, with their own task and address, and with their own result where strace could tell it; events carry the program their task ran; a name was in a datagram whose line states a resolver, or whose descriptor last named that one (`EventsAreTrue`). Aggregation changes no destination and no verdict, and one address has one name (`DestinationsAreFaithful`); executables reported found or missing were (`CandidatesAreTrue`); the shim hides its tool, resolves another to what `PATH` would or not at all, and does resolve one whose first file can be run (`ShimHidesOne`). |
| `bundle` | What is in a bundle that commands wrote, killed or failing anywhere, alone or beside each other? | Alone, and unless stopped inside an append, the chain verifies and the next command continues it (`ChainHolds`); a manifest that can be read seals a complete bundle of one analysis (`ManifestSeals`); in any overlap a saved claim has its evidence, and alone none is lost (`ClaimsHold`); a verified lock was earned by a replay (`LockEarned`). |
| `findings`, intervention | What may the evidence of one intervention do to a label, run by run? | Merging is exact (`MergeIsExact`), at most one is blamed and every run covers the blame (`BlameIsCovered`), one more run never reverses a label (`NeverReversed`). |
| `findings`, labels | Are the labels true when the laboratory is? | Yes: a required dependency cannot be done without, with the screen's blind spot spelled out, and an optional one can (`LabelsAreTrue`); nothing is left open without a reason (`EverythingDecided`), and without substitutes the required set suffices (`RequiredSuffices`). |
| `findings`, inspection and plan | Whatever a repository declares, in whatever order, does the manifest say it, and does the plan run the best of it? | Every name is one system with evidence (`NothingLost`); what is bound at run time stays unresolved to the end (`UnknownIsFlagged`); details and credentials were declared of that name (`DetailsAreDeclared`); a variable only read in source stays a proposal (`ProposalsStayProposals`); packages agree with the files that name them (`InventoryAgrees`); the plan keeps the best of equal commands with prerequisites that exist (`GraphIsSound`) and runs the best offer (`RunsTheBest`). |

`laboratory` and `findings` each check several models that share no state, in one run of TLC: a
behaviour is of one of them (the variables `side` and `of`), and the others stay in an initial state. That is a
disjoint sum of the instances, not a composition; what each model says it says alone. The models that
do interact are composed where the code composes them: `Trial` with `Gateway`, `Observations` with
`Observer`, `Bundle` with `Ledger`, `Report` and `ProveTruth` with `Prove`.

Runs that show where the documentation and the code disagree; each is a finding in `PROJECT.json`
with the sentence it contradicts:

| Run | What TLC finds |
|---|---|
| `forgotten` | A service that got through under the screen, while two others did not, is labelled nowhere: it is in none of the world's lists. |
| `stalelock` | A bundle proved again without a world keeps the lock of the earlier analysis; a replay of the new proof marks that lock verified. |
| `deadline` | A descendant outside the group (or a background child of an untraced command) keeps a pipe open; past the deadline `run` waits for it without limit. |
| `held` | A block trial is reported as enforced although only proxy variables enforce it: a direct socket reaches the blocked service. |
| `unrecorded` | A client is told 200 and its destination is reached while its handler has recorded nothing; the laboratory reads the log, and no intent names the request ("records every request as an intent"). |
| `guessed` | A connect strace printed with `= ?` is told as a success, and one in progress with an errno that counts as a failure, where the event's comment says that such a result is absent. |
| `shadowed` | A file that cannot be run stands first on `PATH`, the runnable tool behind it: `PATH` runs the tool, the shim does not resolve it ("everything else resolves exactly once"). |

Bounds, and why they are enough:

- `prove`: three services, a project tool and a ubiquitous utility. The screen needs two services
  that changed and one that did not for the isolation branch to leave anyone out; the sweep needs one
  executable of each kind. Six policies end the budget in the baseline, in the screen, in isolation and
  nowhere, with and without confirmation and replay; three laboratories are the ones the code can
  report. Baselines may pass, fail, alternate, or show nothing. 282,720 states.
- `laboratory`, 1,146,924 states. Supervisor: a launcher, the workload's first process and two more, one that
  leaves the group and one that stays, at once. A process is born once, so the tree is finite; `deadline`
  needs only one of them. Trial: two connections (an attempt and its retry, or one answered while the other
  is still in its tunnel), three destinations, two of them ports of one host (a block covers the bare host).
  Connections open once. The two connections play the same part, so of two mirrored choices of their
  destinations one is taken.
- `observer`, 597,481 states: two tasks are what it takes to interleave, four lines to interrupt a call, make
  another and resume, or to use a descriptor again. Three workloads (network, tools, server) keep the kinds of
  call apart; two bin directories and four file systems put a tool in one, both or none, and a file that cannot
  be run before one that can. `guessed` and `shadowed` are found in the same instance.
- `bundle`, 2,198,346 states: three commands of four kinds, two of them at once at any place, and one commit: a
  prove, a second prove and a replay is what a stale lock takes, and an overlap of two shows what an overlap
  does. `stalelock` needs no overlap.
- `findings`, 596,415 states. Intervention: two baseline and `MaxRuns` = 2 variant runs, two services: a label is
  compared before and after a run, and blame needs a second service to move to. Labels: two services and two
  executables, every workload of at most two needs out of eight (single, substitutes in both orders, across
  kinds), with services down or refused by the gateway, failing with one signature; two dependencies are what it
  takes for a fallback and for a substitute. Inspection: up to three files out of fifteen (five configurations,
  two sources, two compose files, six manifests of two ecosystems), with the limit on endpoints at five and on
  source finds at two so that both are met; plan: seven commands, three mined at a time.

`CHECK_DEADLOCK FALSE` stands in every configuration because these systems stop: the analysis is
reported, the run has returned, the trial's log was read, the commands are over.

## 5. Fairness

- `Prove`: weak fairness of `Step`. `prove()` is one thread without locks, and every port call returns:
  the supervisor's limits are what makes that so, and `deadline` shows where they do not.
- `Supervisor`: weak fairness of the supervisor's thread and of the passing of time. The process tree
  owes nothing: it may hang, leave or never end.
- `Gateway`, `Trial`: weak fairness of the accept loop and of the laboratory's thread in `shutdown`.
  Clients and destinations owe nothing, and neither do handlers, which may sit in a tunnel for ever.

## 6. Proofs

A theorem holds for every value of the constants (any dependencies, budgets and laboratories, any process
trees, connections, tasks and commands) that satisfies the assumptions the modules name:

- `KeyAssumption`, `SignatureAssumption` (keys of services and executables are disjoint, no signature is the
  absent one), `PolicyAssumption`, `CapabilityAssumption`, `UbiquitousAssumption`, `AnswersAssumption`,
  `MaxRunsAssumption`, `SightingsAssumption`: the constants have the types the code gives them;
- `TreeAssumption`: the launcher and the workload's first process are two processes;
- `FilesAssumption`, `ProgramAssumption`, `BoundAssumption`, `NoneAssumption`, `PathAssumption`: what a
  program may call has the arguments such a call has, and `PATH` is a list of directories;
  `NoiseAssumption`: no bin directory is one of those whose files the parser calls noise;
- `CommandAssumption` (commands are numbered in the order they start) and `BundleAssumption` (the kinds are
  those of the code; an absent file, an emptied one and one with content are told apart);
- `EndpointAssumption`, `NoNameAssumption`, `PlaceholderAssumption` (hosts and variables are numbers, no
  variable is a host, and the absent name is neither: the code writes a variable in braces),
  `RepositoryAssumption` (a file holds what its scanners can yield: an entry bound at run time names a variable,
  a lockfile entry without a version is passed over, a declared port is not 0) and `PlannerAssumption` (traits,
  conventional targets and packs have the types the code gives them).

`Trial` assumes nothing. Each invariant below was model-checked on the instance of its
component's run before it was proved.

- `ProveProofs`, about a single classification: `InterventionBlamesOne` and `CausalLabelEarned`, with
  any trials and any evidence. A dependency is blamed only as the one member of the changed set, and
  trials that failed clear nobody.

- `ProveProofs`, first part: `TypeCorrect` (`TypeOK`) and `ReplayIsReserved` (`ReplayReserved`). The
  reservation is not inductive: that a finished analysis was replayed depends on what was left when the last
  target was taken up. `ReplayKept`, in `Prove`, says phase by phase what the budget still covers: the
  remaining runs of the target under test and the replay, or between targets the replay.
  `TypeOK /\ ReplayKept` is inductive: typing needs `ReplayKept` (the target in hand comes from a nonempty
  agenda), and `ReplayKept` needs the types. `BudgetAfterTrial` and `IsolatedAfterTrial` say what every trial
  does, whichever loop ran it.

- `ProveProofs`, second part: `LabelsHold` (`LabelsAreEarned`), `TrailIsSingle` (`TrailHolds`), `RecordsHold`
  (`RecordsAgree`), `ToolingComesFirst` (`ToolingFirst`), from one invariant `Inv` over the first part's.
  A label given now must still be earned when the analysis is over, so `Inv` keeps apart what can still change:
  which trials the current loop holds in `results`, and that no later trial reuses a label (`TrialsInOrder`);
  which dependencies may still get a label, disjoint from those that have one (`LabelledOnce`, with `ToLabel`
  phase by phase); that every label given or pending is earned by the trials it cites (`LabelsEarned`);
  that trials and conclusions are in the journal (`Journaled`); what the world and the workflow say in each
  phase (`WorldFrozen`, `ReplayTrail`); and that after the first target that did not fit the budget none fits
  (`ToolsFirst`). Each part has its own lemma per action that touches it.

- `PromiseProofs`: `PromiseKept` (`KeepsPromise`), the refinement of `Analysis` by `Prove`: the initial states
  map to the initial state, and each action of `Prove` is mapped to the promise's step or to a stutter, on the
  states of `Inv`. `BundleHolds` (`BundleAgrees`): the five accounts of `Report` are operators on a finished
  state, and `Inv` makes the filters that project them agree. `LabelsTrue` (`LabelsAreTrue`), `NothingGivenUp`
  (`EverythingDecided`) and `RequiredIsEnough` (`RequiredSuffices`) are about a laboratory that tells the truth,
  so they have a hypothesis that `Prove` alone cannot give: `TruthfulLaboratory` says that the natures are
  workloads with known needs and that the answers are those of `ProveTruth`. The additional invariant is
  `TrialsAreTrue` (every trial and every observation is true of the workload), `BlamedAlone`, `NoneLost` (a
  candidate is still due or has its conclusion) and `Decided`. `NothingGivenUp` also needs `SteadyFailures`: a
  workload fails with the same signature every time. Without it two failing runs with different signatures
  stay unresolved, and rightly. The labels of the run `findings` are an instance of both hypotheses.

- `InterventionProofs`: `MergingIsExact` (`MergeIsExact`), `BlameRests` (`BlameIsCovered`), and the action
  property `LabelsAreNotReversed` (`NeverReversed`), for any number of runs. Exactness of the merge is
  inductive over the types. Signatures are compared with that of the first run that left one, so `HasFirst`
  adds that there is a first; `LabelMeans` then says
  what the two causal labels come to (required: the only service failing throughout, all runs failing alike;
  optional: a failing service while all runs passed), and the action property compares the two sides of a run.

- `SupervisorProofs`: `TypeCorrect` (`SupervisorTypeOK`), `ReturnsQuiet` (`QuietAfterRun`) and `PassedByItself`
  (`PassedMeansFinished`). `Leading` carries what the stages of `run` imply about the tree (until the kill
  nobody was killed; after it the group is dead and stays so, because whoever is left forks outside it),
  `Launching` what the end of a launcher says about the workload behind it.

- `TrialProofs`: `AnswersAccounted` (`AnswersAreAccounted`), `NumbersAreAccounted` (`SeqAccounted`),
  `TypeCorrect` (`TrialTypeOK`), `DenialsHold` (`DenialHolds`) and `SightingsHold` (`SightingsAreTrue`). `Inv`
  strengthens them: a handler that records has decided (`Decided`); no is said last and of a decision, yes is
  said first and only of a tunnel (`Honest`), and a line stands behind every handler that has passed its record
  (`Listed`), both in `Backed`; a gateway that can be killed lets nothing through (`Confined`, `Through`), so that
  a killed handler told nobody yes; the backlog holds queued connections, each once (`Queued`, so that a handler
  in flight is never accepted again); what was read back is the log, which nothing after `done` changes
  (`ReadBack`); and a number is in one line or in one handler's hands (`Tickets`). The exception in
  `AnswersAreAccounted` is the state of a handler, not of the client: whoever was told yes and is missing has its
  handler in the tunnel or in `record`, and nowhere else. `DenialsHold` rests on `Posture`: the policy stays the
  treatment's plan, so a denied trial's gateway never forwards, and only a tunnel or a direct socket reaches
  anything. `SightingsHold` counts, so `Faithful` ties decisions to the policy, to the connection and to the line,
  ties the result of a direct connect to what it settles, and keeps the direct connections finite; that a
  candidate's count is positive is then that one such line or socket exists.

- `ObserverProofs`: `EventsHold` (`EventsAreTrue`), `DestinationsHold` (`DestinationsAreFaithful`),
  `ExecutablesHold` (`CandidatesAreTrue`) and `ShimsHold` (`ShimHidesOne`), all over `LabSpec`. `TracedInv` says
  what the parser's tables mean: the head kept for a task is the call it is inside (`Waiting`), the connects told
  are in step with the connects that ended (`Matched`), the program kept is the one of its last successful exec
  (`Running`), the peer kept for a descriptor is the resolver last named on it by its own task, whatever has been
  named since (`Peers`, with `LastResolver`), and the file events are calls that were made, none of a program found
  being lost (`FilesTold`, `FilesFound`). That a peer stays the last as calls end is `LastKept` (a call that names no
  resolver) and `NowLast` (one that does). The order of the connects is stated by counting (`Place`), because
  the sequence of the code's events is a filtered one and induction over sequences is not available;
  `LeastNumber` (a set of numbers has a least one) is proved from the well-foundedness of the naturals and
  stands in for it where a first or a nearest element is needed. What follows from the events, aggregation and
  shim included, is proved for any report that satisfies the invariant; `ShimHidesOne` is about any search path and
  any files, the file that cannot be run and shadows a tool included.

- `BundleProofs`: `ClaimsAreBacked` (`ClaimsHold`), for any number of commands in any overlap, any kills
  and any failures. The invariant `Inv` has three parts: the types; the shelf (`Shelved`: what was ever
  saved, and what claims.json holds, has whole evidence in the ledger); and what each command knows at
  its place (`Local`). A command that is about to claim has journaled what it will cite (`Cites`), one
  between the two writes of an append has its record there (`Owes`), and, with no other command about,
  the claims it has read are still those on the shelf (`HasRead`) and the index explain loaded is the
  ledger (`UpToDate`). `ChainIsKept` (`ChainHolds`), `ManifestIsLast` (`ManifestSeals`) and `LockIsEarned`
  (`LockEarned`) need a second invariant, `InOrder`: commands start in order, and the one that runs alone is
  the newest (`Queued`); its handle knows the end of the ledger (`AtEnd`); what it has written and read is what
  its place says (`Did`: `ProveWrote`, `InspectWrote`, `ReplayReads`); a manifest that can be read is by a command
  that has ended (`Sealed`), and the lock on disk is of the proof beside it or of an earlier analysis that a later
  one left there (`LockSound`); only an append under way leaves the chain open (`Sound`). `LockEarned` is true
  in this form because `Follows` allows the stale lock of the run `stalelock`.

- `InspectProofs`, about `Inspect`: `InventoryStaysTrue` (`InventoryAgrees`), `NothingIsLost`
  (`NothingLost`), `UnknownStaysFlagged` (`UnknownIsFlagged`), `DetailsStayDeclared` (`DetailsAreDeclared`) and
  `ProposalsStay` (`ProposalsStayProposals`), for any repository. The proofs have two layers. First, what the
  operators return. Flattening, sorting and merging are what a proof by induction over sequences would be about;
  here `LeastNumber` (a nonempty set of numbers has a least one, from the well-foundedness of the naturals)
  stands in for it. `InOrder` lists a set in its order, each member once; a flattened sequence holds what its
  parts hold; so a merge of endpoints gives one declaration for each identity, its details and credentials
  members' own (`EndpointsOf`), services come by name with none lost (`ServicesInOrder`), and a merged component
  says what some entry of its version, or of none, says (`InventoryOf`). Second, what absorbing them one by
  one keeps: `AbsorbInv`, inductive, in seven parts. `TypeI` types the declarations due and the systems; `LedgerI`
  makes each later record the evidence of exactly one system; `NamesI` keeps addresses apart, which needs that
  no variable still due is a system's address or due twice; `OwnI` traces each system's details to declarations
  of its name; `KeptI` says that a declaration is still due or has its system; `FlaggedI` ties the unresolved
  list, the findings and the status to the identities; `ClaimsI` gives every claim its supports and its cap.
  A concrete host may come twice (two ports), so `NamesI` says nothing of those: the second is found by
  `EndpointMatch` and fills the first.

- `InspectProofs`, about `Planner`: `GraphSound` (`GraphIsSound`) and `BestRun` (`RunsTheBest`). Ids are places in
  the list of what was pushed, so `Pushed`, the lists whose members carry their place and the score of their
  command, source and kind, is inductive (`PInv`); that deduplication keeps the best of each command and
  that prerequisites exist is then about any such list. The recipes' offers are pushed by a recursive function; that it exists
  and stays among those lists is again an argument by the least number where it would not.

Only model-checked: the liveness properties `Termination`, `ReturnsWhenContained` and `ShutdownReturns`. They
rest on fairness, hence on ENABLED, which the prover does not handle. The runs that expect a violation are
counterexamples and have no theorem.

## 7. Not modelled

- The guest VM: its loop is that of the supervisor, around an external command that decides what is left
  running in the guest and with what status it ends at its own limit.
- Text: regular expressions, the bytes of packets, manifests and requests, rendering of manifests, locks,
  exports, plans and diffs. Models start from what the code tells apart in a text.
- Repository acquisition, snapshots, overlays and workspace copies: file copies without choices.
- Confidence, but for its cap: floating-point arithmetic. Languages, package URLs.
- Descriptors shared by threads or across a fork: every task of `Observer` is a process of its own.
- Loopback destinations in a trial, which both the gateway and the merge skip; byte copying in tunnels;
  resource limits, which only make a process end.
- The re-verification of a world that failed its replay, which `prove()` never calls.

What the models show of the code and no run asks about, for a reader who wonders:

- A screen cut short by the budget classifies on the trials it got: one failing trial can make a
  dependency required though confirmation runs were asked for (`prove.rs:548`).
- The group screen also removes fallbacks the baseline never showed and blames the one service it saw
  (`prove.rs:552`; `LabelsAreTrue` spells it out).
- Two substitutes are each optional, and the replay runs with both still there, so a world may be verified
  in which the workload fails (`prove.rs:823`; `RequiredSuffices` excludes substitutes).
- A failed attempt is recorded at once and its successful retry when its tunnel closes, perhaps after the
  log was read: a merged candidate may say that all attempts failed of a service that was reached
  (`proxy.rs:312`; `SightingsAreTrue` allows it of such a connection only, and `unrecorded` is its finding).
- A forward that fails after its destination was connected, because a write did not go through, is logged as
  forward-failed and counts as a failure (`proxy.rs:345`, `proxy.rs:355`).
- A datagram connect sends nothing and counts as an attempt that got through.
- The table of resolver sockets is never cleared: a datagram on a descriptor used again is read as traffic with
  the resolver it last named (`strace.rs:446`; `ServersAreResolvers` says just that).
- A replay at another revision only warns (`prove_cmd.rs:711`); no property uses the revision.
- The scan of endpoints stops at its limit without a word (`endpoints.rs:355`); the properties of `Inspect`
  exempt the names it cuts off.
- Blocking one dependency also refuses every other port of its host (`lab.rs:929`).
- Commands that overlap on one bundle fork the chain and lose claims; nothing locks the directory.
- The manifest's `lock_digest` is that of the frozen candidate, and a replay rewrites the lock and not the
  manifest (`prove_cmd.rs:443`, `prove_cmd.rs:766`).
- `diff` compares no causality, although `prove_cmd.rs:326` says it does.
- The summary says "missing on PATH" of a found tool whose causality is unresolved.
- An error from any port leaves the environment behind (`prove.rs:866`); an unsupported block trial ends the
  whole analysis, an unsupported hide trial does not (`prove.rs:615`).
