------------------------------- MODULE Planner -------------------------------
(***************************************************************************)
(* The workload planner (crates/ovid-planner: lib.rs, miners.rs; detection   *)
(* of runner recipes: ovid-packs registry.rs) and the choice `ovid prove`     *)
(* makes from its graph (ovid-cli prove_cmd.rs).                             *)
(*                                                                         *)
(* A repository is met one mined candidate at a time, in the order of the     *)
(* miners; the recipes of the detected packs come last.  A command is a       *)
(* model value and Trait says what its text mentions: verbs, test runners and  *)
(* linters, a dangerous shape or a force flag, a builtin, the file it launches. *)
(* Scores are in hundredths.                                                 *)
(* Seeded mistakes: InstallsFound, BestFirst.                                *)
(***************************************************************************)
EXTENDS Order, Integers, Sequences, SequencesExt

CONSTANTS
  Command,    \* commands a repository may mention
  Trait,      \* Command -> [verbs, suites, dangerous, forced, builtin, launches]
  NoFile,     \* a command that launches no file of the repository
  Script,     \* <<command, kind>> of the conventional package.json scripts
  Target,     \* <<command, kind>> of the conventional make targets
  Recipe,     \* sequence, by name, of the runner packs: [names, extension, make, offers]
  File,       \* files a repository may hold
  MaxMined    \* bound on the mined candidates

ActionKind == {"install", "test", "build", "start", "other"}

ASSUME PlannerAssumption ==
  /\ MaxMined \in Nat
  /\ Trait \in [Command -> [verbs : SUBSET {"install", "test", "build", "start"},
                            suites : SUBSET {"runner", "linter"}, dangerous : BOOLEAN,
                            forced : BOOLEAN, builtin : BOOLEAN, launches : File \cup {NoFile}]]
  /\ NoFile \notin File
  /\ Script \subseteq Command \X ActionKind /\ Target \subseteq Command \X ActionKind
  /\ Recipe \in Seq([names : SUBSET File, extension : SUBSET File, make : BOOLEAN,
                     offers : Seq(Command \X ActionKind)])

VARIABLES
  snapshot,  \* the files of the repository
  miner,     \* the miner at work; after the last one, the recipes
  mined,     \* how many candidates were mined
  actions,   \* what plan() has pushed so far
  graph      \* what it returns

plannerVars == <<snapshot, miner, mined, actions, graph>>

Source == {"ci", "script", "makefile", "container", "docs", "recipe"}
Miners == <<"ci", "script", "makefile", "container", "docs", "recipe", "planned">>
base_confidence ==
  [ci |-> 85, container |-> 75, script |-> 70, makefile |-> 60, recipe |-> 50, docs |-> 40]

\* A command is what the first of these verbs says, whatever else it mentions.
classify(command) ==
  LET verbs == Trait[command].verbs
      named == SelectSeq(<<"install", "test", "build", "start">>, LAMBDA verb : verb \in verbs)
  IN  IF named = <<>> THEN "other" ELSE named[1]

risk_penalty(command) ==
  IF Trait[command].dangerous THEN 100 ELSE IF Trait[command].forced THEN 40 ELSE 0

is_shell_builtin(command) == Trait[command].builtin

\* What push() lets through.
Acceptable(command) ==
  /\ risk_penalty(command) < 100
  /\ ~is_shell_builtin(command)
  /\ Trait[command].launches \in snapshot \cup {NoFile}

is_test_runner(command)  == "runner" \in Trait[command].suites
is_lint_command(command) == "linter" \in Trait[command].suites
Adjustment(command) ==
  IF is_test_runner(command) THEN 6 ELSE IF is_lint_command(command) THEN -6 ELSE 0

AtLeastZero(n) == IF n < 0 THEN 0 ELSE n

Candidate(command, source, hint) ==
  LET kind == IF hint = "none" THEN classify(command) ELSE hint
  IN  [id |-> 0, command |-> command, source |-> source, kind |-> kind,
       score |-> AtLeastZero(base_confidence[source]
                   + (IF kind = "test" THEN Adjustment(command) ELSE 0) - risk_penalty(command)),
       prerequisites |-> {}]

\* Ids count what was pushed, not what was mined.
Push(list, candidate) ==
  IF Acceptable(candidate.command) THEN Append(list, [candidate EXCEPT !.id = Len(list) + 1]) ELSE list

(***************************************************************************)
(* The miners.                                                              *)
(***************************************************************************)
Mine(source, command, hint) ==
  /\ Miners[miner] = source /\ mined < MaxMined
  /\ actions' = Push(actions, Candidate(command, source, hint))
  /\ mined' = mined + 1
  /\ UNCHANGED <<snapshot, miner, graph>>

MineWorkflow   == \E c \in Command : Mine("ci", c, "none")
MineScripts    == \E s \in Script : Mine("script", s[1], s[2])
MineMakefile   == \E t \in Target : Mine("makefile", t[1], t[2])
MineDockerfile == \E c \in Command : Mine("container", c, "start")
MineDocs       == \E c \in Command : Mine("docs", c, "none")

NextMiner ==
  /\ miner < 6
  /\ miner' = miner + 1
  /\ UNCHANGED <<snapshot, mined, actions, graph>>

(***************************************************************************)
(* The recipes: a pack found by a file name before one found by extension,    *)
(* make after all others, then by name.                                      *)
(***************************************************************************)
FileHit(pack)  == Recipe[pack].names \cap snapshot # {}
Detected       == {p \in DOMAIN Recipe : FileHit(p) \/ Recipe[p].extension \cap snapshot # {}}
Priority(pack) == IF Recipe[pack].make THEN 2 ELSE IF FileHit(pack) THEN 0 ELSE 1
detect_runners ==
  InOrder(Detected, LAMBDA p, q : Priority(p) < Priority(q) \/ (Priority(p) = Priority(q) /\ p < q))

Offers == FlattenSeq([i \in DOMAIN detect_runners |-> Recipe[detect_runners[i]].offers])

(***************************************************************************)
(* The graph: a command once, at its first place, with its best provenance.   *)
(***************************************************************************)
Same(list, i) == {j \in DOMAIN list : list[j].command = list[i].command}
Keep(list, i) ==
  list[CHOOSE j \in Same(list, i) : \A k \in Same(list, i) :
         list[k].score < list[j].score \/ (list[k].score = list[j].score /\ j <= k)]

Deduped(list) ==
  LET first == InOrder({i \in DOMAIN list : \A j \in Same(list, i) : i <= j}, <)
  IN  [n \in DOMAIN first |-> Keep(list, first[n])]

Installs(list) == {list[i].id : i \in {j \in DOMAIN list : list[j].kind = "install"}}
InstallsFound(list) == Installs(list)
InstallIds(list) == Installs(Deduped(list))

Graph(list) ==
  LET kept == Deduped(list)  installs == InstallIds(list)
  IN  [i \in DOMAIN kept |->
         [kept[i] EXCEPT !.prerequisites = IF kept[i].kind = "install" THEN {} ELSE installs]]

\* Every offer is pushed, in this order.
WithRecipes ==
  LET pushed[n \in 0 .. Len(Offers)] ==
        IF n = 0 THEN actions ELSE Push(pushed[n - 1], Candidate(Offers[n][1], "recipe", Offers[n][2]))
  IN  pushed[Len(Offers)]

\* The recipes are the last source; what is left is to make the graph.
UseRecipes ==
  /\ Miners[miner] = "recipe"
  /\ actions' = WithRecipes
  /\ graph' = Graph(actions')
  /\ miner' = 7
  /\ UNCHANGED <<snapshot, mined>>

(***************************************************************************)
(* What is read from the graph.                                             *)
(***************************************************************************)
OfKind(kind) == {i \in DOMAIN graph : graph[i].kind = kind}
Top(kind)    == {i \in OfKind(kind) : \A j \in OfKind(kind) : graph[j].score <= graph[i].score}

\* best: max_by returns the last of equals.
BestFirst(kind) == CHOOSE i \in OfKind(kind) : \A j \in OfKind(kind) : i <= j
Best(kind) == CHOOSE i \in Top(kind) : \A j \in Top(kind) : j <= i

\* candidates(kind).first: a stable sort leaves the first of equals in front.
FirstCandidate(kind) == {i \in Top(kind) : \A j \in Top(kind) : i <= j}

\* What `ovid prove` runs for a kind of workload: the command, and before it
\* the first install candidate if that is another command.
WorkloadFor(kind)  == graph[Best(kind)]
Provision(kind) == {graph[i] : i \in {j \in FirstCandidate("install") : graph[j].command # WorkloadFor(kind).command}}

PlannerInit ==
  /\ snapshot \in SUBSET File
  /\ miner = 1 /\ mined = 0 /\ actions = <<>> /\ graph = <<>>

PlannerNext ==
  \/ MineWorkflow \/ MineScripts \/ MineMakefile \/ MineDockerfile \/ MineDocs
  \/ NextMiner \/ UseRecipes

PlannerSpec == PlannerInit /\ [][PlannerNext]_plannerVars

(***************************************************************************)
(* Properties.                                                              *)
(***************************************************************************)
PlannerTypeOK ==
  /\ snapshot \subseteq File /\ miner \in 1 .. 7 /\ mined \in 0 .. MaxMined
  /\ \A i \in DOMAIN actions :
       /\ actions[i].command \in Command /\ actions[i].source \in Source
       /\ actions[i].score \in 0 .. 100 /\ actions[i].id = i

\* Deduplication loses no command and no score: every command pushed is in the
\* graph exactly once, at the best score any source gave it, under an id that
\* names what was pushed.
GraphKeepsTheBest ==
  /\ \A i, j \in DOMAIN graph : graph[i].command = graph[j].command => i = j
  /\ miner = 7 => \A i \in DOMAIN actions : \E j \in DOMAIN graph :
       graph[j].command = actions[i].command /\ graph[j].score >= actions[i].score
  /\ \A j \in DOMAIN graph :
       LET a == actions[graph[j].id]
       IN  a.command = graph[j].command /\ a.kind = graph[j].kind /\ a.score = graph[j].score

\* Every prerequisite of an action is an action of the graph that survived
\* deduplication, and what a proof provisions with is one of them.
PrerequisitesExist ==
  \A i \in DOMAIN graph :
    /\ graph[i].prerequisites \subseteq {graph[j].id : j \in OfKind("install")}
    /\ graph[i].kind # "install" /\ i = Best(graph[i].kind) =>
         \A a \in Provision(graph[i].kind) : a.id \in graph[i].prerequisites

\* The test workload is a linter only if nothing ranks a suite from the same
\* source, at the same risk, beside it.
SuitesBeforeLinters ==
  OfKind("test") # {} /\ Adjustment(WorkloadFor("test").command) < 0 =>
    \A i \in OfKind("test") :
      ~ /\ is_test_runner(graph[i].command)
        /\ graph[i].source = WorkloadFor("test").source
        /\ risk_penalty(graph[i].command) <= risk_penalty(WorkloadFor("test").command)

\* Whatever a source offered for a kind of workload, the command run for that kind
\* scores at least as high, unless a source trusted more gave that command another
\* kind; and what comes first in the list shown scores the same.
OffersAreRun ==
  /\ miner = 7 => \A i \in DOMAIN actions :
       LET a == actions[i] IN
       \/ \E j \in DOMAIN graph :
            graph[j].command = a.command /\ graph[j].kind # a.kind /\ graph[j].score >= a.score
       \/ OfKind(a.kind) # {} /\ WorkloadFor(a.kind).score >= a.score
  /\ \A i \in DOMAIN graph : \A j \in FirstCandidate(graph[i].kind) :
       graph[j].score = WorkloadFor(graph[i].kind).score

\* The graph is typed, complete, and closed under its prerequisites.
GraphIsSound == PlannerTypeOK /\ GraphKeepsTheBest /\ PrerequisitesExist

\* The command that is run is the best there is for its kind.
RunsTheBest == OffersAreRun /\ SuitesBeforeLinters
=============================================================================
