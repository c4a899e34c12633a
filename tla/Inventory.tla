------------------------------ MODULE Inventory ------------------------------
(***************************************************************************)
(* The packages a repository declares and pins (crates/ovid-inventory: lib.rs  *)
(* and the scanners), as operators of the files it holds.                    *)
(*                                                                         *)
(* A file has a kind, which names the scanner that reads it, and `packages`,   *)
(* its entries in the order they are read: the section an entry stands in, a    *)
(* name after renaming and normalization, and the version written there, or     *)
(* Unpinned for none or a range.  Entries a scanner passes over (the project     *)
(* itself, the language, a placeholder) are not in the sequence.  A file that    *)
(* cannot be parsed is one without entries.                                  *)
(* Seeded mistake: DeclaredInPlace.                                          *)
(***************************************************************************)
EXTENDS Order, Sequences, SequencesExt

Unpinned == 0

(***************************************************************************)
(* The scanners: what an entry of a section becomes.  A range of versions is   *)
(* never recorded as one; only some manifests can pin.                        *)
(***************************************************************************)
Ranged(scope) == [scope |-> scope, direct |-> TRUE, resolved |-> FALSE, pins |-> FALSE]
Pinned(scope) == [Ranged(scope) EXCEPT !.pins = TRUE]
Locked == [scope |-> "unknown", direct |-> FALSE, resolved |-> TRUE, pins |-> TRUE]

Rule(kind, section, says) == [kind |-> kind, section |-> section, says |-> says]

cargo ==
  {Rule("Cargo.toml", "dependencies", Ranged("runtime")), Rule("Cargo.toml", "dev", Ranged("dev")),
   Rule("Cargo.toml", "build", Ranged("build")), Rule("Cargo.lock", "package", Locked)}

node ==
  {Rule("package.json", "dependencies", Ranged("runtime")), Rule("package.json", "dev", Ranged("dev")),
   Rule("package.json", "optional", Ranged("runtime")), Rule("package-lock.json", "packages", Locked),
   Rule("pnpm-lock.yaml", "packages", Locked), Rule("yarn.lock", "entry", Locked)}

python ==
  {Rule("pyproject.toml", "project", Pinned("runtime")), Rule("pyproject.toml", "optional", Pinned("dev")),
   Rule("pyproject.toml", "poetry", Ranged("runtime")), Rule("requirements.txt", "runtime", Pinned("runtime")),
   Rule("requirements.txt", "dev", Pinned("dev")), Rule("poetry.lock", "package", Locked),
   Rule("uv.lock", "package", Locked)}

golang ==
  {Rule("go.mod", "direct", Pinned("runtime")),
   Rule("go.mod", "indirect", [Pinned("unknown") EXCEPT !.direct = FALSE]), Rule("go.sum", "sum", Locked)}

java ==
  UNION {{Rule(kind, "compile", Pinned("runtime")), Rule(kind, "test", Pinned("dev")),
          Rule(kind, "provided", Pinned("build"))} : kind \in {"pom.xml", "build.gradle", "build.gradle.kts"}}

ruby == {Rule("Gemfile", "gem", Ranged("runtime")), Rule("Gemfile.lock", "specs", Locked)}

php ==
  {Rule("composer.json", "require", Ranged("runtime")), Rule("composer.json", "dev", Ranged("dev")),
   Rule("composer.lock", "packages", Locked), Rule("composer.lock", "dev", [Locked EXCEPT !.scope = "dev"])}

Scanner == cargo \cup node \cup python \cup golang \cup java \cup ruby \cup php

\* The order in which the scanners look for files.
ScanOrder ==
  <<"Cargo.toml", "Cargo.lock", "package.json", "package-lock.json", "pnpm-lock.yaml", "yarn.lock",
    "pyproject.toml", "requirements.txt", "poetry.lock", "uv.lock", "go.mod", "go.sum",
    "pom.xml", "build.gradle", "build.gradle.kts", "Gemfile", "Gemfile.lock", "composer.json", "composer.lock">>

Reads(scanner, kind) == \E rule \in scanner : rule.kind = kind
Ecosystem(kind) ==
  CASE Reads(cargo, kind)  -> "cargo"  [] Reads(node, kind) -> "npm"   [] Reads(python, kind) -> "pypi"
    [] Reads(golang, kind) -> "golang" [] Reads(java, kind) -> "maven" [] Reads(ruby, kind) -> "gem"
    [] OTHER -> "composer"

RulesFor(kind, section) == {rule \in Scanner : rule.kind = kind /\ rule.section = section}

\* A lockfile and go.mod record nothing without a version.
Parses(kind, entry) ==
  /\ RulesFor(kind, entry.section) # {}
  /\ \A rule \in RulesFor(kind, entry.section) : rule.says.direct \/ entry.version # Unpinned

Component(kind, entry, path) ==
  LET rule == (CHOOSE r \in RulesFor(kind, entry.section) : TRUE).says
  IN  [ecosystem |-> Ecosystem(kind), name |-> entry.name,
       version |-> IF rule.pins THEN entry.version ELSE Unpinned,
       scope |-> rule.scope, direct |-> rule.direct,
       declared |-> ~rule.resolved, resolved |-> rule.resolved, source |-> path]

(***************************************************************************)
(* scan: every file of a kind, by path, before the next kind.                 *)
(***************************************************************************)
ManifestKind == {ScanOrder[n] : n \in DOMAIN ScanOrder}
Place(kind) == CHOOSE n \in DOMAIN ScanOrder : ScanOrder[n] = kind

scanned_files(repository) ==
  InOrder({path \in DOMAIN repository : repository[path].kind \in ManifestKind},
    LAMBDA p, q : \/ Place(repository[p].kind) < Place(repository[q].kind)
                  \/ repository[p].kind = repository[q].kind /\ p < q)

PackagesIn(file, path) ==
  [i \in DOMAIN file.packages |-> Component(file.kind, file.packages[i], path)]

ComponentsOf(repository) ==
  LET files == scanned_files(repository)
  IN  FlattenSeq([n \in DOMAIN files |-> PackagesIn(repository[files[n]], files[n])])

(***************************************************************************)
(* merge_components: one component for each version, with what any of its      *)
(* entries says and the scope of the first that has one; then a component      *)
(* without a version is dropped where there is one with, which takes over its    *)
(* declaration.                                                             *)
(***************************************************************************)
SamePackage(c, d) == c.ecosystem = d.ecosystem /\ c.name = d.name
Of(list, c) == {i \in DOMAIN list : SamePackage(list[i], c) /\ list[i].version = c.version}

FirstScope(list, same) ==
  LET scoped == {i \in same : list[i].scope # "unknown"}
  IN  IF scoped = {} THEN "unknown" ELSE list[Minimum(scoped)].scope

MergedAt(list, i) ==
  LET same == Of(list, list[i])
  IN  [list[Minimum(same)] EXCEPT !.scope = FirstScope(list, same),
                                  !.direct = \E j \in same : list[j].direct,
                                  !.declared = \E j \in same : list[j].declared,
                                  !.resolved = \E j \in same : list[j].resolved]
Merged(list) == {MergedAt(list, i) : i \in DOMAIN list}

Versioned(merged, c) == \E d \in merged : SamePackage(c, d) /\ d.version # Unpinned
\* The declaration without a version that a component with one takes over.
Versionless(merged, c) == {d \in merged : SamePackage(c, d) /\ d.version = Unpinned /\ d.declared}
DeclaredInPlace(merged, c) == {}
Declared(merged, c) == Versionless(merged, c)

TakesOver(merged, c) ==
  IF Declared(merged, c) = {} THEN c
  ELSE [c EXCEPT !.declared = TRUE, !.direct = TRUE,
                 !.scope = IF @ = "unknown" THEN (CHOOSE d \in Declared(merged, c) : TRUE).scope ELSE @]

merge_components(list) ==
  LET merged == Merged(list)
      kept   == {c \in merged : c.version # Unpinned \/ ~Versioned(merged, c)}
  IN  {TakesOver(merged, c) : c \in kept}
=============================================================================
