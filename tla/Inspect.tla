------------------------------- MODULE Inspect -------------------------------
(***************************************************************************)
(* `ovid inspect` (crates/ovid-cli: inspect_cmd.rs; the read-first summary:    *)
(* ovid-output manifest.rs): what a repository declares is recorded in the     *)
(* ledger, claimed, and absorbed into the external systems of the manifest,    *)
(* one declaration at a time.  Nothing of the repository is executed.          *)
(*                                                                         *)
(* A record of the ledger is its trust tier and its id its place.  Languages,   *)
(* protocols and wording are left out.  What the command does when it fails     *)
(* between its writes is in Bundle.                                          *)
(* Seeded mistakes: SamePort, EnvOnly.                                       *)
(***************************************************************************)
EXTENDS Endpoints, Inventory

CONSTANTS
  Repositories,  \* the repositories that may be inspected: files by path
  Placeholder,   \* hosts written without a lowercase letter
  DefaultPort    \* the first port of the protocol pack of a scheme, or 0

ASSUME PlaceholderAssumption == Placeholder \subseteq Host

RepositoryFile ==
  [mappings : Seq(Seq(ConfigEntry)), lines : Seq(ConfigEntry), reads : Seq(SourceRead),
   services : Seq(ServiceEntry),
   kind : STRING, packages : Seq([section : STRING, name : STRING, version : Nat])]

\* Paths are numbers, as they sort; a scanner passes over what it cannot read.
ASSUME RepositoryAssumption ==
  \A source \in Repositories :
    /\ DOMAIN source \subseteq Nat /\ IsFiniteSet(DOMAIN source)
    /\ \A path \in DOMAIN source :
         LET file == source[path] IN
         /\ file \in RepositoryFile
         /\ file.kind \in ManifestKind =>
              \A i \in DOMAIN file.packages : Parses(file.kind, file.packages[i])

VARIABLES
  repository,  \* the snapshot
  stage,       \* what the command does next
  todo,        \* the declarations not absorbed yet
  ledger,      \* the tiers of the records
  claims,      \* what was upserted: object, supports, cap
  systems,     \* manifest.external_systems
  unresolved,  \* manifest.unresolved: ids of systems
  summary,     \* the findings of the summary: kind and subject
  status       \* manifest.metadata.status

inspectVars == <<repository, stage, todo, ledger, claims, systems, unresolved, summary, status>>

InspectInit ==
  /\ repository \in Repositories
  /\ stage = "inventory" /\ todo = <<>> /\ ledger = <<>> /\ claims = {}
  /\ systems = <<>> /\ unresolved = {} /\ summary = {} /\ status = "partial"

(***************************************************************************)
(* Claims (ovid-evidence claim.rs): the confidence is capped by the tiers of   *)
(* the supports.  Nothing inspect claims is observed.                         *)
(***************************************************************************)
Claim(object, supports, records) ==
  LET found == supports \cap DOMAIN records
  IN  [object |-> object, supports |-> supports,
       cap |-> IF found # {} /\ \A e \in found : records[e] = "T5" THEN "proposal" ELSE "declared"]

(***************************************************************************)
(* record_inventory: the scanned files, then a claim for each component,       *)
(* supported by the scan of its source file.                                 *)
(***************************************************************************)
Scanned == scanned_files(repository)
EvidenceOf(path) == CHOOSE e \in DOMAIN Scanned : Scanned[e] = path
Components == merge_components(ComponentsOf(repository))
Package(c) == <<"package", c.ecosystem, c.name, c.version>>

RecordInventory ==
  /\ stage = "inventory"
  /\ ledger' = [e \in DOMAIN Scanned |-> "T4"]
  /\ claims' = {Claim(Package(c), {EvidenceOf(c.source)}, ledger') : c \in Components}
  /\ stage' = "services" /\ todo' = scan_compose(repository)
  /\ UNCHANGED <<repository, systems, unresolved, summary, status>>

(***************************************************************************)
(* absorb_declared_services                                                 *)
(***************************************************************************)
NextEvidence == Len(ledger) + 1

\* The first system that matches, none as 0.
First(S) == IF S = {} THEN 0 ELSE Minimum(S)

ServiceMatch(service) ==
  First({i \in DOMAIN systems : systems[i].id = <<service.name>> \/ systems[i].dns = service.name})

ServiceSystem(service) ==
  [id |-> <<service.name>>, address |-> service.name, dns |-> service.name, identity |-> "declared",
   port |-> IF service.ports = <<>> THEN 0 ELSE service.ports[1],
   path |-> "", credentials |-> {}, sources |-> {service.source}, evidence |-> {NextEvidence}]

AbsorbService ==
  /\ stage = "services" /\ todo # <<>>
  /\ LET service == Head(todo)
         i == ServiceMatch(service)
     IN  /\ ledger' = Append(ledger, "T4")
         /\ claims' = claims \cup {Claim(<<"service", service.name>>, {NextEvidence}, ledger')}
         /\ systems' = IF i = 0 THEN Append(systems, ServiceSystem(service))
                       ELSE [systems EXCEPT ![i].evidence = @ \cup {NextEvidence}]
  /\ todo' = Tail(todo)
  /\ UNCHANGED <<repository, stage, unresolved, summary, status>>

ServicesDone ==
  /\ stage = "services" /\ todo = <<>>
  /\ stage' = "endpoints" /\ todo' = scan_endpoints(repository)
  /\ UNCHANGED <<repository, ledger, claims, systems, unresolved, summary, status>>

(***************************************************************************)
(* absorb_declared_endpoints                                                *)
(***************************************************************************)
Port(e) == IF e.port # 0 THEN e.port ELSE DefaultPort[e.scheme]

SamePort(e) == First({i \in DOMAIN systems : e.known /\ systems[i].port = Port(e)})
EndpointMatch(e) ==
  First({i \in DOMAIN systems : e.known /\ (systems[i].dns = e.name \/ systems[i].address = e.name)})

\* What a second declaration adds to the system of the same name.
Filled(system, e) ==
  [system EXCEPT !.path = IF @ = "" THEN e.path ELSE @,
                 !.credentials = @ \cup e.credentials, !.sources = @ \cup e.sources,
                 !.evidence = @ \cup {NextEvidence}]

IdentityOf(e) ==
  IF ~e.known THEN "env-parameterized"
  ELSE IF e.name \in Placeholder THEN "template-placeholder" ELSE "declared"

EndpointId(e) == IF e.known THEN <<e.name, Port(e)>> ELSE <<e.name, 0>>

\* The address of a system bound at run time is the variable, in braces.
EndpointSystem(e) ==
  [id |-> EndpointId(e), address |-> e.name,
   dns |-> IF e.known /\ e.name \notin Placeholder THEN e.name ELSE NoName, identity |-> IdentityOf(e),
   port |-> Port(e), path |-> e.path, credentials |-> e.credentials, sources |-> e.sources,
   evidence |-> {NextEvidence}]

EnvOnly(e) == ~e.known
Unknown(e) == IdentityOf(e) # "declared"

AbsorbEndpoint ==
  /\ stage = "endpoints" /\ todo # <<>>
  /\ LET e == Head(todo)
         i == EndpointMatch(e)
     IN  /\ ledger' = Append(ledger, IF e.origin = "config" THEN "T4" ELSE "T5")
         /\ claims' = claims \cup
              {Claim(<<"service", e.name>>, {NextEvidence}, ledger')}
         /\ systems' = IF i = 0 THEN Append(systems, EndpointSystem(e))
                       ELSE [systems EXCEPT ![i] = Filled(@, e)]
         /\ unresolved' = unresolved \cup IF i = 0 /\ Unknown(e) THEN {EndpointId(e)} ELSE {}
  /\ todo' = Tail(todo)
  /\ UNCHANGED <<repository, stage, summary, status>>

(***************************************************************************)
(* finalize, with build_summary: nothing was run, so that every declared        *)
(* system was never dialed.                                                 *)
(***************************************************************************)
FindingOf(system) ==
  <<IF system.identity = "declared" THEN "never-exercised" ELSE "runtime-bound", system.id>>

FinishInspect ==
  /\ stage = "endpoints" /\ todo = <<>>
  /\ stage' = "done"
  /\ summary' = {FindingOf(systems[i]) : i \in DOMAIN systems}
  /\ status' = IF unresolved = {} THEN "complete" ELSE "complete-with-unresolved"
  /\ UNCHANGED <<repository, todo, ledger, claims, systems, unresolved>>

InspectNext == RecordInventory \/ AbsorbService \/ ServicesDone \/ AbsorbEndpoint \/ FinishInspect

InspectSpec == InspectInit /\ [][InspectNext]_inspectVars

(***************************************************************************)
(* Properties.                                                              *)
(***************************************************************************)
System == {systems[i] : i \in DOMAIN systems}

\* What the repository declares, before anything is merged.
Mined    == FlattenSeq([n \in DOMAIN Paths(repository) |-> MineAt(repository, n)])
Endpoint == {Mined[i] : i \in DOMAIN Mined}
Service  == LET s == scan_compose(repository) IN {s[i] : i \in DOMAIN s}
OfName(n) == {e \in Endpoint : e.name = n}

InspectTypeOK ==
  /\ stage \in {"inventory", "services", "endpoints", "done"}
  /\ \A e \in DOMAIN ledger : ledger[e] \in {"T4", "T5"}
  /\ \A claim \in claims : claim.supports \subseteq DOMAIN ledger
  /\ \A s \in System : s.evidence \subseteq DOMAIN ledger /\ s.sources \subseteq DOMAIN repository
  /\ status \in {"partial", "complete", "complete-with-unresolved"}

\* Every name the repository declares is a system of the manifest, exactly once,
\* and every declaration recorded is the evidence of exactly one system, unless
\* the limit on endpoints stopped the scan.
NamesAreKept ==
  stage = "done" =>
    /\ \A i, j \in DOMAIN systems : i # j =>
         systems[i].address # systems[j].address /\ systems[i].evidence \cap systems[j].evidence = {}
    /\ UNION {s.evidence : s \in System} = DOMAIN ledger \ DOMAIN Scanned
    /\ ~Truncated(repository) =>
         {s.address : s \in System} =
           {s.name : s \in Service} \cup {e.name : e \in Endpoint}

\* A value nobody can know is flagged and never asserted: a system whose name is
\* bound at run time has no DNS name, is unresolved, is a finding of its own, and
\* keeps the analysis from being called complete.
UnknownIsFlagged ==
  stage = "done" =>
    LET unknown == {s \in System : s.identity # "declared"} IN
    /\ {s.id : s \in unknown} = unresolved
    /\ \A s \in System : s.dns = NoName <=> s \in unknown
    /\ {f[2] : f \in {g \in summary : g[1] = "runtime-bound"}} = unresolved
    /\ status = "complete" <=> unknown = {}

\* The credentials named with a system are those declared beside an endpoint of
\* that name: none of another mapping, and none forgotten.
CredentialsStayBeside ==
  stage = "done" => \A s \in System :
    LET beside == UNION {{mapping \in {repository[p].mappings[i] : i \in DOMAIN repository[p].mappings} :
                            \E k \in DOMAIN mapping :
                              /\ classify_config_value(mapping[k], p) # <<>>
                              /\ mapping[k].name = s.address} : p \in DOMAIN repository}
    IN  /\ s.credentials \subseteq UNION {Credentials(m) : m \in beside}
        /\ ~Truncated(repository) => UNION {Credentials(m) : m \in beside} \subseteq s.credentials

\* However declarations are merged, a system's path and port are those of one of
\* its own declarations, and it has a path as soon as one of them has.
DetailsAreOwn ==
  stage = "done" => \A s \in System :
    LET own == OfName(s.address) IN
    /\ s.path \in {e.path : e \in own} \cup {""}
    /\ s.path = "" /\ ~Truncated(repository) => \A e \in own : e.path = ""
    /\ s.port # 0 =>
         \/ \E e \in own : s.port \in {e.port, DefaultPort[e.scheme]}
         \/ \E d \in Service : d.name = s.address /\ s.port \in {d.ports[i] : i \in DOMAIN d.ports}

\* A claim about a variable is a proposal, capped low, exactly when no
\* configuration declares it: reading it in the source is never enough, and a
\* configuration found later is never lost.
ProposalsStayProposals ==
  stage = "done" /\ ~Truncated(repository) =>
    \A claim \in claims :
      claim.cap = "proposal" <=>
        /\ claim.object[1] = "service" /\ claim.object[2] \in Variable
        /\ \A e \in OfName(claim.object[2]) : e.origin = "source"

\* A package is one component for each version pinned, or one without a version.
\* Whichever files name it and in whatever order they are read, it is resolved if
\* a lockfile pins that version, declared and direct if a manifest says so of that
\* version or of none, its scope is one that such an entry gives it, and its claim
\* rests on the scan of a file that names it.
InventoryAgrees ==
  stage # "inventory" =>
    LET read == ComponentsOf(repository)
        all  == {read[n] : n \in DOMAIN read}
        Named(c) == {p \in all : SamePackage(p, c) /\ p.version \in {c.version, Unpinned}}
        Scopes(c) == {p.scope : p \in Named(c)} \ {"unknown"}
    IN
    /\ \A p \in all : \E c \in Components : SamePackage(p, c) /\ p.version \in {c.version, Unpinned}
    /\ \A c, d \in Components : SamePackage(c, d) /\ c.version \in {d.version, Unpinned} => c = d
    /\ \A c \in Components :
         /\ c.resolved <=> \E p \in Named(c) : p.resolved /\ p.version = c.version
         /\ c.declared <=> \E p \in Named(c) : p.declared
         /\ c.direct <=> \E p \in Named(c) : p.direct
         /\ c.scope \in Scopes(c) \/ (c.scope = "unknown" /\ Scopes(c) = {})
         /\ \E claim \in claims :
              /\ claim.object = Package(c)
              /\ \E e \in claim.supports : \E p \in Named(c) : Scanned[e] = p.source

\* The manifest holds everything declared, with evidence for it.
NothingLost == InspectTypeOK /\ NamesAreKept

\* What is said of a system was declared of that system.
DetailsAreDeclared == DetailsAreOwn /\ CredentialsStayBeside
=============================================================================
