------------------------------ MODULE Endpoints ------------------------------
(***************************************************************************)
(* The endpoints and services a repository declares (crates/ovid-inventory: *)
(* endpoints.rs, compose.rs), as operators of the files it holds.          *)
(*                                                                         *)
(* A file is a record: `mappings`, for structured configuration in the order *)
(* of the walk, each a sequence of entries; `lines`, entries of a file of  *)
(* key=value lines; `reads`, the environment reads of a source file;       *)
(* `services`, those of a compose file.  An entry is what the code tells   *)
(* apart: `key`, the shapes its key has ("endpoint", "endpoint_env",       *)
(* "credential_env"), and the value's form: a "url" whose host is a name or a *)
(* placeholder, little more than a "placeholder", the "name" of a variable, a *)
(* "read" of one, or other "text".                                         *)
(*                                                                         *)
(* Hosts, variables and files are numbers, in the order of their names; port 0 *)
(* and the empty string stand for None.  A declaration's source is its file, *)
(* without the line or the key.  Default values are left out: nothing reads *)
(* them.  A file that cannot be read or parsed is one that holds nothing.  *)
(* Seeded mistakes: CredentialsSoFar, FirstOrigin.                         *)
(***************************************************************************)
EXTENDS Order, Sequences, SequencesExt

CONSTANTS
  Host, Variable,   \* names of hosts and of environment variables
  Scheme,           \* SERVICE_SCHEMES
  Uninteresting,    \* hosts of package registries, loopback, documentation
  MaxEndpoints,     \* MAX_ENDPOINTS
  MaxSources        \* sources kept per endpoint

ASSUME EndpointAssumption == Host \subseteq Nat /\ Variable \subseteq Nat /\ Host \cap Variable = {}

NoName == 0
ASSUME NoNameAssumption == NoName \notin Host \cup Variable

\* What the files of a repository hold.  Only the host of a URL may be known.
ConfigEntry ==
  {entry \in [key : SUBSET {"endpoint", "endpoint_env", "credential_env"},
              form : {"url", "placeholder", "name", "read", "text"},
              name : Host \cup Variable, scheme : STRING, port : Nat, path : STRING] :
     entry.form \in {"placeholder", "name", "read"} => entry.name \in Variable}
SourceRead   == {entry \in ConfigEntry : entry.form = "read"}
ServiceEntry == [name : Host, ports : Seq(Nat \ {0})]

(***************************************************************************)
(* Mining one file.                                                         *)
(***************************************************************************)
\* An endpoint has the name of its host if that is known, of the variable that
\* supplies it if it is not.
Found(entry, known, path, origin) ==
  [name |-> entry.name, known |-> known, scheme |-> entry.scheme, port |-> entry.port, path |-> entry.path,
   credentials |-> {}, sources |-> {path}, origin |-> origin]

\* parse_service_url: the host is a name or a placeholder.
IsServiceUrl(entry) == entry.form = "url" /\ entry.scheme \in Scheme

\* A key that names an endpoint, or the variable that will hold one.
NamesVariable(entry) ==
  \/ "endpoint" \in entry.key /\ entry.form = "placeholder"
  \/ "endpoint_env" \in entry.key /\ entry.form = "name"

\* A sequence of none or one.
classify_config_value(entry, path) ==
  CASE IsServiceUrl(entry) /\ entry.name \in Uninteresting -> <<>>
    [] IsServiceUrl(entry) /\ entry.name \notin Uninteresting ->
         <<Found(entry, entry.name \in Host, path, "config")>>
    [] ~IsServiceUrl(entry) /\ NamesVariable(entry) ->
         <<Found([entry EXCEPT !.scheme = "", !.port = 0, !.path = ""], FALSE, path, "config")>>
    [] OTHER -> <<>>

\* Only what is no endpoint is looked at as a credential.
IsCredential(entry) ==
  /\ classify_config_value(entry, 0) = <<>>
  /\ "credential_env" \in entry.key /\ entry.form = "name"
Credentials(mapping) == {mapping[i].name : i \in {j \in DOMAIN mapping : IsCredential(mapping[j])}}
CredentialsSoFar(mappings, i) == UNION {Credentials(mappings[j]) : j \in 1 .. i}
CredentialsBeside(mappings, i) == Credentials(mappings[i])

MineEntries(entries, path) ==
  FlattenSeq([i \in DOMAIN entries |-> classify_config_value(entries[i], path)])

\* walk_config: the endpoints of a mapping share the credentials beside them.
walk_config(mappings, path) ==
  FlattenSeq([i \in DOMAIN mappings |->
    LET local == MineEntries(mappings[i], path)
    IN  [k \in DOMAIN local |-> [local[k] EXCEPT !.credentials = CredentialsBeside(mappings, i)]]])

\* Only reads of variables with the name of an endpoint count.
scan_source(reads, path) ==
  FlattenSeq([i \in DOMAIN reads |->
    IF "endpoint" \in reads[i].key THEN <<Found(reads[i], FALSE, path, "source")>> ELSE <<>>])

MineFile(file, path) ==
  walk_config(file.mappings, path) \o MineEntries(file.lines, path) \o scan_source(file.reads, path)

\* The limit is looked at between files, never inside one.
Paths(repository) == InOrder(DOMAIN repository, <)
MineAt(repository, n) == MineFile(repository[Paths(repository)[n]], Paths(repository)[n])
LookedAt(repository, n) == Len(FlattenSeq([k \in 1 .. (n - 1) |-> MineAt(repository, k)])) < MaxEndpoints

Scan(repository) ==
  FlattenSeq([n \in DOMAIN Paths(repository) |->
                IF LookedAt(repository, n) THEN MineAt(repository, n) ELSE <<>>])

\* Some file was not looked at.
Truncated(repository) == \E n \in DOMAIN Paths(repository) : ~LookedAt(repository, n)

(***************************************************************************)
(* merge: the first of a kind is kept and its gaps are filled.  A group is the *)
(* places of its members.                                                   *)
(***************************************************************************)
Identity(e) == <<e.name, IF e.known THEN e.port ELSE 0>>

FirstStated(values, none) ==
  LET known == {i \in DOMAIN values : values[i] # none}
  IN  IF known = {} THEN none ELSE values[Minimum(known)]

FirstOrigin(found, group) == found[Minimum(group)].origin
AnyConfig(found, group) == IF \E i \in group : found[i].origin = "config" THEN "config" ELSE "source"

\* The sources of a member are added while there is room.
SourcesOf(found, group) == UNION {found[i].sources : i \in group}
KeepSources(found, group) ==
  SourcesOf(found, {i \in group : Cardinality(SourcesOf(found, {j \in group : j < i})) < MaxSources})

MergeGroup(found, group) ==
  [found[Minimum(group)] EXCEPT
     !.scheme = FirstStated([i \in group |-> found[i].scheme], ""),
     !.path   = FirstStated([i \in group |-> found[i].path], ""),
     !.port   = FirstStated([i \in group |-> found[i].port], 0),
     !.origin = AnyConfig(found, group),
     !.credentials = UNION {found[i].credentials : i \in group},
     !.sources = KeepSources(found, group)]

Before(a, b) == a[1] < b[1] \/ (a[1] = b[1] /\ a[2] < b[2])

merge(found) ==
  LET keys == InOrder({Identity(found[i]) : i \in DOMAIN found}, Before)
  IN  [k \in DOMAIN keys |-> MergeGroup(found, {i \in DOMAIN found : Identity(found[i]) = keys[k]})]

scan_endpoints(repository) == merge(Scan(repository))

(***************************************************************************)
(* scan_compose: services by name, the earlier file first.                    *)
(***************************************************************************)
ServicesOf(services, path) ==
  [i \in DOMAIN services |-> [name |-> services[i].name, ports |-> services[i].ports, source |-> path]]

AllServices(repository) ==
  LET paths == Paths(repository)
  IN  FlattenSeq([n \in DOMAIN paths |-> ServicesOf(repository[paths[n]].services, paths[n])])

scan_compose(repository) ==
  LET all   == AllServices(repository)
      order == InOrder(DOMAIN all, LAMBDA i, j : Before(<<all[i].name, i>>, <<all[j].name, j>>))
  IN  [n \in DOMAIN order |-> all[order[n]]]
=============================================================================
