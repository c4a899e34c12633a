----------------------------- MODULE Observations -----------------------------
(***************************************************************************)
(* What the laboratory makes of a trace (crates/ovid-observer aggregate.rs, *)
(* ovid-gateway analysis.rs, ovid-cli lab.rs observations,                   *)
(* executable_candidates and build_shim_path): the events are aggregated,    *)
(* connects are grouped by the name their address answered to, executables   *)
(* found and missing are listed, and an executable is hidden by a directory   *)
(* of links that replaces PATH.                                             *)
(*                                                                         *)
(* Events are spoken of by their index in the report; Whole is the report,   *)
(* Kept what aggregation leaves.  Seeded mistakes: CollapseResults,          *)
(* FoundByExecOnly, LastLinkWins.                                           *)
(***************************************************************************)
EXTENDS Observer

CONSTANTS
  NoiseDir,    \* directories whose successful reads are noise
  Inside,      \* directories in the trial's workspace, or relative
  Excluded,    \* launchers, the wrapper's tools, ovid and the workload's entry
  Resolvable,  \* executables a pack resolves
  Loopback,    \* addresses of this host
  SearchPath   \* PATH, a sequence of directories

ASSUME PathAssumption  == SearchPath \in Seq(Dir)
ASSUME NoiseAssumption == NoiseDir \cap BinDir = {}

VARIABLES hidden, shim
shimVars == <<hidden, shim>>

EventAt(i) == report[i].event
Whole == DOMAIN report
OfKind(K, kind) == {i \in K : EventAt(i).kind = kind}

(***************************************************************************)
(* aggregate.rs                                                             *)
(***************************************************************************)
CollapseResults(e) == IF e.kind = "connect" THEN <<e.kind, e.peer>> ELSE <<e>>
\* The server of a query is not part of its signature.
SignatureOf(e) ==
  CASE e.kind = "dns" -> <<e.kind, e.name, e.answer>>
    [] OTHER          -> <<e>>

\* State transitions are never collapsed.
Collapses(e) == e.kind \in {"open", "mapped", "exec", "connect", "unix", "dns"}

Noise(e) == e.kind = "open" /\ e.errno = None /\ Dirname(e.path) \in NoiseDir

Kept ==
  {i \in Whole :
     /\ ~Noise(EventAt(i))
     /\ Collapses(EventAt(i)) => \A j \in 1 .. i - 1 : Noise(EventAt(j)) \/ SignatureOf(EventAt(j)) # SignatureOf(EventAt(i))}

(***************************************************************************)
(* analysis.rs                                                              *)
(***************************************************************************)
Least(K) == CHOOSE i \in K : \A j \in K : i <= j

\* The first answer with an address names it, wherever it stands.
NameOf(K, address) ==
  LET named == {i \in OfKind(K, "dns") : EventAt(i).answer = address}
  IN  IF named = {} THEN None ELSE EventAt(Least(named)).name

\* Connects to resolvers and route probes carry no dependency.
Outward(K) == {i \in OfKind(K, "connect") : EventAt(i).peer.port \notin {53, 0}}

Identity(K, i) ==
  LET peer == EventAt(i).peer
      name == NameOf(K, peer.address)
  IN  <<IF name = None THEN peer.address ELSE name, peer.port>>

Destinations(K)   == {Identity(K, i) : i \in Outward(K)}
Attempts(K, d)    == {i \in Outward(K) : Identity(K, i) = d}
Failures(K, d)    == {i \in Attempts(K, d) : IsFailure(EventAt(i))}
EveryAttemptFailed(K, d) == Attempts(K, d) # {} /\ Failures(K, d) = Attempts(K, d)

\* The address recorded for a destination is that of its first connect.
ExternallyControlled(K, d) == EventAt(Least(Attempts(K, d))).peer.address \notin Loopback

DnsServers(K) ==
  {EventAt(i).server : i \in OfKind(K, "dns")} \cup
  {EventAt(i).peer.address : i \in {j \in OfKind(K, "connect") : EventAt(j).peer.port = 53}}
DnsQueries(K, name) == {EventAt(i).answer : i \in {j \in OfKind(K, "dns") : EventAt(j).name = name}} \ {None}
Listeners(K)   == {EventAt(i).peer : i \in OfKind(K, "listening")}
UnixSockets(K) == {EventAt(i).peer : i \in OfKind(K, "unix")}
EvidenceFor(K, d) ==
  Attempts(K, d) \cup {i \in OfKind(K, "dns") : \E j \in Attempts(K, d) : NameOf(K, EventAt(j).peer.address) = EventAt(i).name}

\* lab.rs, observations: what the network part of a trial's observations says.
NetworkCandidates(K) ==
  {[key |-> d, all_failed |-> EveryAttemptFailed(K, d), externally_controlled |-> ExternallyControlled(K, d),
    attempts |-> Cardinality(Attempts(K, d)), failures |-> Cardinality(Failures(K, d))] : d \in Destinations(K)}

(***************************************************************************)
(* lab.rs, executable_candidates                                            *)
(***************************************************************************)
RanOk(K)   == {i \in OfKind(K, "exec") : EventAt(i).errno = None}
Missed(K, kind) == {i \in OfKind(K, kind) : EventAt(i).errno = "ENOENT"}
NameAt(i)  == Basename(EventAt(i).path)

FoundByExecOnly(K) == {NameAt(i) : i \in RanOk(K)}
ToolsFound(K) ==
  {NameAt(i) : i \in RanOk(K)} \cup
  {NameAt(i) : i \in {j \in OfKind(K, "open") : EventAt(j).errno = None /\ Dirname(EventAt(j).path) \in BinDir}}

Found(K) == {NameAt(i) : i \in {j \in RanOk(K) : Dirname(EventAt(j).path) \notin Inside}} \ Excluded

\* A name probed without success in two directories, if a pack knows it.
Scanned(K) ==
  {n \in Resolvable \ Dotted : Cardinality({Dirname(EventAt(i).path) : i \in {j \in Missed(K, "open") : NameAt(j) = n}}) >= 2}

Missing(K) == (({NameAt(i) : i \in Missed(K, "exec")} \cup Scanned(K)) \ Excluded) \ (Found(K) \cup ToolsFound(K))

(***************************************************************************)
(* lab.rs, build_shim_path                                                  *)
(***************************************************************************)
Stands(dir, f) == files[<<dir, f>>] # "absent"
Holding(f) == {i \in DOMAIN SearchPath : Stands(SearchPath[i], f)}

Linked(name) == {f \in File \ {name} : Holding(f) # {}}
LastLinkWins(f) == SearchPath[CHOOSE i \in Holding(f) : \A j \in Holding(f) : j <= i]
LinkTarget(f)   == SearchPath[Least(Holding(f))]

\* Hiding what the search path does not hold is unsupported.
BuildShim(name) ==
  /\ hidden = None
  /\ name \in Found(Kept)
  /\ Holding(name) # {}
  /\ hidden' = name
  /\ shim' = [f \in Linked(name) |-> LinkTarget(f)]
  /\ UNCHANGED observerVars

LabInit == ObserverInit /\ hidden = None /\ shim = <<>>
Traced  == ObserverNext /\ hidden = None /\ UNCHANGED shimVars
LabNext == Traced \/ \E name \in File : BuildShim(name)
LabSpec == LabInit /\ [][LabNext]_<<observerVars, shimVars>>

(***************************************************************************)
(* Properties.                                                              *)
(***************************************************************************)
\* aggregate.rs:3-10: aggregation changes no destination, no verdict that all
\* attempts failed and none on who controls it, though it drops attempts; and
\* every event that failed is kept, or one with its signature is.
AggregationIsFaithful ==
  /\ Destinations(Kept) = Destinations(Whole)
  /\ \A d \in Destinations(Whole) :
       /\ EveryAttemptFailed(Kept, d) <=> EveryAttemptFailed(Whole, d)
       /\ ExternallyControlled(Kept, d) = ExternallyControlled(Whole, d)
  /\ \A i \in Whole : IsFailure(EventAt(i)) =>
       \E j \in Kept : IsFailure(EventAt(j)) /\ EventAt(j) = EventAt(i)

\* analysis.rs, identity: connects to one address and port are one destination,
\* whatever is asked of resolvers between them; and a destination with a name
\* has one that a resolver answered with the address connected to.
GroupedByName ==
  \A i, j \in Outward(Kept) :
    /\ EventAt(i).peer = EventAt(j).peer => Identity(Kept, i) = Identity(Kept, j)
    /\ (\E k \in OfKind(Whole, "dns") : EventAt(k).answer = EventAt(i).peer.address) =>
         \E k \in OfKind(Whole, "dns") :
           EventAt(k).answer = EventAt(i).peer.address /\ Identity(Kept, i)[1] = EventAt(k).name

\* The destinations are those of the whole trace, under the right names.
DestinationsAreFaithful == AggregationIsFaithful /\ GroupedByName

Made(call, errno) == {i \in DOMAIN done : done[i].head.call = call /\ done[i].tail.errno = errno}
Of(i) == done[i].head.path

\* lab.rs:509-516: a tool reported found was run from outside the workspace; a
\* tool reported missing was looked for, and no task ran it or came upon it
\* in a bin directory.
CandidatesAreTrue ==
  /\ \A n \in Found(Kept) : \E i \in Made("execve", "ok") : Basename(Of(i)) = n /\ Dirname(Of(i)) \notin Inside
  /\ \A n \in Missing(Kept) :
       /\ \E i \in DOMAIN done : done[i].tail.errno = "ENOENT" /\ Basename(Of(i)) = n
       /\ \A i \in Made("execve", "ok") : Basename(Of(i)) # n
       /\ \A i \in Made("stat", "ok") : Basename(Of(i)) = n => Dirname(Of(i)) \notin BinDir \/ n \in Dotted

\* What a lookup on PATH runs: it passes over files that are not executable.
Runnable(f) == {i \in DOMAIN SearchPath : files[<<SearchPath[i], f>>] = "executable"}
ByPath(f) == IF Runnable(f) = {} THEN None ELSE SearchPath[Least(Runnable(f))]
ByShim(f) == IF f \in DOMAIN shim /\ files[<<shim[f], f>>] = "executable" THEN shim[f] ELSE None

\* lab.rs:643-652: in the shim the hidden tool does not resolve, no other one
\* resolves to another file than on PATH, and one whose first file on PATH can be
\* run resolves to it.
ShimHidesOne ==
  hidden # None =>
    /\ ByShim(hidden) = None
    /\ \A f \in File \ {hidden} :
         /\ ByShim(f) # None => ByShim(f) = ByPath(f)
         /\ Holding(f) # {} /\ Least(Holding(f)) \in Runnable(f) => ByShim(f) = ByPath(f)

\* lab.rs:647-652 and 678, "everything else resolves exactly once", "first PATH
\* hit wins, like real resolution": what PATH runs, the shim runs.
EverythingElseResolves ==
  hidden # None => \A f \in File \ {hidden} : ByShim(f) = ByPath(f)
=============================================================================
