-------------------------------- MODULE Trial --------------------------------
(***************************************************************************)
(* One trial of the process laboratory (crates/ovid-cli: lab.rs, run_trial, *)
(* execute, merge_intent_candidates), composed with its gateway: which     *)
(* network posture a treatment gets, what enforcement is reported for it,   *)
(* and what the observations say of each destination afterwards.            *)
(*                                                                         *)
(* Clients honour the proxy variables or open sockets directly; direct      *)
(* connections are seen by the tracer, under the name the client resolved.  *)
(* Loopback destinations, which both sides skip, are left out.              *)
(***************************************************************************)
EXTENDS Gateway, FiniteSets

VARIABLES
  egress,      \* EgressPolicy: deny or allow
  namespaces,  \* network_isolation_available
  treatment    \* the trial's treatment

posture   == <<egress, namespaces, treatment>>
trialVars == <<gatewayVars, posture>>

Treatment ==
  {[kind |-> "none"], [kind |-> "deny"], [kind |-> "hide"]} \cup {[kind |-> "block", dependency |-> d] : d \in Dest}

Treated(kind) == treatment.kind = kind

DenyAll       == [deny |-> TRUE, exact |-> {}, hosts |-> {}]
ForwardAll    == [deny |-> FALSE, exact |-> {}, hosts |-> {}]
ForwardExcept == [deny |-> FALSE, exact |-> {treatment.dependency}, hosts |-> {Host(treatment.dependency)}]

\* The plan of a treatment.  Hiding an executable mirrors the baseline.
Denied   == Treated("deny") \/ (egress = "deny" /\ ~Treated("block"))
Isolated == Denied /\ namespaces
PlanPolicy == IF Denied THEN DenyAll ELSE IF Treated("block") THEN ForwardExcept ELSE ForwardAll

\* The laboratory refuses a deny trial it cannot isolate; the use case asks
\* for a block trial only where egress is allowed.
MayTryAnything == Treated("block") => egress = "allow"
MayTry ==
  /\ Treated("deny") => namespaces
  /\ Treated("block") => egress = "allow"

\* Only a baseline is reported partially enforced.
Enforcement == IF Treated("none") /\ Denied /\ ~namespaces THEN "partially" ELSE "enforced"

TrialInit ==
  /\ egress \in {"deny", "allow"}
  /\ namespaces \in BOOLEAN
  /\ treatment \in Treatment
  /\ MayTry
  /\ policy = PlanPolicy
  /\ hosted = ~Isolated
  /\ GatewayInit

\* A connection that does not go through the proxy.  What is printed of it
\* settles whether the destination was reached only for a stream: a datagram
\* socket connects without a packet, a connect in progress or cut off may come
\* through or not.  In the namespace there is nowhere to go.
Outcome(result, reached) ==
  /\ result = "stream" => reached
  /\ result = "errno" => ~reached
  /\ Isolated => ~reached /\ result \in {"errno", "?"}

DirectConnect(c) ==
  /\ stage # "done" /\ At(c, "idle")
  /\ \E result \in Result, reached \in BOOLEAN :
       /\ Outcome(result, reached)
       /\ conn' = [conn EXCEPT ![c] = [@ EXCEPT !.stage = "closed", !.route = "direct",
                               !.result = result, !.reached = reached]]
  /\ UNCHANGED <<config, listener, seq, log, lab, posture>>

TrialNext ==
  \/ GatewayNext /\ UNCHANGED posture
  \/ \E c \in Conn : DirectConnect(c)

TrialSpec == TrialInit /\ [][TrialNext]_trialVars /\ GatewayFairness

-----------------------------------------------------------------------------
(* What the observations say of a destination: the tracer's candidates with *)
(* the gateway's intents merged in.                                         *)

Directly(d) == {c \in Conn : dest[c] = d /\ conn[c].route = "direct"}
Named(d, decisions) == {i \in DOMAIN intents : intents[i].dest = d /\ intents[i].decision \in decisions}

attempts(d) == Cardinality(Directly(d)) + Cardinality(Named(d, Decision))

\* An unknown result reads as success.
failures(d) ==
  Cardinality({c \in Directly(d) : conn[c].result \in {"errno", "EINPROGRESS"}}) + Cardinality(Named(d, {"refused", "forward-failed"}))

Seen(d) == attempts(d) > 0
all_failed(d) == failures(d) >= attempts(d)

\* A candidate of the tracer never becomes enforced.
enforced_by_intents(d) == Named(d, Decision) # {} /\ Named(d, Decision \ {"refused"}) = {}
enforced_unavailable(d) ==
  /\ Directly(d) = {}
  /\ Named(d, Decision) # {} /\ Named(d, Decision \ {"refused"}) = {}

-----------------------------------------------------------------------------
(* Properties.                                                             *)

TrialTypeOK ==
  /\ GatewayTypeOK
  /\ egress \in {"deny", "allow"} /\ namespaces \in BOOLEAN
  /\ treatment \in Treatment

\* A baseline or deny trial reported as enforced with egress denied contacted
\* nothing real by any route; one reported as partial, nothing through its
\* gateway.
DenialHolds ==
  Denied /\ ~Treated("hide") =>
    \A c \in Conn : conn[c].reached => Enforcement = "partially" /\ conn[c].route = "direct"

\* A candidate said to be kept away by policy was never tried otherwise: no
\* direct attempt and no failure of its own is taken for the gateway's refusal.
EnforcedMeansRefused ==
  stage = "done" =>
    \A c \in Conn :
      enforced_unavailable(dest[c]) => ~conn[c].reached /\ conn[c].route = "gateway" /\ conn[c].reply # "502"

\* What may stand behind an attempt that does not count as failed: contact, a
\* tunnel through the host's proxy, a datagram socket, or a result unknown.
MayBeAvailable(c) ==
  \/ conn[c].reached
  \/ upstream /\ conn[c].decision = "forwarded"
  \/ conn[c].result \in {"datagram", "?"}

\* What may have got through although every attempt seen has failed: a connect
\* still in progress when it was printed, a forward that failed after contact,
\* or a connection whose handler had not written its line.
MayBeOverlooked(c) ==
  conn[c].result = "EINPROGRESS" \/ conn[c].decision = "forward-failed" \/ ~At(c, "closed")

\* ports.rs:104, "every observed attempt against this dependency failed", both
\* ways: a candidate said to be available has an attempt behind it that got
\* through or left nothing to tell by, and one whose attempts all failed was
\* not reached but by what the two observers cannot see.
AvailabilityIsTrue ==
  stage = "done" =>
    \A d \in Dest : Seen(d) =>
      IF all_failed(d)
      THEN \A c \in Conn : dest[c] = d /\ conn[c].reached => MayBeOverlooked(c)
      ELSE \E c \in Conn : dest[c] = d /\ MayBeAvailable(c)

\* The two sides of a merged candidate are true of the trial.
SightingsAreTrue == EnforcedMeansRefused /\ AvailabilityIsTrue

\* "The treatment demonstrably held for the whole trial": under a block trial
\* reported as enforced the blocked dependency was not reached.
BlockHolds ==
  Treated("block") /\ Enforcement = "enforced" =>
    \A c \in Conn : dest[c] = treatment.dependency => ~conn[c].reached
=============================================================================
