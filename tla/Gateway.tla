------------------------------- MODULE Gateway -------------------------------
(***************************************************************************)
(* The laboratory gateway (crates/ovid-gateway: proxy.rs): an accept loop, *)
(* one detached handler thread per connection, and the shared log of        *)
(* intents that the laboratory reads after the trial.                       *)
(*                                                                         *)
(* A hosted gateway lives in Ovid's process and is shut down; the other     *)
(* kind is a process inside the trial's network namespace and is killed.    *)
(* Clients and destinations are external.  Nothing that happens after the   *)
(* log was read is part of the trial.                                       *)
(*                                                                         *)
(* A definition placed before the one it resembles is a seeded mistake: no *)
(* specification uses it, the properties are shown to reject it.           *)
(***************************************************************************)
EXTENDS Naturals, Sequences

CONSTANTS
  Conn,  \* connections the workload may open
  Dest   \* destinations it may name, each a host and a port

VARIABLES
  policy,    \* GatewayPolicy: what is refused
  upstream,  \* the host has an egress proxy the gateway chains through
  hosted,    \* the gateway is a server in Ovid's process
  acceptor,  \* the accept loop: binding, accepting or stopped
  stop,      \* GatewayState.stop
  woken,     \* shutdown's own connection is in the backlog
  backlog,   \* clients connected and not accepted, in order
  dest,      \* the destination a connection names
  conn,      \* per connection: its handler and what came of it
  seq,       \* GatewayState.seq
  log,       \* the lines of the log file
  stage,     \* the laboratory: running, stopping, waking, joining or done
  intents    \* what it read back from the log

config      == <<policy, upstream, hosted, dest>>
listener    == <<acceptor, stop, woken, backlog>>
lab         == <<stage, intents>>
gatewayVars == <<config, listener, conn, seq, log, lab>>

Host(d)  == d[1]
Policy   == [deny : BOOLEAN, exact : SUBSET Dest, hosts : SUBSET {Host(d) : d \in Dest}]
Decision == {"refused", "forwarded", "forward-failed"}

\* What strace may print of a connect: success on a stream or on a datagram
\* socket, an errno, one still in progress, or a result it could not tell.
Result == {"stream", "datagram", "errno", "EINPROGRESS", "?"}

\* Deny refuses all, ForwardExcept a destination or every port of a host.
Refuses(d) == policy.deny \/ d \in policy.exact \/ Host(d) \in policy.hosts

\* reply is what the client was told, result what strace printed of a direct
\* connect, reached whether anything real was contacted.
NotOpened == [stage |-> "idle", route |-> "gateway", decision |-> "none", ticket |-> 0,
              reply |-> "none", result |-> "none", reached |-> FALSE]

At(c, s) == conn[c].stage = s

GatewayInit ==
  /\ upstream \in BOOLEAN
  /\ acceptor = IF hosted THEN "accepting" ELSE "binding"
  /\ stop = FALSE
  /\ woken = FALSE
  /\ backlog = <<>>
  /\ dest \in [Conn -> Dest]
  /\ conn = [c \in Conn |-> NotOpened]
  /\ seq = 0
  /\ log = <<>>
  /\ stage = "running"
  /\ intents = <<>>


-----------------------------------------------------------------------------
(* Clients and the accept loop.                                            *)

\* A client connects: the backlog takes it if the socket is open.
Open(c) ==
  /\ At(c, "idle")
  /\ IF acceptor = "accepting"
     THEN conn' = [conn EXCEPT ![c] = [@ EXCEPT !.stage = "queued"]] /\ backlog' = Append(backlog, c)
     ELSE conn' = [conn EXCEPT ![c] = [@ EXCEPT !.stage = "closed"]] /\ UNCHANGED backlog
  /\ UNCHANGED <<config, acceptor, stop, woken, seq, log, lab>>

\* The process in the namespace has bound its socket.
Bind ==
  /\ acceptor = "binding"
  /\ acceptor' = "accepting"
  /\ UNCHANGED <<config, stop, woken, backlog, conn, seq, log, lab>>

\* A handler thread is spawned for the next connection.
Accept ==
  /\ acceptor = "accepting" /\ ~stop /\ backlog # <<>>
  /\ conn' = [conn EXCEPT ![Head(backlog)] = [@ EXCEPT !.stage = "accepted"]]
  /\ backlog' = Tail(backlog)
  /\ UNCHANGED <<config, acceptor, stop, woken, seq, log, lab>>

\* Any connection wakes a loop told to stop; the socket closes with what is
\* still in its backlog.
StopAccepting ==
  /\ acceptor = "accepting" /\ stop /\ (backlog # <<>> \/ woken)
  /\ acceptor' = "stopped"
  /\ conn' = [c \in Conn |-> IF At(c, "queued") THEN [conn[c] EXCEPT !.stage = "closed"] ELSE conn[c]]
  /\ backlog' = <<>>
  /\ UNCHANGED <<config, stop, woken, seq, log, lab>>

-----------------------------------------------------------------------------
(* handle_connection, one thread per connection.                           *)

\* The request head is too long, cut off, malformed or late.
DropRequest(c) ==
  /\ At(c, "accepted")
  /\ conn' = [conn EXCEPT ![c] = [@ EXCEPT !.stage = "closed"]]
  /\ UNCHANGED <<config, listener, seq, log, lab>>

Refuse(c) ==
  /\ At(c, "accepted") /\ Refuses(dest[c])
  /\ conn' = [conn EXCEPT ![c] = [@ EXCEPT !.stage = "recording", !.decision = "refused"]]
  /\ UNCHANGED <<config, listener, seq, log, lab>>

\* The tunnel is up; the client of a CONNECT is told so at once, and nothing
\* is recorded yet.  Through an upstream proxy the destination may still be out
\* of reach: the proxy says so inside the tunnel.
Forward(c) ==
  /\ At(c, "accepted") /\ ~Refuses(dest[c])
  /\ \E reached, https \in BOOLEAN :
       /\ reached \/ upstream
       /\ conn' = [conn EXCEPT ![c] = [@ EXCEPT !.stage = "tunnel", !.reached = reached,
                               !.reply = IF https /\ ~upstream THEN "200" ELSE "none"]]
  /\ UNCHANGED <<config, listener, seq, log, lab>>

\* splice: an answer of the far side passes through the tunnel.
Relay(c) ==
  /\ At(c, "tunnel") /\ conn[c].reply = "none"
  /\ conn' = [conn EXCEPT ![c] = [@ EXCEPT !.reply = "relayed"]]
  /\ UNCHANGED <<config, listener, seq, log, lab>>

\* The destination cannot be dialled, or it was and a write that follows fails.
ForwardFails(c) ==
  /\ At(c, "accepted") /\ ~Refuses(dest[c])
  /\ \E reached \in BOOLEAN :
       /\ reached => ~upstream
       /\ conn' = [conn EXCEPT ![c] = [@ EXCEPT !.stage = "recording", !.decision = "forward-failed",
                               !.reached = reached]]
  /\ UNCHANGED <<config, listener, seq, log, lab>>

\* splice returns; only now is there something to record.
CloseUndecided(c) ==
  /\ At(c, "tunnel")
  /\ conn' = [conn EXCEPT ![c] = [@ EXCEPT !.stage = "recording"]]
  /\ UNCHANGED <<config, listener, seq, log, lab>>

CloseTunnel(c) ==
  /\ At(c, "tunnel")
  /\ conn' = [conn EXCEPT ![c] = [@ EXCEPT !.stage = "recording", !.decision = "forwarded"]]
  /\ UNCHANGED <<config, listener, seq, log, lab>>

\* record: the number is taken before the log is locked.
PeekTicket(c) ==
  /\ At(c, "recording")
  /\ conn' = [conn EXCEPT ![c] = [@ EXCEPT !.stage = "logging", !.ticket = seq]]
  /\ UNCHANGED <<config, listener, seq, log, lab>>

TakeTicket(c) ==
  /\ At(c, "recording")
  /\ conn' = [conn EXCEPT ![c] = [@ EXCEPT !.stage = "logging", !.ticket = seq]]
  /\ seq' = seq + 1
  /\ UNCHANGED <<config, listener, log, lab>>

WriteLine(c) ==
  /\ At(c, "logging")
  /\ log' = Append(log, [conn |-> c, dest |-> dest[c], decision |-> conn[c].decision, seq |-> conn[c].ticket])
  /\ conn' = [conn EXCEPT ![c] = [@ EXCEPT !.stage = IF conn[c].decision = "forwarded" THEN "closed" ELSE "answering"]]
  /\ UNCHANGED <<config, listener, seq, lab>>

Denial(decision) == IF decision = "refused" THEN "403" ELSE "502"

AnswerFirst(c) ==
  /\ \/ At(c, "answering")
     \/ At(c, "recording") /\ conn[c].decision # "forwarded" /\ conn[c].reply = "none"
  /\ conn' = [conn EXCEPT ![c] = [@ EXCEPT !.stage = IF @ = "answering" THEN "closed" ELSE @,
                          !.reply = Denial(conn[c].decision)]]
  /\ UNCHANGED <<config, listener, seq, log, lab>>

Answer(c) ==
  /\ At(c, "answering")
  /\ conn' = [conn EXCEPT ![c] = [@ EXCEPT !.stage = "closed", !.reply = Denial(conn[c].decision)]]
  /\ UNCHANGED <<config, listener, seq, log, lab>>

Handle(c) ==
  \/ DropRequest(c) \/ Refuse(c) \/ Forward(c) \/ Relay(c) \/ ForwardFails(c)
  \/ CloseTunnel(c) \/ TakeTicket(c) \/ WriteLine(c) \/ Answer(c)

-----------------------------------------------------------------------------
(* The end of a run: GatewayServer::shutdown, or the wrapper's kill.       *)

\* The run has returned.  A gateway in the namespace dies with it, in the
\* middle of whatever its threads do.
EndRun ==
  /\ stage = "running"
  /\ IF hosted
     THEN stage' = "stopping" /\ UNCHANGED <<listener, conn>>
     ELSE /\ stage' = "joining"
          /\ acceptor' = "stopped"
          /\ backlog' = <<>>
          /\ conn' = [c \in Conn |-> [conn[c] EXCEPT !.stage = "closed"]]
          /\ UNCHANGED <<stop, woken>>
  /\ UNCHANGED <<config, seq, log, intents>>

Stop ==
  /\ stage = "stopping"
  /\ stop' = TRUE
  /\ stage' = "waking"
  /\ UNCHANGED <<config, acceptor, woken, backlog, conn, seq, log, intents>>

\* A connection to the gateway's own port unblocks accept.
WakeNobody ==
  /\ stage = "waking"
  /\ stage' = "joining"
  /\ UNCHANGED <<config, listener, conn, seq, log, intents>>

Wake ==
  /\ stage = "waking"
  /\ woken' = (acceptor = "accepting")
  /\ stage' = "joining"
  /\ UNCHANGED <<config, acceptor, stop, backlog, conn, seq, log, intents>>

\* The accept thread is joined, the handlers are not; the log is read back.
ReadIntents ==
  /\ stage = "joining" /\ acceptor = "stopped"
  /\ intents' = log
  /\ stage' = "done"
  /\ UNCHANGED <<config, listener, conn, seq, log>>

Shutdown == Stop \/ Wake \/ ReadIntents

GatewayNext ==
  /\ stage # "done"
  /\ \/ Bind \/ Accept \/ StopAccepting
     \/ \E c \in Conn : Open(c) \/ Handle(c)
     \/ EndRun \/ Shutdown

\* The accept thread and the laboratory's thread run; clients, destinations
\* and handlers owe nothing.
GatewayFairness ==
  /\ WF_gatewayVars(stage # "done" /\ (Accept \/ StopAccepting))
  /\ WF_gatewayVars(Shutdown)

-----------------------------------------------------------------------------
(* Properties.                                                             *)

Connection ==
  [stage : {"idle", "queued", "accepted", "tunnel", "recording", "logging", "answering", "closed"},
   route : {"gateway", "direct"}, decision : Decision \cup {"none"},
   ticket : Nat, reply : {"none", "200", "relayed", "403", "502"},
   result : Result \cup {"none"}, reached : BOOLEAN]

Line == [conn : Conn, dest : Dest, decision : Decision, seq : Nat]

GatewayTypeOK ==
  /\ policy \in Policy
  /\ upstream \in BOOLEAN /\ hosted \in BOOLEAN
  /\ acceptor \in {"binding", "accepting", "stopped"}
  /\ stop \in BOOLEAN /\ woken \in BOOLEAN
  /\ backlog \in Seq(Conn)
  /\ dest \in [Conn -> Dest]
  /\ conn \in [Conn -> Connection]
  /\ seq \in Nat
  /\ log \in Seq(Line)
  /\ stage \in {"running", "stopping", "waking", "joining", "done"}
  /\ intents \in Seq(Line)

\* Threads take their number and write their line in two steps, in any order:
\* no number is written twice, and as long as no gateway was killed a number
\* is missing from the log only while its handler is about to write it.
SeqAccounted ==
  /\ \A i, j \in DOMAIN log : log[i].seq = log[j].seq => i = j
  /\ hosted => {log[i].seq : i \in DOMAIN log} \cup {conn[c].ticket : c \in {c \in Conn : At(c, "logging")}} = 0 .. seq - 1

\* What a client may have been told on a decision.
Tells(decision) == IF decision = "forwarded" THEN {"200", "relayed"} ELSE {Denial(decision)}

RecordedAs(c, decisions) ==
  \E i \in DOMAIN intents : intents[i].conn = c /\ intents[i].dest = dest[c] /\ intents[i].decision \in decisions

\* A client that was told something is in what the laboratory reads, with the
\* decision behind the answer, although no handler is joined and a gateway in
\* the namespace is killed.  The one it may miss is a client that was told yes
\* and whose handler has not written its line: its tunnel is open, or the
\* handler is between splice and the end of record.
AnswersAreAccounted ==
  stage = "done" =>
    \A c \in Conn : conn[c].reply # "none" =>
      \/ RecordedAs(c, {decision \in Decision : conn[c].reply \in Tells(decision)})
      \/ conn[c].reply \in {"200", "relayed"} /\ conn[c].stage \in {"tunnel", "recording", "logging"}

\* proxy.rs:9-11: "The gateway records every request as an intent".  Whatever
\* a client was told, the request is in what the laboratory reads.
EveryRequestIsRecorded ==
  stage = "done" => \A c \in Conn : conn[c].reply # "none" => RecordedAs(c, Decision)

\* Shutdown returns: the accept thread it joins is woken even when no client
\* ever connects again.
ShutdownReturns == stage = "stopping" ~> stage = "done"
=============================================================================
