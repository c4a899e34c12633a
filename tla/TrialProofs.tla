----------------------------- MODULE TrialProofs -----------------------------
(***************************************************************************)
(* Theorems about Trial for any number of connections and destinations.    *)
(***************************************************************************)
EXTENDS Trial, FiniteSetTheorems, TLAPS

-----------------------------------------------------------------------------
(* Types.                                                                  *)

\* The plan of a treatment is a policy.
LEMMA PlanIsPolicy ==
  ASSUME treatment \in Treatment
  PROVE  PlanPolicy \in Policy
BY DEF PlanPolicy, DenyAll, ForwardAll, ForwardExcept, Policy, Treatment, Treated, Denied

\* The first connection of the backlog is a connection, the others a backlog.
LEMMA HeadAndTail ==
  ASSUME NEW s \in Seq(Conn), s # <<>>
  PROVE  Head(s) \in Conn /\ Tail(s) \in Seq(Conn)
OBVIOUS

\* The updates of one connection that the actions make, and the fields they
\* leave alone.
Keeps(r, s) == s.ticket = r.ticket /\ s.reply = r.reply /\ s.decision = r.decision

\* A connection that moves on and nothing else.
LEMMA StageUpdate ==
  ASSUME NEW r \in Connection, NEW x \in {"queued", "accepted", "recording", "answering", "closed"}
  PROVE  /\ [r EXCEPT !.stage = x] \in Connection /\ [r EXCEPT !.stage = x].stage = x
         /\ Keeps(r, [r EXCEPT !.stage = x])
BY DEF Connection, Keeps

\* A handler decides.
LEMMA DecisionUpdate ==
  ASSUME NEW r \in Connection, NEW d \in Decision
  PROVE  LET s == [r EXCEPT !.stage = "recording", !.decision = d]
         IN  /\ s \in Connection /\ s.stage = "recording" /\ s.decision = d
             /\ s.ticket = r.ticket /\ s.reply = r.reply
BY DEF Connection

\* An answer passes through it.
LEMMA RelayUpdate ==
  ASSUME NEW r \in Connection
  PROVE  LET s == [r EXCEPT !.reply = "relayed"]
         IN  s \in Connection /\ s.stage = r.stage /\ s.decision = r.decision /\ s.reply = "relayed"
BY DEF Connection

\* A forward fails, perhaps after contact.
LEMMA FailUpdate ==
  ASSUME NEW r \in Connection, NEW b \in BOOLEAN
  PROVE  LET s == [r EXCEPT !.stage = "recording", !.decision = "forward-failed", !.reached = b]
         IN  /\ s \in Connection /\ s.stage = "recording" /\ s.decision = "forward-failed"
             /\ s.reply = r.reply
BY DEF Connection, Decision

\* A handler takes its number.
LEMMA TicketUpdate ==
  ASSUME NEW r \in Connection, NEW n \in Nat
  PROVE  LET s == [r EXCEPT !.stage = "logging", !.ticket = n]
         IN  /\ s \in Connection /\ s.stage = "logging" /\ s.ticket = n
             /\ s.reply = r.reply /\ s.decision = r.decision
BY DEF Connection

\* A handler answers.
LEMMA ReplyUpdate ==
  ASSUME NEW r \in Connection, NEW a \in {"403", "502"}
  PROVE  LET s == [r EXCEPT !.stage = "closed", !.reply = a]
         IN  /\ s \in Connection /\ s.stage = "closed" /\ s.reply = a
             /\ s.ticket = r.ticket /\ s.decision = r.decision
BY DEF Connection

\* A direct connection comes and goes.
LEMMA DirectUpdate ==
  ASSUME NEW r \in Connection, NEW x \in Result, NEW b \in BOOLEAN
  PROVE  LET s == [r EXCEPT !.stage = "closed", !.route = "direct", !.result = x, !.reached = b]
         IN  s \in Connection /\ s.stage = "closed" /\ Keeps(r, s)
BY DEF Connection, Keeps

-----------------------------------------------------------------------------
(* The inductive invariant.                                                *)

\* A handler that records or answers has decided.
Decided ==
  \A c \in Conn : conn[c].stage \in {"recording", "logging", "answering"} => conn[c].decision \in Decision

\* A line of the log stands behind every answer, given or about to be given.
LineOf(c, i) == log[i].conn = c /\ log[i].dest = dest[c] /\ log[i].decision = conn[c].decision

\* A client was told yes, and a connection got past the policy.
Yes(r)     == r.reply \in {"200", "relayed"}
Through(r) == Yes(r) \/ r.stage = "tunnel" \/ r.decision = "forwarded"

\* No is said last and for a reason; yes is said first, and only of a tunnel.
Honest(r) ==
  /\ r.reply \in {"403", "502"} => r.stage = "closed" /\ r.decision # "forwarded" /\ r.reply = Denial(r.decision)
  /\ Yes(r) => r.stage = "tunnel" \/ (r.stage \in {"recording", "logging", "closed"} /\ r.decision = "forwarded")
  /\ r.stage = "answering" => r.decision # "forwarded"
  /\ r.stage \in {"idle", "queued", "accepted"} => r.decision = "none" /\ r.reply = "none"
  /\ r.stage = "tunnel" => r.decision = "none"

\* It has written its line.
Listed(r) ==
  r.stage = "answering" \/ r.reply \in {"403", "502"} \/ (r.stage = "closed" /\ r.decision = "forwarded")

Backed ==
  \A c \in Conn :
    /\ Honest(conn[c])
    /\ Listed(conn[c]) => \E i \in DOMAIN log : LineOf(c, i)
    /\ Through(conn[c]) => hosted

\* A gateway that is killed lets nothing through.
Confined == ~hosted => policy.deny

\* The backlog holds queued connections, each once.
Queued ==
  /\ \A i \in DOMAIN backlog : At(backlog[i], "queued")
  /\ \A i, j \in DOMAIN backlog : backlog[i] = backlog[j] => i = j

\* What was read back is the log.
ReadBack == stage = "done" => intents = log

\* Numbers taken: below the counter, each by one handler or in one line, and
\* none lost while the gateway lives.
Tickets ==
  /\ \A i \in DOMAIN log : log[i].seq \in 0 .. seq - 1
  /\ \A c \in Conn : At(c, "logging") => conn[c].ticket \in 0 .. seq - 1
  /\ \A i, j \in DOMAIN log : log[i].seq = log[j].seq => i = j
  /\ \A c, d \in Conn : At(c, "logging") /\ At(d, "logging") /\ conn[c].ticket = conn[d].ticket => c = d
  /\ \A c \in Conn, i \in DOMAIN log : At(c, "logging") => log[i].seq # conn[c].ticket
  /\ hosted => \A n \in 0 .. seq - 1 :
       (\E i \in DOMAIN log : log[i].seq = n) \/ (\E c \in Conn : At(c, "logging") /\ conn[c].ticket = n)

Inv == GatewayTypeOK /\ Decided /\ Backed /\ Confined /\ Queued /\ ReadBack /\ Tickets

-----------------------------------------------------------------------------
(* Type correctness and decisions, action by action.                       *)

\* One connection changes into a decided one.
LEMMA OneMoves ==
  ASSUME conn \in [Conn -> Connection], Decided, NEW c \in Conn, NEW r \in Connection,
         conn' = [conn EXCEPT ![c] = r],
         r.stage \in {"recording", "logging", "answering"} => r.decision \in Decision
  PROVE  conn' \in [Conn -> Connection] /\ Decided'
BY DEF Decided

\* Every step of a handler keeps the types, and decides before it records.
LEMMA HandleType ==
  ASSUME GatewayTypeOK, Decided, NEW c \in Conn, Handle(c)
  PROVE  GatewayTypeOK' /\ Decided'
<1>1. /\ conn \in [Conn -> Connection] /\ conn[c] \in Connection
      /\ dest[c] \in Dest /\ seq \in Nat /\ log \in Seq(Line)
  BY DEF GatewayTypeOK
<1>2. SUFFICES /\ conn' \in [Conn -> Connection] /\ seq' \in Nat /\ log' \in Seq(Line)
               /\ Decided'
  BY DEF GatewayTypeOK, Handle, DropRequest, Refuse, Forward, Relay, ForwardFails,
         CloseTunnel, TakeTicket, WriteLine, Answer, config, listener, lab
<1>d. conn[c].stage \in {"recording", "logging", "answering"} => conn[c].decision \in Decision
  BY DEF Decided
<1>3. CASE DropRequest(c)
  BY <1>1, <1>3, StageUpdate, OneMoves DEF DropRequest
<1>4. CASE Refuse(c)
  BY <1>1, <1>4, DecisionUpdate, OneMoves DEF Refuse, Decision
<1>5. CASE Forward(c)
  <2>1. PICK b, t \in BOOLEAN :
          conn' = [conn EXCEPT ![c] = [conn[c] EXCEPT !.stage = "tunnel", !.reached = b,
                                       !.reply = IF t /\ ~upstream THEN "200" ELSE "none"]]
    BY <1>5 DEF Forward
  <2> DEFINE a == IF t /\ ~upstream THEN "200" ELSE "none"
             r == [conn[c] EXCEPT !.stage = "tunnel", !.reached = b, !.reply = a]
  <2>2. a \in {"200", "none"}
    OBVIOUS
  <2>3. conn' = [conn EXCEPT ![c] = r]
    BY <2>1
  <2> HIDE DEF a
  <2>4. r \in Connection /\ r.stage = "tunnel" /\ r.decision = conn[c].decision /\ r.reply = a
    BY <1>1, <2>2 DEF Connection
  <2> HIDE DEF r
  <2> QED
    BY <1>1, <1>5, <2>3, <2>4, OneMoves DEF Forward
<1>r. CASE Relay(c)
  BY <1>1, <1>d, <1>r, RelayUpdate, OneMoves DEF Relay
<1>6. CASE ForwardFails(c)
  <2>1. PICK b \in BOOLEAN :
          conn' = [conn EXCEPT ![c] = [conn[c] EXCEPT !.stage = "recording", !.decision = "forward-failed", !.reached = b]]
    BY <1>6 DEF ForwardFails
  <2> DEFINE r == [conn[c] EXCEPT !.stage = "recording", !.decision = "forward-failed", !.reached = b]
  <2>2. r \in Connection /\ r.decision = "forward-failed"
    BY <1>1, FailUpdate
  <2>3. conn' = [conn EXCEPT ![c] = r]
    BY <2>1
  <2> HIDE DEF r
  <2> QED
    BY <1>1, <1>6, <2>2, <2>3, OneMoves DEF ForwardFails, Decision
<1>7. CASE CloseTunnel(c)
  BY <1>1, <1>7, DecisionUpdate, OneMoves DEF CloseTunnel, Decision
<1>8. CASE TakeTicket(c)
  <2>1. conn[c].decision \in Decision
    BY <1>8, <1>d DEF TakeTicket, At
  <2>2. conn' \in [Conn -> Connection] /\ Decided'
    BY <1>1, <1>8, <2>1, TicketUpdate, OneMoves DEF TakeTicket
  <2> QED
    BY <1>1, <1>8, <2>2 DEF TakeTicket
<1>9. CASE WriteLine(c)
  <2> DEFINE to == IF conn[c].decision = "forwarded" THEN "closed" ELSE "answering"
  <2>1. conn[c].decision \in Decision /\ conn[c].ticket \in Nat
    BY <1>1, <1>9, <1>d DEF WriteLine, At, Connection
  <2>2. [conn |-> c, dest |-> dest[c], decision |-> conn[c].decision, seq |-> conn[c].ticket] \in Line
    BY <1>1, <2>1 DEF Line
  <2>3. log' \in Seq(Line)
    BY <1>1, <1>9, <2>2 DEF WriteLine
  <2>4. conn' = [conn EXCEPT ![c] = [conn[c] EXCEPT !.stage = to]] /\ to \in {"closed", "answering"}
    BY <1>9 DEF WriteLine
  <2>5. conn' \in [Conn -> Connection] /\ Decided'
    <3> HIDE DEF to
    <3> QED
      BY <1>1, <2>1, <2>4, StageUpdate, OneMoves DEF Keeps
  <2> QED
    BY <1>1, <1>9, <2>3, <2>5 DEF WriteLine
<1>10. CASE Answer(c)
  <2>1. Denial(conn[c].decision) \in {"403", "502"}
    BY DEF Denial
  <2> QED
    BY <1>1, <1>10, <2>1, ReplyUpdate, OneMoves DEF Answer
<1> QED
  BY <1>3, <1>4, <1>5, <1>r, <1>6, <1>7, <1>8, <1>9, <1>10 DEF Handle

\* Connections that close change nothing about the others.
LEMMA SomeClose ==
  ASSUME conn \in [Conn -> Connection], Decided, NEW S \in SUBSET Conn,
         conn' = [c \in Conn |-> IF c \in S THEN [conn[c] EXCEPT !.stage = "closed"] ELSE conn[c]]
  PROVE  conn' \in [Conn -> Connection] /\ Decided'
<1>1. \A c \in Conn : conn[c] \in Connection
  OBVIOUS
<1>2. ASSUME NEW c \in Conn
      PROVE  /\ conn'[c] \in Connection
             /\ conn'[c] = conn[c] \/ conn'[c].stage = "closed"
  BY <1>1, StageUpdate
<1>3. conn' \in [Conn -> Connection]
  BY <1>2
<1> QED
  BY <1>2, <1>3 DEF Decided

\* Every other step keeps the types and the decisions too.
LEMMA OthersType ==
  ASSUME GatewayTypeOK, Decided,
         \/ Bind \/ Accept \/ StopAccepting \/ \E c \in Conn : Open(c)
         \/ EndRun \/ Shutdown \/ \E c \in Conn : DirectConnect(c)
  PROVE  GatewayTypeOK' /\ Decided'
<1>1. /\ conn \in [Conn -> Connection] /\ \A c \in Conn : conn[c] \in Connection
      /\ backlog \in Seq(Conn) /\ log \in Seq(Line)
  BY DEF GatewayTypeOK
<1>2. CASE Bind
  BY <1>2 DEF Bind, GatewayTypeOK, Decided, config, lab
<1>3. CASE Accept
  <2>1. Head(backlog) \in Conn /\ Tail(backlog) \in Seq(Conn)
    BY <1>1, <1>3, HeadAndTail DEF Accept
  <2>2. conn' \in [Conn -> Connection] /\ Decided'
    BY <1>1, <1>3, <2>1, StageUpdate, OneMoves DEF Accept
  <2> QED
    BY <1>3, <2>1, <2>2 DEF Accept, GatewayTypeOK, config, lab
<1>4. CASE StopAccepting
  <2>1. conn' \in [Conn -> Connection] /\ Decided'
    <3> DEFINE S == {c \in Conn : At(c, "queued")}
    <3>1. conn' = [c \in Conn |-> IF c \in S THEN [conn[c] EXCEPT !.stage = "closed"] ELSE conn[c]]
      BY <1>4 DEF StopAccepting
    <3> QED
      BY <1>1, <3>1, SomeClose
  <2> QED
    BY <1>4, <2>1 DEF StopAccepting, GatewayTypeOK, config, lab
<1>5. ASSUME NEW c \in Conn, Open(c)  PROVE GatewayTypeOK' /\ Decided'
  <2>1. conn' \in [Conn -> Connection] /\ Decided'
    BY <1>1, <1>5, StageUpdate, OneMoves DEF Open
  <2>2. backlog' \in Seq(Conn)
    <3>1. backlog' = Append(backlog, c) \/ backlog' = backlog
      BY <1>5 DEF Open
    <3> QED
      BY <1>1, <3>1
  <2>3. UNCHANGED <<config, acceptor, stop, woken, seq, log, lab>>
    BY <1>5 DEF Open
  <2> QED
    BY <2>1, <2>2, <2>3 DEF GatewayTypeOK, config, lab
<1>6. CASE EndRun
  <2>1. conn' \in [Conn -> Connection] /\ Decided'
    <3>1. CASE hosted
      BY <1>1, <1>6, <3>1 DEF EndRun, Decided
    <3>2. CASE ~hosted
      <4>1. conn' = [c \in Conn |-> IF c \in Conn THEN [conn[c] EXCEPT !.stage = "closed"] ELSE conn[c]]
        BY <1>6, <3>2 DEF EndRun
      <4> QED
        BY <1>1, <4>1, SomeClose
    <3> QED
      BY <3>1, <3>2
  <2>2. /\ backlog' \in Seq(Conn) /\ acceptor' \in {"binding", "accepting", "stopped"}
        /\ stop' \in BOOLEAN /\ woken' \in BOOLEAN
    <3>1. /\ backlog' = backlog \/ backlog' = <<>>
          /\ acceptor' = acceptor \/ acceptor' = "stopped"
          /\ stop' = stop /\ woken' = woken
      BY <1>6 DEF EndRun, listener
    <3>2. acceptor \in {"binding", "accepting", "stopped"} /\ stop \in BOOLEAN /\ woken \in BOOLEAN
      BY DEF GatewayTypeOK
    <3>3. backlog' \in Seq(Conn) /\ acceptor' \in {"binding", "accepting", "stopped"}
      <4>1. <<>> \in Seq(Conn)
        OBVIOUS
      <4>2. backlog' \in Seq(Conn)
        BY <1>1, <3>1, <4>1
      <4>3. acceptor' \in {"binding", "accepting", "stopped"}
        BY <3>1, <3>2
      <4> QED
        BY <4>2, <4>3
    <3>4. stop' \in BOOLEAN /\ woken' \in BOOLEAN
      BY <3>1, <3>2
    <3> QED
      BY <3>3, <3>4
  <2>3. stage' \in {"stopping", "joining"} /\ UNCHANGED <<config, seq, log, intents>>
    BY <1>6 DEF EndRun
  <2> QED
    BY <2>1, <2>2, <2>3 DEF GatewayTypeOK, config
<1>7. CASE Shutdown
  BY <1>1, <1>7 DEF Shutdown, Stop, Wake, ReadIntents, GatewayTypeOK, Decided, config, listener
<1>8. ASSUME NEW c \in Conn, DirectConnect(c)  PROVE GatewayTypeOK' /\ Decided'
  <2>1. PICK x \in Result, b \in BOOLEAN :
          conn' = [conn EXCEPT ![c] = [conn[c] EXCEPT !.stage = "closed", !.route = "direct",
                                       !.result = x, !.reached = b]]
    BY <1>8 DEF DirectConnect
  <2>2. conn' \in [Conn -> Connection] /\ Decided'
    BY <1>1, <2>1, DirectUpdate, OneMoves
  <2> QED
    BY <1>8, <2>2 DEF DirectConnect, GatewayTypeOK, config, listener, lab
<1> QED
  BY <1>2, <1>3, <1>4, <1>5, <1>6, <1>7, <1>8

-----------------------------------------------------------------------------
(* Answers and numbers.                                                    *)

\* A connection moves that neither takes a number nor has a line.
LEMMA QuietMove ==
  ASSUME GatewayTypeOK, Backed, Tickets, NEW c \in Conn, NEW r \in Connection,
         conn' = [conn EXCEPT ![c] = r], UNCHANGED <<dest, log, seq, hosted>>,
         conn[c].stage # "logging", r.stage # "logging",
         Honest(r), ~Listed(r), Through(r) => hosted
  PROVE  Backed' /\ Tickets'
<1>1. conn \in [Conn -> Connection]
  BY DEF GatewayTypeOK
<1>2. conn'[c] = r /\ \A x \in Conn \ {c} : conn'[x] = conn[x]
  BY <1>1
<1>3. Backed'
  <2> SUFFICES ASSUME NEW x \in Conn
               PROVE  /\ Honest(conn'[x]) /\ (Through(conn'[x]) => hosted)
                      /\ Listed(conn'[x]) => \E i \in DOMAIN log : LineOf(x, i)'
    BY DEF Backed
  <2>1. CASE x = c
    BY <1>2, <2>1
  <2>2. CASE x # c
    BY <1>2, <2>2 DEF Backed, LineOf
  <2> QED
    BY <2>1, <2>2
<1>4. Tickets'
  BY <1>2 DEF Tickets, At
<1> QED
  BY <1>3, <1>4

\* Connections close that are not through: their answers stand, and numbers get
\* lost only where handlers die.
LEMMA QuietClose ==
  ASSUME GatewayTypeOK, Backed, Tickets, NEW S \in SUBSET Conn,
         conn' = [c \in Conn |-> IF c \in S THEN [conn[c] EXCEPT !.stage = "closed"] ELSE conn[c]],
         UNCHANGED <<dest, log, seq, hosted>>,
         \A c \in S : ~Through(conn[c]),
         hosted => \A c \in S : ~At(c, "logging")
  PROVE  Backed' /\ Tickets'
<1>1. \A c \in Conn : conn[c] \in Connection
  BY DEF GatewayTypeOK
<1>2. ASSUME NEW c \in Conn
      PROVE  /\ Keeps(conn[c], conn'[c])
             /\ conn'[c].stage = "closed" \/ conn'[c] = conn[c]
             /\ c \in S => conn'[c].stage = "closed"
             /\ c \notin S => conn'[c] = conn[c]
  BY <1>1, StageUpdate DEF Keeps
<1>3. Backed'
  <2> SUFFICES ASSUME NEW c \in Conn
               PROVE  /\ Honest(conn'[c]) /\ (Through(conn'[c]) => hosted)
                      /\ Listed(conn'[c]) => \E i \in DOMAIN log : LineOf(c, i)'
    BY DEF Backed
  <2>1. Honest(conn[c]) /\ (Through(conn[c]) => hosted) /\ (c \in S => ~Through(conn[c]))
    BY DEF Backed
  <2>2. Keeps(conn[c], conn'[c])
    BY <1>2
  <2>3. CASE c \in S
    <3>1. conn'[c].stage = "closed"
      BY <1>2, <2>3
    <3>2. Honest(conn'[c]) /\ ~Through(conn'[c])
      BY <2>1, <2>2, <2>3, <3>1 DEF Honest, Through, Yes, Keeps
    <3>3. Listed(conn'[c]) => Listed(conn[c])
      BY <2>1, <2>2, <2>3, <3>1 DEF Listed, Through, Keeps
    <3>4. ASSUME NEW i \in DOMAIN log, LineOf(c, i)  PROVE LineOf(c, i)'
      BY <2>2, <3>4 DEF LineOf, Keeps
    <3> QED
      BY <3>2, <3>3, <3>4 DEF Backed
  <2>4. CASE c \notin S
    <3>1. conn'[c] = conn[c]
      BY <1>2, <2>4
    <3> QED
      BY <2>1, <3>1 DEF Backed, LineOf
  <2> QED
    BY <2>3, <2>4
<1>4. Tickets'
  BY <1>2 DEF Tickets, At, Keeps
<1> QED
  BY <1>3, <1>4

\* A handler takes a number.
LEMMA TakeTicketStep ==
  ASSUME GatewayTypeOK, Backed, Tickets, NEW c \in Conn, TakeTicket(c)
  PROVE  Backed' /\ Tickets'
<1>1. /\ conn \in [Conn -> Connection] /\ seq \in Nat /\ seq' = seq + 1 /\ log' = log
      /\ dest' = dest /\ hosted' = hosted /\ log \in Seq(Line)
  BY DEF GatewayTypeOK, TakeTicket, config
<1>2. /\ conn'[c].stage = "logging" /\ conn'[c].ticket = seq /\ conn'[c].reply = conn[c].reply
      /\ conn'[c].decision = conn[c].decision
      /\ \A x \in Conn \ {c} : conn'[x] = conn[x]
      /\ conn[c].stage = "recording"
  BY <1>1, TicketUpdate DEF TakeTicket, At
<1>3. Honest(conn'[c]) /\ ~Listed(conn'[c]) /\ (Through(conn'[c]) => hosted)
  BY <1>2 DEF Backed, Honest, Listed, Through, Yes
<1>4. Backed'
  <2> SUFFICES ASSUME NEW x \in Conn
               PROVE  /\ Honest(conn'[x]) /\ (Through(conn'[x]) => hosted)
                      /\ Listed(conn'[x]) => \E i \in DOMAIN log : LineOf(x, i)'
    BY <1>1 DEF Backed
  <2>1. CASE x = c
    BY <1>3, <2>1
  <2>2. CASE x # c
    BY <1>1, <1>2, <2>2 DEF Backed, LineOf
  <2> QED
    BY <2>1, <2>2
<1>5. Tickets'
  <2>1. /\ \A i \in DOMAIN log : log[i].seq \in 0 .. seq - 1
        /\ \A x \in Conn : At(x, "logging") => conn[x].ticket \in 0 .. seq - 1
    BY DEF Tickets
  <2>2. \A x \in Conn \ {c} : At(x, "logging")' <=> At(x, "logging")
    BY <1>2 DEF At
  <2>3. 0 .. seq' - 1 = (0 .. seq - 1) \cup {seq} /\ seq \notin 0 .. seq - 1
    BY <1>1
  <2>4. \A i \in DOMAIN log' : log'[i].seq \in 0 .. seq' - 1
    BY <1>1, <2>1, <2>3
  <2>5. \A x \in Conn : At(x, "logging")' => conn'[x].ticket \in 0 .. seq' - 1
    BY <1>2, <2>1, <2>2, <2>3
  <2>6. \A i, j \in DOMAIN log' : log'[i].seq = log'[j].seq => i = j
    BY <1>1 DEF Tickets
  <2>7. \A x, y \in Conn : At(x, "logging")' /\ At(y, "logging")' /\ conn'[x].ticket = conn'[y].ticket => x = y
    BY <1>2, <2>1, <2>2, <2>3 DEF Tickets
  <2>8. \A x \in Conn, i \in DOMAIN log' : At(x, "logging")' => log'[i].seq # conn'[x].ticket
    BY <1>1, <1>2, <2>1, <2>2, <2>3 DEF Tickets
  <2>9. hosted' => \A n \in 0 .. seq' - 1 :
          (\E i \in DOMAIN log' : log'[i].seq = n) \/ (\E x \in Conn : At(x, "logging")' /\ conn'[x].ticket = n)
    <3>1. ASSUME hosted, NEW n \in 0 .. seq - 1
          PROVE  (\E i \in DOMAIN log' : log'[i].seq = n) \/ (\E x \in Conn : At(x, "logging")' /\ conn'[x].ticket = n)
      <4>1. (\E i \in DOMAIN log : log[i].seq = n) \/ (\E x \in Conn : At(x, "logging") /\ conn[x].ticket = n)
        BY <3>1 DEF Tickets
      <4>2. ASSUME NEW x \in Conn, At(x, "logging"), conn[x].ticket = n
            PROVE  At(x, "logging")' /\ conn'[x].ticket = n
        BY <1>2, <4>2 DEF At
      <4> QED
        BY <1>1, <4>1, <4>2
    <3>2. At(c, "logging")' /\ conn'[c].ticket = seq
      BY <1>2 DEF At
    <3> QED
      BY <1>1, <2>3, <3>1, <3>2
  <2> QED
    BY <2>4, <2>5, <2>6, <2>7, <2>8, <2>9 DEF Tickets
<1> QED
  BY <1>4, <1>5

\* A handler writes its line.
LEMMA WriteLineStep ==
  ASSUME GatewayTypeOK, Decided, Backed, Tickets, NEW c \in Conn, WriteLine(c)
  PROVE  Backed' /\ Tickets'
<1> DEFINE line == [conn |-> c, dest |-> dest[c], decision |-> conn[c].decision, seq |-> conn[c].ticket]
           to   == IF conn[c].decision = "forwarded" THEN "closed" ELSE "answering"
<1>0. PICK last \in Nat : last = Len(log) + 1
  BY DEF GatewayTypeOK
<1>1. /\ conn \in [Conn -> Connection] /\ conn[c] \in Connection /\ seq' = seq /\ log \in Seq(Line)
      /\ dest' = dest /\ hosted' = hosted /\ log' = Append(log, line) /\ seq \in Nat
  BY DEF GatewayTypeOK, WriteLine, config
<1>2. /\ DOMAIN log' = DOMAIN log \cup {last} /\ last \notin DOMAIN log
      /\ \A i \in DOMAIN log : log'[i] = log[i]
      /\ log'[last] = line
  <2> HIDE DEF line
  <2> QED
    BY <1>0, <1>1
<1>3. conn' = [conn EXCEPT ![c] = [conn[c] EXCEPT !.stage = to]] /\ to \in {"closed", "answering"}
  BY DEF WriteLine
<1>4. /\ conn'[c].stage = to /\ Keeps(conn[c], conn'[c])
      /\ \A x \in Conn \ {c} : conn'[x] = conn[x]
      /\ conn[c].stage = "logging"
  <2>1. conn'[c] = [conn[c] EXCEPT !.stage = to] /\ \A x \in Conn \ {c} : conn'[x] = conn[x]
    BY <1>1, <1>3
  <2>2. conn[c].stage = "logging"
    BY DEF WriteLine, At
  <2> DEFINE r == [conn[c] EXCEPT !.stage = to]
  <2> HIDE DEF to
  <2>3. r.stage = to /\ Keeps(conn[c], r)
    BY <1>1, <1>3, StageUpdate
  <2> HIDE DEF r
  <2> QED
    BY <2>1, <2>2, <2>3 DEF r
<1>5. line.conn = c /\ line.dest = dest[c] /\ line.decision = conn[c].decision /\ line.seq = conn[c].ticket
  OBVIOUS
<1>h. Honest(conn'[c]) /\ (Through(conn'[c]) => hosted)
  <2>1. Honest(conn[c]) /\ (Through(conn[c]) => hosted)
    BY DEF Backed
  <2>2. \/ to = "closed" /\ conn[c].decision = "forwarded"
        \/ to = "answering" /\ conn[c].decision # "forwarded"
    OBVIOUS
  <2> HIDE DEF to
  <2> QED
    BY <1>4, <2>1, <2>2 DEF Honest, Through, Yes, Keeps
<1> HIDE DEF line, to
<1>6. Backed'
  <2>1. LineOf(c, last)'
    BY <1>1, <1>2, <1>4, <1>5 DEF LineOf, Keeps
  <2>2. ASSUME NEW x \in Conn \ {c}
        PROVE  /\ Honest(conn'[x]) /\ (Through(conn'[x]) => hosted)
               /\ Listed(conn'[x]) => \E i \in DOMAIN log' : LineOf(x, i)'
    <3>1. conn'[x] = conn[x] /\ Honest(conn[x]) /\ (Through(conn[x]) => hosted)
      BY <1>4 DEF Backed
    <3>2. Listed(conn[x]) => \E i \in DOMAIN log : LineOf(x, i)
      BY DEF Backed
    <3>3. \A i \in DOMAIN log : LineOf(x, i) => i \in DOMAIN log' /\ LineOf(x, i)'
      BY <1>1, <1>2, <3>1 DEF LineOf
    <3> QED
      BY <3>1, <3>2, <3>3
  <2> QED
    BY <1>1, <1>2, <1>h, <2>1, <2>2 DEF Backed
<1>7. Tickets'
  <2>1. /\ \A x \in Conn : At(x, "logging")' => x # c /\ At(x, "logging") /\ conn'[x].ticket = conn[x].ticket
        /\ At(c, "logging")
        /\ \A x \in Conn \ {c} : At(x, "logging") => At(x, "logging")' /\ conn'[x].ticket = conn[x].ticket
    BY <1>3, <1>4 DEF At
  <2>2. conn[c].ticket \in 0 .. seq - 1
    BY <2>1 DEF Tickets
  <2>3. \A i \in DOMAIN log' : log'[i].seq \in 0 .. seq' - 1
    BY <1>1, <1>2, <1>5, <2>2 DEF Tickets
  <2>4. \A x \in Conn : At(x, "logging")' => conn'[x].ticket \in 0 .. seq' - 1
    BY <1>1, <2>1 DEF Tickets
  <2>5. \A i, j \in DOMAIN log' : log'[i].seq = log'[j].seq => i = j
    BY <1>2, <1>5, <2>1 DEF Tickets
  <2>6. \A x, y \in Conn : At(x, "logging")' /\ At(y, "logging")' /\ conn'[x].ticket = conn'[y].ticket => x = y
    BY <2>1 DEF Tickets
  <2>7. \A x \in Conn, i \in DOMAIN log' : At(x, "logging")' => log'[i].seq # conn'[x].ticket
    BY <1>2, <1>5, <2>1 DEF Tickets
  <2>8. ASSUME hosted, NEW n \in 0 .. seq - 1
        PROVE  (\E i \in DOMAIN log' : log'[i].seq = n) \/ (\E x \in Conn : At(x, "logging")' /\ conn'[x].ticket = n)
    <3>1. (\E i \in DOMAIN log : log[i].seq = n) \/ (\E x \in Conn : At(x, "logging") /\ conn[x].ticket = n)
      BY <2>8 DEF Tickets
    <3>2. ASSUME NEW x \in Conn, At(x, "logging"), conn[x].ticket = n
          PROVE  (\E i \in DOMAIN log' : log'[i].seq = n) \/ (At(x, "logging")' /\ conn'[x].ticket = n)
      BY <1>2, <1>5, <2>1, <3>2
    <3> QED
      BY <1>2, <3>1, <3>2
  <2> QED
    BY <1>1, <2>3, <2>4, <2>5, <2>6, <2>7, <2>8 DEF Tickets
<1> QED
  BY <1>6, <1>7

\* A handler answers.
LEMMA AnswerStep ==
  ASSUME GatewayTypeOK, Backed, Tickets, NEW c \in Conn, Answer(c)
  PROVE  Backed' /\ Tickets'
<1>1. /\ conn \in [Conn -> Connection] /\ conn[c] \in Connection /\ Denial(conn[c].decision) \in {"403", "502"}
      /\ dest' = dest /\ hosted' = hosted /\ log' = log /\ seq' = seq
  BY DEF GatewayTypeOK, Answer, config, listener, Denial
<1>2. /\ conn'[c].stage = "closed" /\ conn'[c].reply = Denial(conn[c].decision) /\ conn'[c].decision = conn[c].decision
      /\ \A x \in Conn \ {c} : conn'[x] = conn[x]
      /\ conn[c].stage = "answering"
  BY <1>1, ReplyUpdate DEF Answer, At
<1>h. /\ Honest(conn'[c]) /\ (Through(conn'[c]) => hosted)
      /\ \E i \in DOMAIN log : LineOf(c, i)
  <2>1. Honest(conn[c]) /\ Listed(conn[c]) /\ (Through(conn[c]) => hosted)
    BY <1>2 DEF Backed, Listed
  <2>2. conn[c].decision # "forwarded"
    BY <1>2, <2>1 DEF Honest
  <2> QED
    BY <1>1, <1>2, <2>1, <2>2 DEF Backed, Honest, Through, Yes
<1>3. Backed'
  <2> SUFFICES ASSUME NEW x \in Conn
               PROVE  /\ Honest(conn'[x]) /\ (Through(conn'[x]) => hosted)
                      /\ Listed(conn'[x]) => \E i \in DOMAIN log : LineOf(x, i)'
    BY <1>1 DEF Backed
  <2>1. CASE x = c
    BY <1>1, <1>2, <1>h, <2>1 DEF LineOf
  <2>2. CASE x # c
    BY <1>1, <1>2, <2>2 DEF Backed, LineOf
  <2> QED
    BY <2>1, <2>2
<1>4. Tickets'
  BY <1>1, <1>2 DEF Tickets, At
<1> QED
  BY <1>3, <1>4

\* Every step of a handler.
LEMMA HandleAnswers ==
  ASSUME GatewayTypeOK, Decided, Backed, Confined, Tickets, NEW c \in Conn, Handle(c)
  PROVE  Backed' /\ Tickets'
<1>1. /\ conn[c] \in Connection /\ upstream \in BOOLEAN
      /\ Honest(conn[c]) /\ (Through(conn[c]) => hosted)
  BY DEF GatewayTypeOK, Backed
<1>h. ~Refuses(dest[c]) => hosted
  BY DEF Confined, Refuses, GatewayTypeOK, Policy
<1>q. ASSUME NEW r \in Connection, conn' = [conn EXCEPT ![c] = r], UNCHANGED <<dest, log, seq, hosted>>,
             conn[c].stage # "logging", r.stage # "logging", Honest(r), ~Listed(r), Through(r) => hosted
      PROVE  Backed' /\ Tickets'
  BY <1>q, QuietMove
<1>2. CASE DropRequest(c)
  <2> DEFINE r == [conn[c] EXCEPT !.stage = "closed"]
  <2>1. r \in Connection /\ r.stage = "closed" /\ Keeps(conn[c], r)
    BY <1>1, StageUpdate
  <2>2. conn' = [conn EXCEPT ![c] = r] /\ UNCHANGED <<dest, log, seq, hosted>> /\ conn[c].stage = "accepted"
    BY <1>2 DEF DropRequest, At, config
  <2> HIDE DEF r
  <2>3. Honest(r) /\ ~Listed(r) /\ ~Through(r)
    BY <1>1, <2>1, <2>2 DEF Honest, Listed, Through, Yes, Keeps
  <2> QED
    BY <1>q, <2>1, <2>2, <2>3
<1>3. CASE Refuse(c)
  <2> DEFINE r == [conn[c] EXCEPT !.stage = "recording", !.decision = "refused"]
  <2>1. r \in Connection /\ r.stage = "recording" /\ r.decision = "refused" /\ r.reply = conn[c].reply
    BY <1>1, DecisionUpdate DEF Decision
  <2>2. conn' = [conn EXCEPT ![c] = r] /\ UNCHANGED <<dest, log, seq, hosted>> /\ conn[c].stage = "accepted"
    BY <1>3 DEF Refuse, At, config
  <2> HIDE DEF r
  <2>3. Honest(r) /\ ~Listed(r) /\ ~Through(r)
    BY <1>1, <2>1, <2>2 DEF Honest, Listed, Through, Yes
  <2> QED
    BY <1>q, <2>1, <2>2, <2>3
<1>4. CASE Forward(c)
  <2>1. PICK b, t \in BOOLEAN :
          conn' = [conn EXCEPT ![c] = [conn[c] EXCEPT !.stage = "tunnel", !.reached = b,
                                       !.reply = IF t /\ ~upstream THEN "200" ELSE "none"]]
    BY <1>4 DEF Forward
  <2> DEFINE a == IF t /\ ~upstream THEN "200" ELSE "none"
             r == [conn[c] EXCEPT !.stage = "tunnel", !.reached = b, !.reply = a]
  <2>2. a \in {"200", "none"}
    OBVIOUS
  <2>3. conn' = [conn EXCEPT ![c] = r]
    BY <2>1
  <2> HIDE DEF a
  <2>4. r \in Connection /\ r.stage = "tunnel" /\ r.decision = conn[c].decision /\ r.reply = a
    BY <1>1, <2>2 DEF Connection
  <2> HIDE DEF r
  <2>5. UNCHANGED <<dest, log, seq, hosted>> /\ conn[c].stage = "accepted" /\ hosted
    BY <1>4, <1>h DEF Forward, At, config
  <2>6. Honest(r) /\ ~Listed(r)
    BY <1>1, <2>2, <2>4, <2>5 DEF Honest, Listed, Yes
  <2> QED
    BY <1>q, <2>3, <2>4, <2>5, <2>6
<1>r. CASE Relay(c)
  <2> DEFINE r == [conn[c] EXCEPT !.reply = "relayed"]
  <2>1. r \in Connection /\ r.stage = conn[c].stage /\ r.decision = conn[c].decision /\ r.reply = "relayed"
    BY <1>1, RelayUpdate
  <2>2. conn' = [conn EXCEPT ![c] = r] /\ UNCHANGED <<dest, log, seq, hosted>> /\ conn[c].stage = "tunnel"
    BY <1>r DEF Relay, At, config
  <2> HIDE DEF r
  <2>3. Honest(r) /\ ~Listed(r) /\ hosted
    BY <1>1, <2>1, <2>2 DEF Honest, Listed, Through, Yes
  <2> QED
    BY <1>q, <2>1, <2>2, <2>3
<1>5. CASE ForwardFails(c)
  <2>1. PICK b \in BOOLEAN :
          conn' = [conn EXCEPT ![c] = [conn[c] EXCEPT !.stage = "recording", !.decision = "forward-failed", !.reached = b]]
    BY <1>5 DEF ForwardFails
  <2> DEFINE r == [conn[c] EXCEPT !.stage = "recording", !.decision = "forward-failed", !.reached = b]
  <2>2. r \in Connection /\ r.stage = "recording" /\ r.decision = "forward-failed" /\ r.reply = conn[c].reply
    BY <1>1, FailUpdate
  <2>3. conn' = [conn EXCEPT ![c] = r] /\ UNCHANGED <<dest, log, seq, hosted>> /\ conn[c].stage = "accepted"
    BY <1>5, <2>1 DEF ForwardFails, At, config
  <2> HIDE DEF r
  <2>4. Honest(r) /\ ~Listed(r) /\ ~Through(r)
    BY <1>1, <2>2, <2>3 DEF Honest, Listed, Through, Yes
  <2> QED
    BY <1>q, <2>2, <2>3, <2>4
<1>6. CASE CloseTunnel(c)
  <2> DEFINE r == [conn[c] EXCEPT !.stage = "recording", !.decision = "forwarded"]
  <2>1. r \in Connection /\ r.stage = "recording" /\ r.decision = "forwarded" /\ r.reply = conn[c].reply
    BY <1>1, DecisionUpdate DEF Decision
  <2>2. conn' = [conn EXCEPT ![c] = r] /\ UNCHANGED <<dest, log, seq, hosted>> /\ conn[c].stage = "tunnel"
    BY <1>6 DEF CloseTunnel, At, config
  <2> HIDE DEF r
  <2>3. Honest(r) /\ ~Listed(r) /\ hosted
    BY <1>1, <2>1, <2>2 DEF Honest, Listed, Through, Yes
  <2> QED
    BY <1>q, <2>1, <2>2, <2>3
<1> QED
  BY <1>2, <1>3, <1>4, <1>r, <1>5, <1>6, TakeTicketStep, WriteLineStep, AnswerStep DEF Handle

\* Every other step.
LEMMA OthersAnswers ==
  ASSUME GatewayTypeOK, Backed, Queued, Tickets,
         \/ Bind \/ Accept \/ StopAccepting \/ \E c \in Conn : Open(c)
         \/ EndRun \/ Shutdown \/ \E c \in Conn : DirectConnect(c)
  PROVE  Backed' /\ Tickets'
<1>1. conn \in [Conn -> Connection] /\ \A c \in Conn : conn[c] \in Connection
  BY DEF GatewayTypeOK
<1>2. ASSUME UNCHANGED <<conn, dest, log, seq, hosted>>  PROVE Backed' /\ Tickets'
  BY <1>2 DEF Backed, Tickets, LineOf, At
<1>3. CASE Bind
  BY <1>2, <1>3 DEF Bind, config
<1>4. CASE Accept
  <2>1. Head(backlog) \in Conn /\ conn[Head(backlog)].stage = "queued"
    <3>1. backlog \in Seq(Conn) /\ backlog # <<>>
      BY <1>4 DEF Accept, GatewayTypeOK
    <3>2. Head(backlog) = backlog[1] /\ 1 \in DOMAIN backlog
      BY <3>1
    <3> QED
      BY <3>1, <3>2, HeadAndTail DEF Queued, At
  <2> DEFINE h == Head(backlog)
             r == [conn[h] EXCEPT !.stage = "accepted"]
  <2>2. r \in Connection /\ r.stage = "accepted" /\ Keeps(conn[h], r) /\ Honest(conn[h])
    BY <1>1, <2>1, StageUpdate DEF Backed
  <2>3. conn' = [conn EXCEPT ![h] = r] /\ UNCHANGED <<dest, log, seq, hosted>>
    BY <1>4 DEF Accept, config
  <2>4. h \in Conn /\ conn[h].stage = "queued"
    BY <2>1
  <2> HIDE DEF h, r
  <2>5. Honest(r) /\ ~Listed(r) /\ ~Through(r)
    BY <2>2, <2>4 DEF Honest, Listed, Through, Yes, Keeps
  <2> QED
    BY <2>2, <2>3, <2>4, <2>5, QuietMove
<1>5. CASE StopAccepting
  <2> DEFINE S == {c \in Conn : At(c, "queued")}
  <2>1. conn' = [c \in Conn |-> IF c \in S THEN [conn[c] EXCEPT !.stage = "closed"] ELSE conn[c]]
    BY <1>5 DEF StopAccepting
  <2>2. \A c \in S : ~At(c, "logging") /\ ~Through(conn[c])
    BY DEF At, Backed, Honest, Through, Yes
  <2>3. UNCHANGED <<dest, log, seq, hosted>>
    BY <1>5 DEF StopAccepting, config
  <2> HIDE DEF S
  <2>4. S \in SUBSET Conn
    BY DEF S
  <2> QED
    BY <2>1, <2>2, <2>3, <2>4, QuietClose
<1>6. ASSUME NEW c \in Conn, Open(c)  PROVE Backed' /\ Tickets'
  <2>1. PICK x \in {"queued", "closed"} : conn' = [conn EXCEPT ![c] = [conn[c] EXCEPT !.stage = x]]
    BY <1>6 DEF Open
  <2>2. conn[c].stage = "idle" /\ UNCHANGED <<dest, log, seq, hosted>>
    BY <1>6 DEF Open, At, config
  <2> DEFINE r == [conn[c] EXCEPT !.stage = x]
  <2>3. r \in Connection /\ r.stage = x /\ Keeps(conn[c], r) /\ Honest(conn[c])
    <3>1. x \in {"queued", "accepted", "recording", "answering", "closed"} /\ conn[c] \in Connection
      BY <1>1
    <3> QED
      BY <3>1, StageUpdate DEF Backed
  <2>4. conn' = [conn EXCEPT ![c] = r]
    BY <2>1
  <2> HIDE DEF r
  <2>5. Honest(r) /\ ~Listed(r) /\ ~Through(r)
    BY <2>2, <2>3 DEF Honest, Listed, Through, Yes, Keeps
  <2> QED
    BY <2>2, <2>3, <2>4, <2>5, QuietMove
<1>7. CASE EndRun
  <2>1. UNCHANGED <<dest, log, seq, hosted>>
    BY <1>7 DEF EndRun, config
  <2>2. CASE hosted
    BY <1>2, <1>7, <2>1, <2>2 DEF EndRun
  <2>3. CASE ~hosted
    <3>1. conn' = [c \in Conn |-> IF c \in Conn THEN [conn[c] EXCEPT !.stage = "closed"] ELSE conn[c]]
      BY <1>7, <2>3 DEF EndRun
    <3>2. \A c \in Conn : ~Through(conn[c])
      BY <2>3 DEF Backed
    <3> QED
      BY <2>1, <2>3, <3>1, <3>2, QuietClose
  <2> QED
    BY <2>2, <2>3
<1>8. CASE Shutdown
  BY <1>2, <1>8 DEF Shutdown, Stop, Wake, ReadIntents, config
<1>9. ASSUME NEW c \in Conn, DirectConnect(c)  PROVE Backed' /\ Tickets'
  <2>1. PICK x \in Result, b \in BOOLEAN :
          conn' = [conn EXCEPT ![c] = [conn[c] EXCEPT !.stage = "closed", !.route = "direct",
                                       !.result = x, !.reached = b]]
    BY <1>9 DEF DirectConnect
  <2>2. conn[c].stage = "idle" /\ UNCHANGED <<dest, log, seq, hosted>>
    BY <1>9 DEF DirectConnect, At, config
  <2> DEFINE r == [conn[c] EXCEPT !.stage = "closed", !.route = "direct", !.result = x, !.reached = b]
  <2>3. r \in Connection /\ r.stage = "closed" /\ Keeps(conn[c], r) /\ Honest(conn[c])
    BY <1>1, DirectUpdate DEF Backed
  <2>4. conn' = [conn EXCEPT ![c] = r]
    BY <2>1
  <2> HIDE DEF r
  <2>5. Honest(r) /\ ~Listed(r) /\ ~Through(r)
    BY <2>2, <2>3 DEF Honest, Listed, Through, Yes, Keeps
  <2> QED
    BY <2>2, <2>3, <2>4, <2>5, QuietMove
<1> QED
  BY <1>3, <1>4, <1>5, <1>6, <1>7, <1>8, <1>9

-----------------------------------------------------------------------------
(* The backlog and the log read back.                                      *)

\* A handler's connection is not in the backlog.
LEMMA HandleQueue ==
  ASSUME GatewayTypeOK, Queued, NEW c \in Conn, Handle(c) \/ DirectConnect(c)
  PROVE  Queued'
<1>1. /\ conn \in [Conn -> Connection] /\ backlog \in Seq(Conn)
      /\ conn[c].stage # "queued" /\ backlog' = backlog
      /\ \A x \in Conn \ {c} : conn'[x] = conn[x]
  BY DEF GatewayTypeOK, Handle, DropRequest, Refuse, Forward, Relay, ForwardFails, CloseTunnel,
         TakeTicket, WriteLine, Answer, DirectConnect, At, listener
<1>2. \A i \in DOMAIN backlog : backlog[i] \in Conn \ {c}
  BY <1>1 DEF Queued, At
<1> QED
  BY <1>1, <1>2 DEF Queued, At

\* The other steps keep the backlog queued.
LEMMA OthersQueue ==
  ASSUME GatewayTypeOK, Queued,
         Bind \/ Accept \/ StopAccepting \/ (\E c \in Conn : Open(c)) \/ EndRun \/ Shutdown
  PROVE  Queued'
<1>1. /\ conn \in [Conn -> Connection] /\ \A c \in Conn : conn[c] \in Connection
      /\ backlog \in Seq(Conn)
  BY DEF GatewayTypeOK
<1>2. CASE UNCHANGED <<backlog, conn>>
  BY <1>2 DEF Queued, At
<1>3. CASE Accept
  <2>1. backlog # <<>> /\ backlog' = Tail(backlog)
    BY <1>3 DEF Accept
  <2>2. \A x \in Conn \ {Head(backlog)} : conn'[x] = conn[x]
    BY <1>1, <1>3 DEF Accept
  <2>3. /\ Head(backlog) = backlog[1] /\ 1 \in DOMAIN backlog
        /\ \A i \in DOMAIN backlog' : i + 1 \in DOMAIN backlog /\ i \in Nat /\ i # 0 /\ backlog'[i] = backlog[i + 1]
    BY <1>1, <2>1
  <2>4. \A i \in DOMAIN backlog' : backlog'[i] \in Conn \ {Head(backlog)} /\ At(backlog'[i], "queued")
    BY <1>1, <2>3 DEF Queued
  <2>5. \A i \in DOMAIN backlog' : conn'[backlog'[i]].stage = "queued"
    BY <2>2, <2>4 DEF At
  <2>6. \A i, j \in DOMAIN backlog' : backlog'[i] = backlog'[j] => i = j
    BY <2>3 DEF Queued
  <2> QED
    BY <2>5, <2>6 DEF Queued, At
<1>4. CASE backlog' = <<>>
  BY <1>4 DEF Queued
<1>5. ASSUME NEW c \in Conn, Open(c), backlog' # backlog  PROVE Queued'
  <2>1. /\ conn[c].stage = "idle" /\ backlog' = Append(backlog, c)
        /\ conn' = [conn EXCEPT ![c] = [conn[c] EXCEPT !.stage = "queued"]]
    BY <1>5 DEF Open, At
  <2>2. conn'[c].stage = "queued" /\ \A x \in Conn \ {c} : conn'[x] = conn[x]
    BY <1>1, <2>1, StageUpdate
  <2>3. PICK n \in Nat : n = Len(backlog) + 1
    BY <1>1
  <2>4. /\ DOMAIN backlog' = DOMAIN backlog \cup {n} /\ n \notin DOMAIN backlog
        /\ \A i \in DOMAIN backlog : backlog'[i] = backlog[i]
        /\ backlog'[n] = c
    BY <1>1, <2>1, <2>3
  <2>5. \A i \in DOMAIN backlog : backlog[i] \in Conn \ {c} /\ At(backlog[i], "queued")
    BY <1>1, <2>1 DEF Queued, At
  <2>6. \A i \in DOMAIN backlog' : conn'[backlog'[i]].stage = "queued"
    BY <2>2, <2>4, <2>5 DEF At
  <2>7. \A i, j \in DOMAIN backlog' : backlog'[i] = backlog'[j] => i = j
    BY <2>4, <2>5 DEF Queued
  <2> QED
    BY <2>6, <2>7 DEF Queued, At
<1>6. ASSUME NEW c \in Conn, Open(c), backlog' = backlog  PROVE Queued'
  <2>1. conn[c].stage = "idle" /\ \A x \in Conn \ {c} : conn'[x] = conn[x]
    BY <1>1, <1>6 DEF Open, At
  <2>2. \A i \in DOMAIN backlog : backlog[i] \in Conn \ {c}
    BY <1>1, <2>1 DEF Queued, At
  <2> QED
    BY <1>6, <2>1, <2>2 DEF Queued, At
<1>7. CASE EndRun
  <2>1. UNCHANGED <<backlog, conn>> \/ backlog' = <<>>
    BY <1>7 DEF EndRun, listener
  <2> QED
    BY <1>2, <1>4, <2>1
<1>8. CASE Bind \/ Shutdown
  <2>1. UNCHANGED <<backlog, conn>>
    BY <1>8 DEF Bind, Shutdown, Stop, Wake, ReadIntents, listener
  <2> QED
    BY <1>2, <2>1
<1>9. CASE StopAccepting
  BY <1>4, <1>9 DEF StopAccepting
<1> QED
  BY <1>3, <1>5, <1>6, <1>7, <1>8, <1>9

\* What was read stays the log.
LEMMA ReadStep ==
  ASSUME ReadBack, GatewayNext \/ \E c \in Conn : DirectConnect(c)
  PROVE  ReadBack'
<1>1. stage # "done"
  BY DEF GatewayNext, DirectConnect
<1>2. CASE ReadIntents
  BY <1>2 DEF ReadIntents, ReadBack
<1>3. ASSUME ~ReadIntents  PROVE stage' # "done"
  BY <1>1, <1>3 DEF GatewayNext, DirectConnect, Bind, Accept, StopAccepting, Open, Handle, DropRequest, Refuse,
     Forward, Relay, ForwardFails, CloseTunnel, TakeTicket, WriteLine, Answer, EndRun, Shutdown, Stop, Wake, lab
<1> QED
  BY <1>2, <1>3 DEF ReadBack

-----------------------------------------------------------------------------
(* Theorems.                                                               *)

\* The invariant holds at the start.
LEMMA InitInv == TrialInit => Inv
<1> SUFFICES ASSUME TrialInit  PROVE Inv
  OBVIOUS
<1>1. PlanPolicy \in Policy /\ Isolated \in BOOLEAN
  BY PlanIsPolicy DEF TrialInit, Isolated, Denied, Treated
<1>2. NotOpened \in Connection /\ NotOpened.stage = "idle" /\ NotOpened.reply = "none"
  BY DEF NotOpened, Connection
<1>3. \A c \in Conn : conn[c] = NotOpened
  BY DEF TrialInit, GatewayInit
<1>4. GatewayTypeOK
  <2>1. <<>> \in Seq(Conn) /\ <<>> \in Seq(Line)
    OBVIOUS
  <2>2. conn \in [Conn -> Connection]
    BY <1>2 DEF TrialInit, GatewayInit
  <2>3. hosted \in BOOLEAN /\ policy \in Policy
    BY <1>1 DEF TrialInit
  <2> QED
    BY <2>1, <2>2, <2>3 DEF TrialInit, GatewayInit, GatewayTypeOK
<1>5. Decided /\ Backed
  <2>1. NotOpened.decision = "none"
    BY DEF NotOpened
  <2>2. Honest(NotOpened) /\ ~Listed(NotOpened) /\ ~Through(NotOpened)
    BY <1>2, <2>1 DEF Honest, Listed, Through, Yes
  <2> QED
    BY <1>2, <1>3, <2>2 DEF Decided, Backed
<1>c. Confined
  BY DEF TrialInit, Confined, Isolated, PlanPolicy, DenyAll
<1>6. Queued /\ ReadBack
  BY DEF TrialInit, GatewayInit, Queued, ReadBack
<1>7. Tickets
  <2>1. log = <<>> /\ seq = 0
    BY DEF TrialInit, GatewayInit
  <2>2. DOMAIN log = {} /\ 0 .. seq - 1 = {}
    BY <2>1
  <2> QED
    BY <1>2, <1>3, <2>2 DEF Tickets, At
<1> QED
  BY <1>4, <1>5, <1>c, <1>6, <1>7 DEF Inv

\* What a gateway may do is settled when it starts.
LEMMA ConfinedStep ==
  ASSUME Confined, GatewayNext \/ \E c \in Conn : DirectConnect(c)
  PROVE  Confined'
<1>1. UNCHANGED <<policy, hosted>>
  BY DEF GatewayNext, DirectConnect, Bind, Accept, StopAccepting, Open, Handle, DropRequest, Refuse, Forward, Relay,
     ForwardFails, CloseTunnel, TakeTicket, WriteLine, Answer, EndRun, Shutdown, Stop, Wake, ReadIntents, config
<1> QED
  BY <1>1 DEF Confined

\* Every step keeps the invariant.
LEMMA NextInv == Inv /\ [TrialNext]_trialVars => Inv'
<1> SUFFICES ASSUME Inv, [TrialNext]_trialVars  PROVE Inv'
  OBVIOUS
<1>1. CASE UNCHANGED trialVars
  <2>1. UNCHANGED gatewayVars
    BY <1>1 DEF trialVars
  <2> QED
    BY <2>1 DEF Inv, gatewayVars, config, listener, lab, GatewayTypeOK, Decided, Backed, LineOf, Confined,
                Queued, ReadBack, Tickets, At
<1>2. ASSUME NEW c \in Conn, GatewayNext, Handle(c)  PROVE Inv'
  BY <1>2, HandleType, HandleAnswers, HandleQueue, ReadStep, ConfinedStep DEF Inv
<1>3. ASSUME GatewayNext, Bind \/ Accept \/ StopAccepting \/ (\E c \in Conn : Open(c)) \/ EndRun \/ Shutdown
      PROVE  Inv'
  BY <1>3, OthersType, OthersAnswers, OthersQueue, ReadStep, ConfinedStep DEF Inv
<1>4. ASSUME NEW c \in Conn, DirectConnect(c)  PROVE Inv'
  BY <1>4, OthersType, OthersAnswers, HandleQueue, ReadStep, ConfinedStep DEF Inv
<1> QED
  BY <1>1, <1>2, <1>3, <1>4 DEF TrialNext, GatewayNext

\* The invariant holds in every reachable state.
LEMMA AlwaysInv == TrialSpec => []Inv
  BY InitInv, NextInv, PTL DEF TrialSpec

\* For any number of connections and any interleaving with shutdown or the
\* kill: a client that was told something is among the intents read back with
\* the decision behind it, or was told yes and its handler has not written.
THEOREM AnswersAccounted == TrialSpec => []AnswersAreAccounted
<1>1. Inv => AnswersAreAccounted
  <2> SUFFICES ASSUME Inv, stage = "done", NEW c \in Conn, conn[c].reply # "none",
                      ~(conn[c].reply \in {"200", "relayed"} /\ conn[c].stage \in {"tunnel", "recording", "logging"})
               PROVE  RecordedAs(c, {decision \in Decision : conn[c].reply \in Tells(decision)})
    BY DEF AnswersAreAccounted
  <2>1. intents = log /\ log \in Seq(Line) /\ conn[c] \in Connection /\ Honest(conn[c])
    BY DEF Inv, ReadBack, GatewayTypeOK, Backed
  <2>2. conn[c].reply \in {"200", "relayed", "403", "502"}
    BY <2>1 DEF Connection
  <2>3. /\ Listed(conn[c])
        /\ conn[c].decision = "forwarded" <=> conn[c].reply \in {"200", "relayed"}
        /\ conn[c].decision # "forwarded" => conn[c].reply = Denial(conn[c].decision)
    BY <2>1, <2>2 DEF Honest, Listed, Yes
  <2>4. PICK i \in DOMAIN log : LineOf(c, i)
    BY <2>3 DEF Inv, Backed
  <2>5. log[i].decision \in Decision
    <3>1. log[i] \in Line
      BY <2>1
    <3> QED
      BY <3>1 DEF Line
  <2>6. conn[c].reply \in Tells(log[i].decision)
    BY <2>3, <2>4 DEF LineOf, Tells
  <2> QED
    BY <2>1, <2>4, <2>5, <2>6 DEF RecordedAs, LineOf
<1> QED
  BY <1>1, AlwaysInv, PTL

\* For any number of handlers, no number is written twice and none is lost
\* while the gateway lives.
THEOREM NumbersAreAccounted == TrialSpec => []SeqAccounted
<1>1. Inv => SeqAccounted
  <2> SUFFICES ASSUME Inv, hosted
               PROVE  {log[i].seq : i \in DOMAIN log} \cup {conn[c].ticket : c \in {c \in Conn : At(c, "logging")}}
                        = 0 .. seq - 1
    BY DEF SeqAccounted, Inv, Tickets
  <2>1. \A i \in DOMAIN log : log[i].seq \in 0 .. seq - 1
    BY DEF Inv, Tickets
  <2>2. \A c \in Conn : At(c, "logging") => conn[c].ticket \in 0 .. seq - 1
    BY DEF Inv, Tickets
  <2>3. \A n \in 0 .. seq - 1 :
          (\E i \in DOMAIN log : log[i].seq = n) \/ (\E c \in Conn : At(c, "logging") /\ conn[c].ticket = n)
    BY DEF Inv, Tickets
  <2> QED
    BY <2>1, <2>2, <2>3
<1> QED
  BY <1>1, AlwaysInv, PTL

-----------------------------------------------------------------------------
(* Denied trials.                                                          *)

\* The posture never changes, the policy is its plan, and a denied trial
\* reaches something only past its gateway and without a namespace.
Untouched(c) == conn[c].reached => conn[c].route = "direct" /\ ~Isolated

Posture ==
  /\ egress \in {"deny", "allow"} /\ namespaces \in BOOLEAN /\ treatment \in Treatment
  /\ MayTry
  /\ policy = PlanPolicy
  /\ Denied => \A c \in Conn : Untouched(c)

\* The updates of a connection that leave its route and reach alone.
SameReach(r, s) == s.route = r.route /\ s.reached = r.reached

\* All but dialling a destination and connecting directly are such updates.
LEMMA SameReachUpdates ==
  ASSUME NEW r \in Connection, NEW x, NEW y
  PROVE  /\ SameReach(r, [r EXCEPT !.stage = x])
         /\ SameReach(r, [r EXCEPT !.stage = x, !.decision = y])
         /\ SameReach(r, [r EXCEPT !.stage = x, !.ticket = y])
         /\ SameReach(r, [r EXCEPT !.stage = x, !.reply = y])
         /\ SameReach(r, [r EXCEPT !.reply = x])
BY DEF Connection, SameReach

\* One connection moves and reaches nothing by it.
LEMMA MoveReach ==
  ASSUME GatewayTypeOK, NEW c \in Conn, NEW r, SameReach(conn[c], r), conn' = [conn EXCEPT ![c] = r]
  PROVE  \A x \in Conn : SameReach(conn[x], conn'[x])
BY DEF GatewayTypeOK, SameReach

\* Only a destination dialled and a direct connection reach anything.
LEMMA ReachSteps ==
  ASSUME GatewayTypeOK, GatewayNext
  PROVE  (\A x \in Conn : SameReach(conn[x], conn'[x])) \/ (\E c \in Conn : Forward(c) \/ ForwardFails(c))
<1>1. /\ conn \in [Conn -> Connection] /\ \A c \in Conn : conn[c] \in Connection
      /\ backlog \in Seq(Conn)
  BY DEF GatewayTypeOK
<1>2. CASE UNCHANGED conn
  BY <1>2 DEF SameReach
<1>3. ASSUME NEW S \in SUBSET Conn,
             conn' = [c \in Conn |-> IF c \in S THEN [conn[c] EXCEPT !.stage = "closed"] ELSE conn[c]]
      PROVE  \A x \in Conn : SameReach(conn[x], conn'[x])
  <2> SUFFICES ASSUME NEW x \in Conn  PROVE SameReach(conn[x], conn'[x])
    OBVIOUS
  <2>1. conn'[x] = conn[x] \/ conn'[x] = [conn[x] EXCEPT !.stage = "closed"]
    BY <1>3
  <2>2. SameReach(conn[x], [conn[x] EXCEPT !.stage = "closed"])
    BY <1>1, SameReachUpdates
  <2>3. CASE conn'[x] = conn[x]
    BY <2>3 DEF SameReach
  <2>4. CASE conn'[x] = [conn[x] EXCEPT !.stage = "closed"]
    BY <2>2, <2>4
  <2> QED
    BY <2>1, <2>3, <2>4
<1>4. ASSUME NEW c \in Conn, Handle(c), ~Forward(c), ~ForwardFails(c)  PROVE \A x \in Conn : SameReach(conn[x], conn'[x])
  <2>1. PICK r : SameReach(conn[c], r) /\ conn' = [conn EXCEPT ![c] = r]
    <3>1. CASE DropRequest(c)
      BY <1>1, <3>1, SameReachUpdates DEF DropRequest
    <3>2. CASE Refuse(c) \/ CloseTunnel(c)
      BY <1>1, <3>2, SameReachUpdates DEF Refuse, CloseTunnel
    <3>r. CASE Relay(c)
      BY <1>1, <3>r, SameReachUpdates DEF Relay
    <3>3. CASE TakeTicket(c)
      BY <1>1, <3>3, SameReachUpdates DEF TakeTicket
    <3>4. CASE WriteLine(c)
      BY <1>1, <3>4, SameReachUpdates DEF WriteLine
    <3>5. CASE Answer(c)
      BY <1>1, <3>5, SameReachUpdates DEF Answer
    <3> QED
      BY <1>4, <3>1, <3>2, <3>r, <3>3, <3>4, <3>5 DEF Handle
  <2> QED
    BY <2>1, MoveReach
<1>5. CASE Bind \/ Shutdown
  BY <1>2, <1>5 DEF Bind, Shutdown, Stop, Wake, ReadIntents
<1>6. CASE Accept
  <2>1. Head(backlog) \in Conn
    BY <1>1, <1>6, HeadAndTail DEF Accept
  <2> QED
    BY <1>1, <1>6, <2>1, SameReachUpdates, MoveReach DEF Accept
<1>7. CASE StopAccepting
  <2>1. conn' = [c \in Conn |-> IF c \in {d \in Conn : At(d, "queued")}
                                THEN [conn[c] EXCEPT !.stage = "closed"] ELSE conn[c]]
    BY <1>7 DEF StopAccepting
  <2> QED
    BY <1>3, <2>1
<1>8. CASE EndRun
  <2>1. \/ UNCHANGED conn
        \/ conn' = [c \in Conn |-> IF c \in Conn THEN [conn[c] EXCEPT !.stage = "closed"] ELSE conn[c]]
    BY <1>8 DEF EndRun
  <2> QED
    BY <1>2, <1>3, <2>1
<1>9. ASSUME NEW c \in Conn, Open(c)  PROVE \A x \in Conn : SameReach(conn[x], conn'[x])
  <2>1. PICK x \in {"queued", "closed"} : conn' = [conn EXCEPT ![c] = [conn[c] EXCEPT !.stage = x]]
    BY <1>9 DEF Open
  <2> QED
    BY <1>1, <2>1, SameReachUpdates, MoveReach
<1> QED
  BY <1>4, <1>5, <1>6, <1>7, <1>8, <1>9 DEF GatewayNext

\* A denied trial's gateway refuses every destination.
LEMMA DeniedRefuses ==
  ASSUME Posture, Denied, NEW d \in Dest
  PROVE  Refuses(d)
BY DEF Posture, PlanPolicy, DenyAll, Refuses

\* Every step keeps the posture.
LEMMA PostureStep ==
  ASSUME GatewayTypeOK, Posture, TrialNext
  PROVE  Posture'
<1>1. UNCHANGED <<posture, policy>>
  BY DEF TrialNext, GatewayNext, DirectConnect, Bind, Accept, StopAccepting, Open, Handle, DropRequest, Refuse, Forward,
     Relay, ForwardFails, CloseTunnel, TakeTicket, WriteLine, Answer, EndRun, Shutdown, Stop, Wake, ReadIntents, config
<1>2. /\ Denied' = Denied /\ Isolated' = Isolated /\ PlanPolicy' = PlanPolicy /\ MayTry' = MayTry
  BY <1>1 DEF posture, Denied, Isolated, PlanPolicy, MayTry, Treated, DenyAll, ForwardAll, ForwardExcept
<1>3. ASSUME Denied, NEW x \in Conn  PROVE Untouched(x)'
  <2>1. Untouched(x)
    BY <1>3 DEF Posture
  <2>2. ASSUME SameReach(conn[x], conn'[x])  PROVE Untouched(x)'
    BY <1>2, <2>1, <2>2 DEF Untouched, SameReach
  <2>3. ASSUME NEW c \in Conn, Forward(c) \/ ForwardFails(c)  PROVE FALSE
    <3>1. dest[c] \in Dest /\ ~Refuses(dest[c])
      BY <2>3 DEF GatewayTypeOK, Forward, ForwardFails
    <3> QED
      BY <1>3, <3>1, DeniedRefuses
  <2>4. CASE GatewayNext
    BY <2>2, <2>3, <2>4, ReachSteps
  <2>5. ASSUME NEW c \in Conn, DirectConnect(c)  PROVE Untouched(x)'
    <3>1. PICK y \in Result, b \in BOOLEAN :
            /\ Isolated => ~b
            /\ conn' = [conn EXCEPT ![c] = [conn[c] EXCEPT !.stage = "closed", !.route = "direct",
                                         !.result = y, !.reached = b]]
      BY <2>5 DEF DirectConnect, Outcome
    <3>2. conn \in [Conn -> Connection] /\ conn[c] \in Connection
      BY DEF GatewayTypeOK
    <3>3. CASE x = c
      BY <1>2, <3>1, <3>2, <3>3 DEF Untouched, Connection
    <3>4. CASE x # c
      BY <2>2, <3>1, <3>2, <3>4 DEF SameReach
    <3> QED
      BY <3>3, <3>4
  <2> QED
    BY <2>4, <2>5 DEF TrialNext
<1> QED
  BY <1>1, <1>2, <1>3 DEF Posture, posture

\* The posture holds in every reachable state.
LEMMA AlwaysPosture == TrialSpec => [](Inv /\ Posture)
<1>1. TrialInit => Posture
  BY DEF TrialInit, GatewayInit, Posture, Untouched, NotOpened
<1>2. Inv /\ Posture /\ [TrialNext]_trialVars => Posture'
  <2>1. ASSUME Posture, UNCHANGED trialVars  PROVE Posture'
    BY <2>1 DEF Posture, Untouched, trialVars, gatewayVars, posture, config, Denied, Isolated, PlanPolicy, MayTry,
                Treated, DenyAll, ForwardAll, ForwardExcept
  <2> QED
    BY <2>1, PostureStep DEF Inv
<1> QED
  BY <1>1, <1>2, AlwaysInv, PTL DEF TrialSpec

\* Type correctness of the trial and its gateway.
THEOREM TypeCorrect == TrialSpec => []TrialTypeOK
<1>1. Inv /\ Posture => TrialTypeOK
  BY DEF Inv, Posture, TrialTypeOK
<1> QED
  BY <1>1, AlwaysPosture, PTL

\* For any destinations and clients, a trial that reports an enforced denial
\* contacted nothing real, a partial one nothing through its gateway.
THEOREM DenialsHold == TrialSpec => []DenialHolds
<1>1. Inv /\ Posture => DenialHolds
  <2> SUFFICES ASSUME Inv, Posture, Denied, ~Treated("hide"), NEW c \in Conn, conn[c].reached
               PROVE  Enforcement = "partially" /\ conn[c].route = "direct"
    BY DEF DenialHolds
  <2>1. conn[c].route = "direct" /\ ~Isolated
    BY DEF Posture, Untouched
  <2>2. ~namespaces /\ ~Treated("deny") /\ ~Treated("block")
    BY <2>1 DEF Posture, MayTry, Isolated, Denied, Treated
  <2>3. Treated("none")
    BY <2>2 DEF Posture, Treatment, Treated
  <2> QED
    BY <2>1, <2>2, <2>3 DEF Enforcement
<1> QED
  BY <1>1, AlwaysPosture, PTL

-----------------------------------------------------------------------------
(* What the observations say.                                              *)

\* A connection decides once: it was refused if and only if the policy says so,
\* it reached something through the gateway only where the policy lets it and
\* says so when it is closed, and a tunnel reached its destination or the host's
\* proxy.  A direct one is what its result leaves possible.
Fits(c, r) ==
  /\ r.decision = "refused" => Refuses(dest[c])
  /\ r.decision \in {"forwarded", "forward-failed"} => ~Refuses(dest[c])
  /\ r.reached /\ r.route = "gateway" =>
       ~Refuses(dest[c]) /\ (r.stage = "tunnel" \/ r.decision \in {"forwarded", "forward-failed"})
  /\ r.stage = "tunnel" \/ r.decision = "forwarded" => r.reached \/ upstream
  /\ r.stage = "tunnel" => ~Refuses(dest[c])
  /\ r.stage \in {"idle", "queued", "accepted"} => r.decision = "none"
  /\ r.route = "direct" =>
       /\ r.stage = "closed" /\ r.decision = "none" /\ r.result \in Result
       /\ r.result = "stream" => r.reached
       /\ r.result = "errno" => ~r.reached

\* A connection with a line in the log is past its decision.
Past(r) == r.stage \in {"answering", "closed"}

\* Only so many connections were direct ones.
DirectOnes == {c \in Conn : conn[c].route = "direct"}

Faithful ==
  /\ \A c \in Conn : Fits(c, conn[c])
  /\ \A i \in DOMAIN log : LineOf(log[i].conn, i) /\ Past(conn[log[i].conn])
  /\ IsFiniteSet(DirectOnes)

\* A line of the log and its connection.
LEMMA LinesAreFaithful ==
  ASSUME log \in Seq(Line), Faithful, NEW i \in DOMAIN log
  PROVE  /\ LineOf(log[i].conn, i) /\ Past(conn[log[i].conn])
         /\ log[i].conn \in Conn /\ log[i].decision \in Decision
<1>1. log[i] \in Line
  OBVIOUS
<1> QED
  BY <1>1 DEF Faithful, Line

\* One connection of the gateway moves, and keeps its decision if it has a line.
LEMMA FaithfulMove ==
  ASSUME GatewayTypeOK, Faithful, NEW c \in Conn, NEW r \in Connection,
         conn' = [conn EXCEPT ![c] = r], UNCHANGED <<config, log>>,
         Fits(c, r), r.route = conn[c].route,
         Past(conn[c]) => Past(r) /\ r.decision = conn[c].decision
  PROVE  Faithful'
<1>1. conn \in [Conn -> Connection] /\ log \in Seq(Line) /\ UNCHANGED <<policy, upstream, dest>>
  BY DEF GatewayTypeOK, config
<1>2. conn'[c] = r /\ \A x \in Conn \ {c} : conn'[x] = conn[x]
  BY <1>1
<1>3. \A x \in Conn : Fits(x, conn[x])'
  BY <1>1, <1>2 DEF Faithful, Fits, Refuses
<1>4. \A i \in DOMAIN log' : LineOf(log[i].conn, i)' /\ Past(conn[log[i].conn])'
  <2> TAKE i \in DOMAIN log'
  <2>1. LineOf(log[i].conn, i) /\ Past(conn[log[i].conn]) /\ log[i].conn \in Conn
    BY <1>1, LinesAreFaithful
  <2>2. CASE log[i].conn = c
    BY <1>1, <1>2, <2>1, <2>2 DEF LineOf
  <2>3. CASE log[i].conn # c
    BY <1>1, <1>2, <2>1, <2>3 DEF LineOf, Past
  <2> QED
    BY <2>2, <2>3
<1>5. DirectOnes' = DirectOnes
  BY <1>2 DEF DirectOnes
<1> QED
  BY <1>1, <1>3, <1>4, <1>5 DEF Faithful

\* Connections that close and change nothing else.
LEMMA FaithfulClose ==
  ASSUME GatewayTypeOK, Faithful, NEW S \in SUBSET Conn, UNCHANGED <<config, log>>,
         \A c \in S : conn[c].stage # "tunnel",
         conn' = [c \in Conn |-> IF c \in S THEN [conn[c] EXCEPT !.stage = "closed"] ELSE conn[c]]
  PROVE  Faithful'
<1>1. conn \in [Conn -> Connection] /\ log \in Seq(Line) /\ UNCHANGED <<policy, upstream, dest>>
  BY DEF GatewayTypeOK, config
<1>2. ASSUME NEW x \in Conn
      PROVE  /\ conn'[x].decision = conn[x].decision /\ SameReach(conn[x], conn'[x])
             /\ conn'[x].result = conn[x].result
             /\ \/ conn'[x].stage = conn[x].stage
                \/ conn'[x].stage = "closed" /\ conn[x].stage # "tunnel"
  <2>1. /\ conn[x] \in Connection
        /\ \/ conn'[x] = conn[x]
           \/ conn'[x] = [conn[x] EXCEPT !.stage = "closed"] /\ conn[x].stage # "tunnel"
    BY <1>1
  <2> QED
    BY <2>1 DEF Connection, SameReach
<1>3. \A x \in Conn : Fits(x, conn[x])'
  BY <1>1, <1>2 DEF Faithful, Fits, Refuses, SameReach
<1>4. \A i \in DOMAIN log' : LineOf(log[i].conn, i)' /\ Past(conn[log[i].conn])'
  <2> TAKE i \in DOMAIN log'
  <2>1. LineOf(log[i].conn, i) /\ Past(conn[log[i].conn]) /\ log[i].conn \in Conn
    BY <1>1, LinesAreFaithful
  <2> QED
    BY <1>1, <1>2, <2>1 DEF LineOf, Past
<1>5. DirectOnes' = DirectOnes
  BY <1>2 DEF DirectOnes, SameReach
<1> QED
  BY <1>1, <1>3, <1>4, <1>5 DEF Faithful

\* A handler writes the line of its own decision.
LEMMA FaithfulWrite ==
  ASSUME GatewayTypeOK, Decided, Faithful, NEW c \in Conn, WriteLine(c)
  PROVE  Faithful'
<1>1. /\ conn \in [Conn -> Connection] /\ conn[c] \in Connection /\ log \in Seq(Line)
      /\ UNCHANGED <<policy, upstream, dest>> /\ conn[c].stage = "logging"
  BY DEF GatewayTypeOK, config, WriteLine, At
<1> DEFINE to   == IF conn[c].decision = "forwarded" THEN "closed" ELSE "answering"
           line == [conn |-> c, dest |-> dest[c], decision |-> conn[c].decision, seq |-> conn[c].ticket]
<1>2. /\ conn'[c].stage = to /\ conn'[c].decision = conn[c].decision /\ SameReach(conn[c], conn'[c])
      /\ conn'[c].result = conn[c].result
      /\ \A x \in Conn \ {c} : conn'[x] = conn[x]
  BY <1>1 DEF WriteLine, Connection, SameReach
<1>3. to \in {"answering", "closed"} /\ line.conn = c /\ line.dest = dest[c] /\ line.decision = conn[c].decision
  OBVIOUS
<1>4. log' = Append(log, line)
  BY DEF WriteLine
<1> HIDE DEF to, line
<1>5. \A x \in Conn : Fits(x, conn[x])'
  BY <1>1, <1>2, <1>3 DEF Faithful, Fits, Refuses, SameReach
<1>6. PICK n \in Nat : n = Len(log) + 1
  BY <1>1
<1>7. /\ DOMAIN log' = DOMAIN log \cup {n} /\ log'[n] = line
      /\ \A i \in DOMAIN log : log'[i] = log[i]
  BY <1>1, <1>4, <1>6
<1>8. \A i \in DOMAIN log' : LineOf(log[i].conn, i)' /\ Past(conn[log[i].conn])'
  <2> TAKE i \in DOMAIN log'
  <2>1. CASE log'[i] = line
    BY <1>1, <1>2, <1>3, <2>1 DEF LineOf, Past
  <2>2. CASE i \in DOMAIN log /\ log'[i] = log[i]
    <3>1. LineOf(log[i].conn, i) /\ Past(conn[log[i].conn]) /\ log[i].conn \in Conn
      BY <1>1, <2>2, LinesAreFaithful
    <3>2. log[i].conn # c
      BY <1>1, <3>1 DEF Past
    <3> QED
      BY <1>1, <1>2, <2>2, <3>1, <3>2 DEF LineOf, Past
  <2> QED
    BY <1>7, <2>1, <2>2
<1>9. DirectOnes' = DirectOnes
  BY <1>2 DEF DirectOnes, SameReach
<1> QED
  BY <1>5, <1>8, <1>9 DEF Faithful

\* A direct connection is one more.
LEMMA FaithfulDirect ==
  ASSUME GatewayTypeOK, Faithful, NEW c \in Conn, DirectConnect(c)
  PROVE  Faithful'
<1>1. /\ conn \in [Conn -> Connection] /\ conn[c] \in Connection /\ log \in Seq(Line)
      /\ UNCHANGED <<policy, upstream, dest, log>> /\ conn[c].stage = "idle"
  BY DEF GatewayTypeOK, config, DirectConnect, At
<1>a. conn[c].decision = "none"
  BY <1>1 DEF Faithful, Fits
<1>2. PICK y \in Result, b \in BOOLEAN :
        /\ Outcome(y, b)
        /\ conn' = [conn EXCEPT ![c] = [conn[c] EXCEPT !.stage = "closed", !.route = "direct",
                                     !.result = y, !.reached = b]]
  BY DEF DirectConnect
<1>3. /\ conn'[c].stage = "closed" /\ conn'[c].route = "direct" /\ conn'[c].decision = "none"
      /\ conn'[c].result = y /\ conn'[c].reached = b
      /\ \A x \in Conn \ {c} : conn'[x] = conn[x]
  BY <1>1, <1>a, <1>2 DEF Connection
<1>4. \A x \in Conn : Fits(x, conn[x])'
  BY <1>1, <1>2, <1>3 DEF Faithful, Fits, Refuses, Outcome
<1>5. \A i \in DOMAIN log' : LineOf(log[i].conn, i)' /\ Past(conn[log[i].conn])'
  <2> TAKE i \in DOMAIN log'
  <2>1. LineOf(log[i].conn, i) /\ Past(conn[log[i].conn]) /\ log[i].conn \in Conn
    BY <1>1, LinesAreFaithful
  <2>2. log[i].conn # c
    BY <1>1, <2>1 DEF Past
  <2> QED
    BY <1>1, <1>3, <2>1, <2>2 DEF LineOf, Past
<1>6. DirectOnes' = DirectOnes \cup {c}
  BY <1>3 DEF DirectOnes
<1>7. IsFiniteSet(DirectOnes')
  BY <1>6, FS_AddElement DEF Faithful
<1> QED
  BY <1>4, <1>5, <1>7 DEF Faithful

\* Every step of a handler.
LEMMA FaithfulHandle ==
  ASSUME GatewayTypeOK, Decided, Backed, Faithful, NEW c \in Conn, Handle(c)
  PROVE  Faithful'
<1>1. /\ conn[c] \in Connection /\ Fits(c, conn[c]) /\ dest[c] \in Dest /\ upstream \in BOOLEAN
  BY DEF GatewayTypeOK, Faithful
<1>2. CASE DropRequest(c)
  <2> DEFINE r == [conn[c] EXCEPT !.stage = "closed"]
  <2>1. /\ r \in Connection /\ r.stage = "closed" /\ r.decision = conn[c].decision
        /\ r.route = conn[c].route /\ r.reached = conn[c].reached
    BY <1>1 DEF Connection
  <2>2. conn[c].stage = "accepted" /\ conn' = [conn EXCEPT ![c] = r] /\ UNCHANGED <<config, log>>
    BY <1>2 DEF DropRequest, At
  <2> HIDE DEF r
  <2>3. Fits(c, r)
    BY <1>1, <2>1, <2>2 DEF Fits
  <2> QED
    BY <2>1, <2>2, <2>3, FaithfulMove DEF Past
<1>3. CASE Refuse(c)
  <2> DEFINE r == [conn[c] EXCEPT !.stage = "recording", !.decision = "refused"]
  <2>1. /\ r \in Connection /\ r.stage = "recording" /\ r.decision = "refused"
        /\ r.route = conn[c].route /\ r.reached = conn[c].reached
    BY <1>1 DEF Connection, Decision
  <2>2. /\ conn[c].stage = "accepted" /\ conn' = [conn EXCEPT ![c] = r] /\ UNCHANGED <<config, log>>
        /\ Refuses(dest[c])
    BY <1>3 DEF Refuse, At
  <2> HIDE DEF r
  <2>3. Fits(c, r)
    BY <1>1, <2>1, <2>2 DEF Fits
  <2> QED
    BY <2>1, <2>2, <2>3, FaithfulMove DEF Past
<1>4. CASE Forward(c)
  <2>1. PICK b, t \in BOOLEAN :
          /\ b \/ upstream
          /\ conn' = [conn EXCEPT ![c] = [conn[c] EXCEPT !.stage = "tunnel", !.reached = b,
                                       !.reply = IF t /\ ~upstream THEN "200" ELSE "none"]]
    BY <1>4 DEF Forward
  <2> DEFINE r == [conn[c] EXCEPT !.stage = "tunnel", !.reached = b,
                                  !.reply = IF t /\ ~upstream THEN "200" ELSE "none"]
  <2>2. /\ r \in Connection /\ r.stage = "tunnel" /\ r.decision = conn[c].decision
        /\ r.route = conn[c].route /\ r.reached = b
    BY <1>1 DEF Connection
  <2>3. /\ conn[c].stage = "accepted" /\ conn' = [conn EXCEPT ![c] = r] /\ UNCHANGED <<config, log>>
        /\ ~Refuses(dest[c])
    BY <1>4, <2>1 DEF Forward, At
  <2> HIDE DEF r
  <2>4. conn[c].decision = "none"
    BY <1>1, <2>3 DEF Fits
  <2>5. Fits(c, r)
    BY <1>1, <2>1, <2>2, <2>3, <2>4 DEF Fits
  <2> QED
    BY <2>2, <2>3, <2>5, FaithfulMove DEF Past
<1>r. CASE Relay(c)
  <2> DEFINE r == [conn[c] EXCEPT !.reply = "relayed"]
  <2>1. /\ r \in Connection /\ r.stage = conn[c].stage /\ r.decision = conn[c].decision
        /\ r.route = conn[c].route /\ r.reached = conn[c].reached /\ r.result = conn[c].result
    BY <1>1 DEF Connection
  <2>2. conn' = [conn EXCEPT ![c] = r] /\ UNCHANGED <<config, log>>
    BY <1>r DEF Relay
  <2> HIDE DEF r
  <2>3. Fits(c, r)
    BY <1>1, <2>1 DEF Fits
  <2> QED
    BY <2>1, <2>2, <2>3, FaithfulMove DEF Past
<1>5. CASE ForwardFails(c)
  <2>1. PICK b \in BOOLEAN :
          conn' = [conn EXCEPT ![c] = [conn[c] EXCEPT !.stage = "recording", !.decision = "forward-failed", !.reached = b]]
    BY <1>5 DEF ForwardFails
  <2> DEFINE r == [conn[c] EXCEPT !.stage = "recording", !.decision = "forward-failed", !.reached = b]
  <2>2. /\ r \in Connection /\ r.stage = "recording" /\ r.decision = "forward-failed"
        /\ r.route = conn[c].route
    BY <1>1 DEF Connection, Decision
  <2>3. /\ conn[c].stage = "accepted" /\ conn' = [conn EXCEPT ![c] = r] /\ UNCHANGED <<config, log>>
        /\ ~Refuses(dest[c])
    BY <1>5, <2>1 DEF ForwardFails, At
  <2> HIDE DEF r
  <2>4. Fits(c, r)
    BY <1>1, <2>2, <2>3 DEF Fits
  <2> QED
    BY <2>2, <2>3, <2>4, FaithfulMove DEF Past
<1>6. CASE CloseTunnel(c)
  <2> DEFINE r == [conn[c] EXCEPT !.stage = "recording", !.decision = "forwarded"]
  <2>1. /\ r \in Connection /\ r.stage = "recording" /\ r.decision = "forwarded"
        /\ r.route = conn[c].route /\ r.reached = conn[c].reached
    BY <1>1 DEF Connection, Decision
  <2>2. /\ conn[c].stage = "tunnel" /\ conn' = [conn EXCEPT ![c] = r] /\ UNCHANGED <<config, log>>
    BY <1>6 DEF CloseTunnel, At
  <2> HIDE DEF r
  <2>3. Fits(c, r)
    BY <1>1, <2>1, <2>2 DEF Fits
  <2> QED
    BY <2>1, <2>2, <2>3, FaithfulMove DEF Past
<1>7. CASE TakeTicket(c)
  <2> DEFINE r == [conn[c] EXCEPT !.stage = "logging", !.ticket = seq]
  <2>1. seq \in Nat
    BY DEF GatewayTypeOK
  <2>2. /\ r \in Connection /\ r.stage = "logging" /\ r.decision = conn[c].decision
        /\ r.route = conn[c].route /\ r.reached = conn[c].reached
    BY <1>1, <2>1 DEF Connection
  <2>3. /\ conn[c].stage = "recording" /\ conn' = [conn EXCEPT ![c] = r] /\ UNCHANGED <<config, log>>
    BY <1>7 DEF TakeTicket, At
  <2> HIDE DEF r
  <2>4. Fits(c, r)
    BY <1>1, <2>2, <2>3 DEF Fits
  <2> QED
    BY <2>2, <2>3, <2>4, FaithfulMove DEF Past
<1>8. CASE WriteLine(c)
  BY <1>8, FaithfulWrite
<1>9. CASE Answer(c)
  <2> DEFINE r == [conn[c] EXCEPT !.stage = "closed", !.reply = Denial(conn[c].decision)]
  <2>1. Denial(conn[c].decision) \in {"403", "502"}
    BY DEF Denial
  <2>2. /\ r \in Connection /\ r.stage = "closed" /\ r.decision = conn[c].decision
        /\ r.route = conn[c].route /\ r.reached = conn[c].reached
    BY <1>1, <2>1 DEF Connection
  <2>3. /\ conn[c].stage = "answering" /\ conn' = [conn EXCEPT ![c] = r] /\ UNCHANGED <<config, log>>
    BY <1>9 DEF Answer, At
  <2> HIDE DEF r
  <2>4. Fits(c, r)
    BY <1>1, <2>2, <2>3 DEF Fits
  <2> QED
    BY <2>2, <2>3, <2>4, FaithfulMove DEF Past
<1> QED
  BY <1>2, <1>3, <1>4, <1>r, <1>5, <1>6, <1>7, <1>8, <1>9 DEF Handle

\* Steps that change neither the connections nor the log.
LEMMA FaithfulIdle ==
  ASSUME Faithful, UNCHANGED <<config, conn, log>>
  PROVE  Faithful'
BY DEF Faithful, Fits, Refuses, LineOf, DirectOnes, config

\* Every step.
LEMMA FaithfulStep ==
  ASSUME Inv, Faithful, TrialNext
  PROVE  Faithful'
<1>1. /\ GatewayTypeOK /\ Decided /\ Backed /\ Queued
      /\ \A c \in Conn : conn[c] \in Connection /\ Fits(c, conn[c])
      /\ backlog \in Seq(Conn)
  BY DEF Inv, GatewayTypeOK, Faithful
<1>2. ASSUME NEW c \in Conn, Handle(c)  PROVE Faithful'
  BY <1>1, <1>2, FaithfulHandle
<1>3. CASE Bind \/ Shutdown
  BY <1>3, FaithfulIdle DEF Bind, Shutdown, Stop, Wake, ReadIntents
<1>4. ASSUME NEW c \in Conn, NEW x \in {"queued", "accepted", "closed"},
             conn' = [conn EXCEPT ![c] = [conn[c] EXCEPT !.stage = x]],
             UNCHANGED <<config, log>>, conn[c].stage \in {"idle", "queued"}
      PROVE  Faithful'
  <2> DEFINE r == [conn[c] EXCEPT !.stage = x]
  <2>1. /\ r \in Connection /\ r.stage = x /\ r.decision = conn[c].decision
        /\ r.route = conn[c].route /\ r.reached = conn[c].reached
    BY <1>1 DEF Connection
  <2>2. conn' = [conn EXCEPT ![c] = r]
    BY <1>4
  <2> HIDE DEF r
  <2>3. Fits(c, r)
    BY <1>1, <1>4, <2>1 DEF Fits
  <2> QED
    BY <1>1, <1>4, <2>1, <2>2, <2>3, FaithfulMove DEF Past
<1>5. CASE Accept
  <2>1. Head(backlog) \in Conn /\ conn[Head(backlog)].stage = "queued"
    <3>1. backlog # <<>>
      BY <1>5 DEF Accept
    <3>2. Head(backlog) = backlog[1] /\ 1 \in DOMAIN backlog
      BY <1>1, <3>1
    <3> QED
      BY <1>1, <3>1, <3>2, HeadAndTail DEF Queued, At
  <2> QED
    BY <1>4, <1>5, <2>1 DEF Accept
<1>6. CASE StopAccepting
  <2>1. conn' = [c \in Conn |-> IF c \in {d \in Conn : At(d, "queued")}
                                THEN [conn[c] EXCEPT !.stage = "closed"] ELSE conn[c]]
    BY <1>6 DEF StopAccepting
  <2>2. UNCHANGED <<config, log>>
    BY <1>6 DEF StopAccepting
  <2>3. \A c \in {d \in Conn : At(d, "queued")} : conn[c].stage # "tunnel"
    BY DEF At
  <2> QED
    BY <1>1, <2>1, <2>2, <2>3, FaithfulClose
<1>7. CASE EndRun
  <2>1. \/ UNCHANGED conn
        \/ /\ ~hosted
           /\ conn' = [c \in Conn |-> IF c \in Conn THEN [conn[c] EXCEPT !.stage = "closed"] ELSE conn[c]]
    BY <1>7 DEF EndRun
  <2>2. UNCHANGED <<config, log>>
    BY <1>7 DEF EndRun
  <2>3. ~hosted => \A c \in Conn : conn[c].stage # "tunnel"
    BY <1>1 DEF Backed, Through
  <2> QED
    BY <1>1, <2>1, <2>2, <2>3, FaithfulIdle, FaithfulClose
<1>8. ASSUME NEW c \in Conn, Open(c)  PROVE Faithful'
  <2>1. PICK x \in {"queued", "closed"} : conn' = [conn EXCEPT ![c] = [conn[c] EXCEPT !.stage = x]]
    BY <1>8 DEF Open
  <2> QED
    BY <1>4, <1>8, <2>1 DEF Open, At
<1>9. ASSUME NEW c \in Conn, DirectConnect(c)  PROVE Faithful'
  BY <1>1, <1>9, FaithfulDirect
<1> QED
  BY <1>2, <1>3, <1>5, <1>6, <1>7, <1>8, <1>9 DEF TrialNext, GatewayNext

\* Connections and log agree with the policy in every reachable state.
LEMMA AlwaysFaithful == TrialSpec => [](Inv /\ Faithful)
<1>1. TrialInit => Faithful
  <2> SUFFICES ASSUME TrialInit  PROVE Faithful
    OBVIOUS
  <2>1. DOMAIN log = {}
    BY DEF TrialInit, GatewayInit
  <2>2. \A c \in Conn : conn[c] = NotOpened
    BY DEF TrialInit, GatewayInit
  <2>3. DirectOnes = {}
    BY <2>2 DEF DirectOnes, NotOpened
  <2> QED
    BY <2>1, <2>2, <2>3, FS_EmptySet DEF Faithful, Fits, NotOpened
<1>2. Inv /\ Faithful /\ [TrialNext]_trialVars => Faithful'
  <2>1. ASSUME Faithful, UNCHANGED trialVars  PROVE Faithful'
    BY <2>1, FaithfulIdle DEF trialVars, gatewayVars
  <2> QED
    BY <2>1, FaithfulStep
<1> QED
  BY <1>1, <1>2, AlwaysInv, PTL DEF TrialSpec

\* What is counted is finite.
LEMMA CountsAreFinite ==
  ASSUME Inv, Faithful, NEW d, NEW D
  PROVE  IsFiniteSet(Directly(d)) /\ IsFiniteSet(Named(d, D))
<1>1. IsFiniteSet(Directly(d))
  BY FS_Subset DEF Faithful, DirectOnes, Directly
<1>2. IsFiniteSet(Named(d, D))
  <2>1. Named(d, D) \subseteq 1 .. Len(intents) /\ Len(intents) \in Nat
    BY DEF Inv, GatewayTypeOK, Named
  <2>2. IsFiniteSet(1 .. Len(intents))
    BY <2>1, FS_Interval
  <2> QED
    BY <2>1, <2>2, FS_Subset
<1> QED
  BY <1>1, <1>2

\* A line that was read back is its connection's, whose decision is the
\* policy's.
LEMMA IntentsAreFaithful ==
  ASSUME Inv, Faithful, stage = "done", NEW i \in DOMAIN intents
  PROVE  /\ intents[i].conn \in Conn /\ intents[i].dest = dest[intents[i].conn]
         /\ intents[i].decision = conn[intents[i].conn].decision /\ intents[i].decision \in Decision
         /\ Fits(intents[i].conn, conn[intents[i].conn])
<1>1. intents = log /\ log \in Seq(Line)
  BY DEF Inv, ReadBack, GatewayTypeOK
<1>2. intents[i] \in Line /\ LineOf(intents[i].conn, i)
  BY <1>1 DEF Faithful
<1> QED
  BY <1>1, <1>2 DEF Line, LineOf, Faithful

\* Of some of the attempts counted, the count differs from that of all.
LEMMA CountsDiffer ==
  ASSUME Inv, Faithful, NEW d
  PROVE  LET failed == {c \in Directly(d) : conn[c].result \in {"errno", "EINPROGRESS"}}
             denied == Named(d, {"refused", "forward-failed"})
         IN  all_failed(d) <=> failed = Directly(d) /\ denied = Named(d, Decision)
<1> DEFINE failed == {c \in Directly(d) : conn[c].result \in {"errno", "EINPROGRESS"}}
           denied == Named(d, {"refused", "forward-failed"})
<1>1. IsFiniteSet(Directly(d)) /\ IsFiniteSet(Named(d, Decision))
  BY CountsAreFinite
<1>2. failed \subseteq Directly(d) /\ denied \subseteq Named(d, Decision)
  BY DEF Named, Decision
<1>3. all_failed(d) <=> Cardinality(failed) + Cardinality(denied) >= Cardinality(Directly(d)) + Cardinality(Named(d, Decision))
  BY DEF all_failed, failures, attempts
<1> HIDE DEF failed, denied
<1>4. /\ Cardinality(failed) \in Nat /\ Cardinality(Directly(d)) \in Nat
      /\ Cardinality(failed) <= Cardinality(Directly(d))
      /\ Cardinality(failed) = Cardinality(Directly(d)) => failed = Directly(d)
  BY <1>1, <1>2, FS_Subset, FS_CardinalityType
<1>5. /\ Cardinality(denied) \in Nat /\ Cardinality(Named(d, Decision)) \in Nat
      /\ Cardinality(denied) <= Cardinality(Named(d, Decision))
      /\ Cardinality(denied) = Cardinality(Named(d, Decision)) => denied = Named(d, Decision)
  BY <1>1, <1>2, FS_Subset, FS_CardinalityType
<1>6. all_failed(d) <=> failed = Directly(d) /\ denied = Named(d, Decision)
  BY <1>3, <1>4, <1>5
<1> QED
  BY <1>6 DEF failed, denied

\* For any clients, destinations and interleavings: a candidate kept away by
\* policy was refused and nothing else; one said to be available has an attempt
\* behind it that got through or left nothing to tell by; one whose attempts all
\* failed was reached, if at all, where neither observer can see it.
THEOREM SightingsHold == TrialSpec => []SightingsAreTrue
<1>1. ASSUME Inv, Faithful, stage = "done", NEW c \in Conn, enforced_unavailable(dest[c])
      PROVE  ~conn[c].reached /\ conn[c].route = "gateway" /\ conn[c].reply # "502"
  <2>1. conn[c] \in Connection /\ Fits(c, conn[c]) /\ Honest(conn[c])
    BY <1>1 DEF Inv, GatewayTypeOK, Faithful, Backed
  <2>2. conn[c].route = "gateway"
    BY <1>1, <2>1 DEF enforced_unavailable, Directly, Connection
  <2>3. PICK i \in DOMAIN intents : intents[i].dest = dest[c] /\ intents[i].decision = "refused"
    BY <1>1 DEF enforced_unavailable, Named
  <2>4. Refuses(dest[c])
    BY <1>1, <2>3, IntentsAreFaithful DEF Fits
  <2>5. conn[c].reply # "502"
    <3> SUFFICES ASSUME conn[c].reply = "502"  PROVE FALSE
      OBVIOUS
    <3>1. /\ Denial(conn[c].decision) = "502" /\ conn[c].decision # "forwarded"
          /\ \E j \in DOMAIN log : LineOf(c, j)
      BY <1>1, <2>1 DEF Inv, Backed, Honest, Listed
    <3>2. conn[c].decision \in Decision
      <4>1. PICK j \in DOMAIN log : LineOf(c, j)
        BY <3>1
      <4>2. log[j].decision \in Decision
        BY <1>1, LinesAreFaithful DEF Inv, GatewayTypeOK
      <4> QED
        BY <4>1, <4>2 DEF LineOf
    <3> QED
      BY <2>1, <2>4, <3>1, <3>2 DEF Denial, Decision, Fits
  <2> QED
    BY <2>1, <2>2, <2>4, <2>5 DEF Fits
<1>2. ASSUME Inv, Faithful, stage = "done", NEW d \in Dest, ~all_failed(d)
      PROVE  \E c \in Conn : dest[c] = d /\ MayBeAvailable(c)
  <2>1. \/ \E c \in Directly(d) : conn[c].result \notin {"errno", "EINPROGRESS"}
        \/ Named(d, {"refused", "forward-failed"}) # Named(d, Decision)
    BY <1>2, CountsDiffer
  <2>2. ASSUME NEW c \in Directly(d), conn[c].result \notin {"errno", "EINPROGRESS"}
        PROVE  c \in Conn /\ dest[c] = d /\ MayBeAvailable(c)
    <3>1. c \in Conn /\ dest[c] = d /\ conn[c].route = "direct"
      BY DEF Directly
    <3>2. conn[c].result \in Result /\ (conn[c].result = "stream" => conn[c].reached)
      BY <1>2, <3>1 DEF Faithful, Fits
    <3> QED
      BY <2>2, <3>1, <3>2 DEF Result, MayBeAvailable
  <2>3. CASE Named(d, {"refused", "forward-failed"}) # Named(d, Decision)
    <3>1. PICK i \in DOMAIN intents : intents[i].dest = d /\ intents[i].decision = "forwarded"
      BY <2>3 DEF Named, Decision
    <3> QED
      BY <1>2, <3>1, IntentsAreFaithful DEF Fits, MayBeAvailable
  <2> QED
    BY <2>1, <2>2, <2>3
<1>3. ASSUME Inv, Faithful, stage = "done", NEW d \in Dest, all_failed(d),
             NEW c \in Conn, dest[c] = d, conn[c].reached
      PROVE  MayBeOverlooked(c)
  <2> SUFFICES ASSUME conn[c].decision # "forward-failed", conn[c].stage = "closed"
               PROVE  conn[c].result = "EINPROGRESS"
    BY DEF MayBeOverlooked, At
  <2>1. conn[c] \in Connection /\ Fits(c, conn[c]) /\ intents = log
    BY <1>3 DEF Inv, GatewayTypeOK, Faithful, ReadBack
  <2>2. CASE conn[c].route = "direct"
    <3>1. conn[c].result \in {"errno", "EINPROGRESS"}
      BY <1>3, <2>2, CountsDiffer DEF Directly
    <3> QED
      BY <1>3, <2>1, <2>2, <3>1 DEF Fits
  <2>3. CASE conn[c].route = "gateway"
    <3>1. conn[c].decision = "forwarded"
      BY <1>3, <2>1, <2>3 DEF Fits
    <3>2. PICK i \in DOMAIN log : LineOf(c, i)
      BY <1>3, <3>1 DEF Inv, Backed, Listed
    <3>3. i \in Named(d, Decision) /\ i \notin Named(d, {"refused", "forward-failed"})
      BY <1>3, <2>1, <3>1, <3>2 DEF LineOf, Named, Decision
    <3> QED
      BY <1>3, <3>3, CountsDiffer
  <2> QED
    BY <2>1, <2>2, <2>3 DEF Connection
<1>4. Inv /\ Faithful => SightingsAreTrue
  BY <1>1, <1>2, <1>3 DEF SightingsAreTrue, EnforcedMeansRefused, AvailabilityIsTrue
<1> QED
  BY <1>4, AlwaysFaithful, PTL
=============================================================================
